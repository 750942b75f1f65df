------------------------------ MODULE Content ------------------------------
(***************************************************************************)
(* What users own and write: shops with photos and products, reviews,      *)
(* saved shops, feedback and replies, announcements and comments,          *)
(* notifications and preferences; and UserService.deleteUser, which has to *)
(* delete all of it.  A service finds, tests and then writes in statements *)
(* of their own; the foreign keys of the schema have the last word.        *)
(***************************************************************************)
EXTENDS Integers, FiniteSets

CONSTANTS
    None,
    Residents, Merchants, Admins,
    Leavers,     \* bound: users whose accounts are deleted
    Rows,        \* rows that may exist
    Kind,        \* Kind[r]: the table that row r is of
    Refs,        \* Refs[r]: the users and rows that the foreign keys of r name
    Seeds,       \* rows of a seeded database
    Scopes,      \* bound: kinds that are written in one behaviour
    Slots,       \* bound: requests at a time
    MaxInserts,  \* bound: inserts
    MaxFaults    \* bound: statements that fail

Everyone == Residents \union Merchants \union Admins

(* Kinds whose key is made of the references: such a row may come again. *)
Keyed == {"review", "saved", "preference", "vote", "electionVote"}

Kinds ==
    Keyed \union
    {"shop", "photo", "product", "order", "item", "feedback", "reply", "announcement", "comment",
     "notification", "audit", "invitation"}

ASSUME ContentAssumption ==
    /\ Rows \intersect Everyone = {} /\ None \notin Rows \union Everyone
    /\ Kind \in [Rows -> Kinds] /\ Refs \in [Rows -> SUBSET (Rows \union Everyone)]
    /\ Seeds \subseteq Rows /\ Leavers \subseteq Everyone
    /\ \A s \in Scopes : s \subseteq Kinds
    /\ MaxInserts \in Nat /\ MaxFaults \in Nat

(* Photos and products are of one shop, a preference is of one user. *)
ASSUME OwnerAssumption ==
    \A r \in Rows : Kind[r] \in {"photo", "product", "preference"} => \A x, y \in Refs[r] : x = y

(* The foreign keys of the schema: kinds of rows that refer to which kinds,  *)
(* and kinds that do not refer to users.                                    *)
Relations ==
    {<<"photo", "shop">>, <<"product", "shop">>, <<"order", "shop">>, <<"review", "shop">>, <<"saved", "shop">>,
     <<"item", "order">>, <<"item", "product">>, <<"reply", "feedback">>, <<"comment", "announcement">>}

Userless == {"photo", "product", "item", "announcement"}

ASSUME SchemaAssumption ==
    \A r \in Rows : \A x \in Refs[r] :
        IF x \in Rows THEN <<Kind[r], Kind[x]>> \in Relations ELSE Kind[r] \notin Userless

(* What item i is of belongs to the shop of its order o. *)
OneShop(o, i) == \A p \in Refs[i] \ {o} : Refs[p] \subseteq Refs[o]

(* A seeded database keeps its keys and mixes no shops in an order. *)
ASSUME SeedAssumption ==
    \A r \in Seeds :
        /\ Refs[r] \subseteq Seeds \union Everyone
        /\ Kind[r] = "item" => \E o \in Refs[r] : Kind[o] = "order" /\ OneShop(o, r)

VARIABLES
    scope,    \* the kinds that are written; never changes
    users,    \* accounts that exist
    tokens,   \* accounts with a push token
    table,    \* table[r]: what row r holds
    born,     \* history: rows that were inserted; an id is given once
    req,      \* req[q]: the request that slot q works on
    inserts, faults

vars == <<scope, users, tokens, table, born, req, inserts, faults>>

(* "off" is a product that was removed, a preference turned off or a         *)
(* notification that was read; of other rows only their presence counts.    *)
Value == {"none", "live", "off"}

(* Where a request waits: before the statement that row and value prepare;   *)
(* resolved, owned: a shop was found for it.  muted: the recipient had       *)
(* turned such notifications off before it began.  doomed: rows that its     *)
(* transaction deleted and did not commit yet.                              *)
Request ==
    [pc: {"idle", "resolved", "owned", "insert", "update", "delete", "recipient", "push", "sweep", "finish"},
     actor: Everyone \union {None}, shop: Rows \union {None}, row: Rows \union {None},
     value: Value, muted: BOOLEAN, doomed: SUBSET Rows]

Idle ==
    [pc |-> "idle", actor |-> None, shop |-> None, row |-> None, value |-> "none",
     muted |-> FALSE, doomed |-> {}]

Init ==
    /\ scope \in Scopes
    /\ users = Everyone /\ tokens = {}
    /\ table = [r \in Rows |-> IF r \in Seeds THEN "live" ELSE "none"]
    /\ born = Seeds
    /\ req = [q \in Slots |-> Idle]
    /\ inserts = 0 /\ faults = 0

Present(r) == table[r] # "none"
Goto(q, r) == req' = [req EXCEPT ![q] = r]
Finish(q) == Goto(q, Idle)
OfKind(kind) == IF kind \in scope THEN {r \in Rows : Kind[r] = kind} ELSE {}

-----------------------------------------------------------------------------
(* Statements, as the schema lets them pass.                                *)

(* Another transaction deleted the row, or what it refers to. *)
Locked(r) == \E q \in Slots : req[q].doomed # {} /\ (r \in req[q].doomed \/ Refs[r] \intersect req[q].doomed # {})

KeysHold(r) ==
    /\ ~Present(r) /\ (r \in born => Kind[r] \in Keyed)
    /\ \A x \in Refs[r] : IF x \in Rows THEN Present(x) ELSE x \in users

(* A referring row keeps what it refers to, but for "onDelete: Cascade". *)
Cascades(r, target) ==
    <<Kind[r], Kind[target]>> \in {<<"photo", "shop">>, <<"comment", "announcement">>, <<"reply", "feedback">>}

Referring(x) == {r \in Rows : x \in Refs[r] /\ Present(r)}

(* A statement that inserts all rows of R. *)
Insert(R, value) ==
    /\ inserts < MaxInserts /\ inserts' = inserts + 1
    /\ table' = [r \in Rows |-> IF r \in R THEN value ELSE table[r]]
    /\ born' = born \union R

(* What was prepared is done, or fails for a key or a missing row (or for    *)
(* the bound).                                                              *)
DoInsert(q) ==
    /\ req[q].pc = "insert" /\ ~Locked(req[q].row)
    /\ IF KeysHold(req[q].row) /\ inserts < MaxInserts THEN Insert({req[q].row}, req[q].value) ELSE UNCHANGED <<table, born, inserts>>
    /\ Finish(q)
    /\ UNCHANGED <<scope, users, tokens, faults>>

(* Fault: an update writes back the whole row that was found. *)
WrittenWhole(r, value) == value

(* Of a product, an update writes the columns of its request alone. *)
Written(r, value) == IF Kind[r] = "product" /\ table[r] = "off" THEN "off" ELSE value

DoUpdate(q) ==
    /\ req[q].pc = "update" /\ ~Locked(req[q].row)
    /\ LET r == req[q].row
       IN table' = IF Present(r) THEN [table EXCEPT ![r] = Written(r, req[q].value)] ELSE table
    /\ Finish(q)
    /\ UNCHANGED <<scope, users, tokens, born, inserts, faults>>

DoDelete(q) ==
    /\ req[q].pc = "delete" /\ ~Locked(req[q].row)
    /\ LET gone == {req[q].row} \union Referring(req[q].row)
       IN table' = IF \A s \in Referring(req[q].row) : Cascades(s, req[q].row)
                   THEN [s \in Rows |-> IF s \in gone THEN "none" ELSE table[s]]
                   ELSE table
    /\ Finish(q)
    /\ UNCHANGED <<scope, users, tokens, born, inserts, faults>>

(* A service that found what it looked for goes on to its last statement. *)
Prepare(q, pc, actor, r, value) ==
    /\ Goto(q, [Idle EXCEPT !.pc = pc, !.actor = actor, !.row = r, !.value = value])
    /\ UNCHANGED <<scope, users, tokens, table, born, inserts, faults>>

(* A service whose only statement is an insert. *)
Create(r) ==
    /\ KeysHold(r) /\ ~Locked(r)
    /\ Insert({r}, "live")
    /\ UNCHANGED <<scope, users, tokens, req, faults>>

-----------------------------------------------------------------------------
(* Shops and products, also by way of the merchant facade.                  *)

Owns(actor, shop) == actor \in Refs[shop]
Manages(actor, shop) == actor \in Merchants => Owns(actor, shop)
Managers == Merchants \union Admins

(* A request on a shop that a merchant's own was resolved to. *)
Resolved(q, a, s) ==
    /\ Goto(q, [Idle EXCEPT !.pc = "resolved", !.actor = a, !.shop = s])
    /\ UNCHANGED <<scope, users, tokens, table, born, inserts, faults>>

(* Fault: a merchant without a shop is not turned away. *)
ResolveAny(q, a, s) ==
    /\ req[q] = Idle /\ a \in Merchants /\ Owns(a, s)
    /\ Resolved(q, a, IF Present(s) THEN s ELSE None)

(* Any of a merchant's shops stands for the oldest. *)
ResolveShop(q, a, s) ==
    /\ req[q] = Idle /\ a \in Merchants /\ Owns(a, s) /\ Present(s)
    /\ Resolved(q, a, s)

(* A request on a shop: of the path, or the one resolved. *)
Asks(q, a, s) ==
    \/ req[q] = Idle /\ a \in Managers
    \/ req[q].pc = "resolved" /\ req[q].actor = a /\ req[q].shop = s

ShopCreate(s) == s \in OfKind("shop") /\ Create(s)

ShopUpdate(q, a, s) ==
    /\ Asks(q, a, s) /\ Present(s) /\ Manages(a, s)
    /\ Prepare(q, "update", a, s, "live")

ShopRemove(q, a, s) ==
    /\ req[q] = Idle /\ a \in Admins /\ Present(s)
    /\ Prepare(q, "delete", a, s, "none")

PhotoAdd(q, a, s, r) ==
    /\ s \in Refs[r]
    /\ req[q] = Idle /\ a \in Managers /\ Present(s) /\ Manages(a, s)
    /\ Prepare(q, "insert", a, r, "live")

PhotoRemove(q, a, s, r) ==
    /\ s \in Refs[r]
    /\ req[q] = Idle /\ a \in Managers /\ Present(r) /\ Manages(a, s)
    /\ Prepare(q, "delete", a, r, "none")

(* assertShopOwnership: an admin's shop is not even looked up. *)
ShopOwned(q, a, s) ==
    /\ "product" \in scope
    /\ Asks(q, a, s)
    /\ a \in Merchants => Present(s) /\ Owns(a, s)
    /\ Goto(q, [Idle EXCEPT !.pc = "owned", !.actor = a, !.shop = s])
    /\ UNCHANGED <<scope, users, tokens, table, born, inserts, faults>>

ProductCreate(q, r) ==
    /\ req[q].pc = "owned" /\ req[q].shop \in Refs[r]
    /\ Prepare(q, "insert", req[q].actor, r, "live")

(* Fault: findOne looks for the id alone. *)
FoundAnywhere(r, s) == table[r] = "live"

Found(r, s) == s \in Refs[r] /\ table[r] = "live"

ProductUpdate(q, r) ==
    /\ req[q].pc = "owned" /\ Found(r, req[q].shop)
    /\ Prepare(q, "update", req[q].actor, r, "live")

ProductRemove(q, r) ==
    /\ req[q].pc = "owned" /\ Found(r, req[q].shop)
    /\ Prepare(q, "update", req[q].actor, r, "off")

(* The shop is gone, or no such product is in it: clients may ask for any.   *)
NotFound(q) ==
    /\ req[q].pc \in {"resolved", "owned"}
    /\ Finish(q)
    /\ UNCHANGED <<scope, users, tokens, table, born, inserts, faults>>

-----------------------------------------------------------------------------
(* Reviews and saved shops of residents, feedback, announcements.           *)

Writes(q, a, r) == req[q] = Idle /\ a \in Refs[r]

(* An upsert that includes the author looks the row up first. *)
ReviewUpsert(q, a, r) ==
    /\ Writes(q, a, r) /\ a \in Residents
    /\ Prepare(q, IF Present(r) THEN "update" ELSE "insert", a, r, "live")

ReviewRemove(q, a, r) ==
    /\ Writes(q, a, r) /\ a \in Residents /\ Present(r)
    /\ Prepare(q, "delete", a, r, "none")

SaveShop(r) == r \in OfKind("saved") /\ Create(r)

UnsaveShop(q, a, r) ==
    /\ Writes(q, a, r) /\ a \in Residents /\ Present(r)
    /\ Prepare(q, "delete", a, r, "none")

FeedbackCreate(r) == r \in OfKind("feedback") /\ Create(r)

(* What a reply or a comment is about was found. *)
Answers(r, kind) == \E t \in Refs[r] \ Everyone : Kind[t] = kind /\ Present(t)

FeedbackReply(q, a, r) ==
    /\ Writes(q, a, r) /\ a \in Admins /\ Answers(r, "feedback")
    /\ Prepare(q, "insert", a, r, "live")

FeedbackStatus(q, a, r) ==
    /\ req[q] = Idle /\ a \in Admins /\ Present(r)
    /\ Prepare(q, "update", a, r, "live")

AnnouncementCreate(r) == r \in OfKind("announcement") /\ Create(r)

CommentAdd(q, a, r) ==
    /\ Writes(q, a, r) /\ Answers(r, "announcement")
    /\ Prepare(q, "insert", a, r, "live")

-----------------------------------------------------------------------------
(* Notifications.                                                           *)

Off(u) == \E p \in Rows : Kind[p] = "preference" /\ u \in Refs[p] /\ table[p] = "off"

(* Fault: preferences are left for clients to obey. *)
MutedNever(u) == FALSE

Muted(u) == Off(u)

(* send: the row, then the recipient's token and preference, then Expo. *)
Send(q, u, r) ==
    /\ Writes(q, u, r) /\ KeysHold(r) /\ ~Locked(r)
    /\ Insert({r}, "live")
    /\ Goto(q, [Idle EXCEPT !.pc = "recipient", !.actor = u, !.row = r, !.muted = Off(u)])
    /\ UNCHANGED <<scope, users, tokens, faults>>

Recipient(q) ==
    /\ req[q].pc = "recipient"
    /\ LET u == req[q].actor
       IN IF u \in users /\ u \in tokens /\ ~Muted(u) THEN Goto(q, [req[q] EXCEPT !.pc = "push"]) ELSE Finish(q)
    /\ UNCHANGED <<scope, users, tokens, table, born, inserts, faults>>

(* What Expo answers is logged at most. *)
Push(q) ==
    /\ req[q].pc = "push"
    /\ Finish(q)
    /\ UNCHANGED <<scope, users, tokens, table, born, inserts, faults>>

MarkRead(q, a, r) ==
    /\ Writes(q, a, r) /\ Present(r)
    /\ Prepare(q, "update", a, r, "off")

MarkAllRead(a) ==
    /\ LET unread == {r \in OfKind("notification") : a \in Refs[r] /\ table[r] = "live"}
       IN /\ unread # {} /\ \A r \in unread : ~Locked(r)
          /\ table' = [r \in Rows |-> IF r \in unread THEN "off" ELSE table[r]]
    /\ UNCHANGED <<scope, users, tokens, born, req, inserts, faults>>

(* An upsert in one statement.  Who turns notifications on asks for those    *)
(* under way, too.                                                          *)
UpdatePreference(a, p, value) ==
    /\ a \in Refs[p] /\ ~Locked(p)
    /\ IF Present(p) THEN table' = [table EXCEPT ![p] = value] /\ UNCHANGED <<born, inserts>>
                     ELSE KeysHold(p) /\ Insert({p}, value)
    /\ req' = [q \in Slots |-> IF req[q].actor = a /\ value = "live" THEN [req[q] EXCEPT !.muted = FALSE] ELSE req[q]]
    /\ UNCHANGED <<scope, users, tokens, faults>>

UpdatePushToken(a) ==
    /\ "notification" \in scope /\ a \in users
    /\ tokens' = tokens \union {a}
    /\ UNCHANGED <<scope, users, table, born, req, inserts, faults>>

-----------------------------------------------------------------------------
(* Rows that other services insert, and the deletion of an account.         *)

(* An order with an item: its shop is that of the products, which were found *)
(* to be of one.                                                            *)
PlaceOrder(o, i) ==
    /\ o \in Refs[i] /\ OneShop(o, i)
    /\ KeysHold(o) /\ i \notin born /\ ~Locked(o) /\ ~Locked(i)
    /\ \A p \in Refs[i] \ {o} : Present(p)
    /\ Insert({o, i}, "live")
    /\ UNCHANGED <<scope, users, tokens, req, faults>>

Record(r) == Kind[r] \in scope \intersect {"vote", "electionVote", "audit", "invitation"} /\ Create(r)

(* Rows of some kinds that refer to one of X. *)
Of(kinds, X) == {r \in Rows : Kind[r] \in kinds /\ Present(r) /\ Refs[r] \intersect X # {}}

Personal ==
    {"preference", "notification", "audit", "reply", "feedback", "comment", "electionVote", "vote", "review", "saved"}

(* Fault: what others wrote about the shops of a merchant is forgotten. *)
ShopRowsOwn == {"product", "photo"}

ShopRows == {"review", "saved", "product", "photo"}

(* The deleteMany statements of deleteUser, and what the schema cascades. *)
Doomed(u) ==
    LET personal == Of(Personal, {u})
        shops == Of({"shop"}, {u})
        orders == Of({"order"}, {u} \union shops)
    IN personal \union Of({"reply"}, personal)
        \union orders \union Of({"item"}, orders)
        \union shops \union Of(ShopRows, shops)
        \union Of({"invitation"}, {u})

(* Rows left that keep the user, or a row that is to go; also one that       *)
(* another deletion did not commit yet.                                     *)
Blockers(u, doomed) == {r \in Rows \ doomed : Present(r) /\ Refs[r] \intersect ({u} \union doomed) # {}}

DeleteFind(q, u) ==
    /\ req[q] = Idle /\ u \in Leavers /\ u \in users
    /\ Goto(q, [Idle EXCEPT !.pc = "sweep", !.actor = u])
    /\ UNCHANGED <<scope, users, tokens, table, born, inserts, faults>>

(* The deleteMany statements at once: a row inserted between two of them     *)
(* fails the transaction, as one that is inserted after the last of them.    *)
DeleteSweep(q) ==
    /\ req[q].pc = "sweep" /\ \A r \in Doomed(req[q].actor) : ~Locked(r)
    /\ Goto(q, [req[q] EXCEPT !.pc = "finish", !.doomed = Doomed(req[q].actor)])
    /\ UNCHANGED <<scope, users, tokens, table, born, inserts, faults>>

(* Fault: rows are deleted before those that refer to them. *)
CommitsParentsFirst(u, doomed) == u \in users /\ Blockers(u, doomed) = {} /\ \A r \in doomed : Referring(r) = {}

Commits(u, doomed) == u \in users /\ Blockers(u, doomed) = {}

(* The last statement; a row inserted meanwhile rolls everything back. *)
DeleteFinish(q) ==
    /\ req[q].pc = "finish"
    /\ LET u == req[q].actor
       IN IF Commits(u, req[q].doomed)
          THEN /\ table' = [r \in Rows |-> IF r \in req[q].doomed THEN "none" ELSE table[r]]
               /\ users' = users \ {u} /\ tokens' = tokens \ {u}
          ELSE UNCHANGED <<table, users, tokens>>
    /\ Finish(q)
    /\ UNCHANGED <<scope, born, inserts, faults>>

(* A statement fails, or the process restarts; a transaction rolls back. *)
Fail(q) ==
    /\ req[q] # Idle
    /\ faults < MaxFaults /\ faults' = faults + 1
    /\ Finish(q)
    /\ UNCHANGED <<scope, users, tokens, table, born, inserts>>

-----------------------------------------------------------------------------
Step(q) ==
    \/ DoInsert(q) \/ DoUpdate(q) \/ DoDelete(q) \/ NotFound(q)
    \/ Recipient(q) \/ Push(q) \/ DeleteSweep(q) \/ DeleteFinish(q)

(* The services, up to their last statement. *)
ShopRequest(q, a, s) ==
    \/ ResolveShop(q, a, s) \/ ShopUpdate(q, a, s) \/ ShopRemove(q, a, s) \/ ShopOwned(q, a, s)
    \/ \E r \in OfKind("photo") : PhotoAdd(q, a, s, r) \/ PhotoRemove(q, a, s, r)

RowRequest(q, a) ==
    \/ \E r \in OfKind("review") : ReviewUpsert(q, a, r) \/ ReviewRemove(q, a, r)
    \/ \E r \in OfKind("saved") : UnsaveShop(q, a, r)
    \/ \E r \in OfKind("reply") : FeedbackReply(q, a, r)
    \/ \E r \in OfKind("feedback") : FeedbackStatus(q, a, r)
    \/ \E r \in OfKind("comment") : CommentAdd(q, a, r)
    \/ \E r \in OfKind("notification") : Send(q, a, r) \/ MarkRead(q, a, r)

Statement(r) == ShopCreate(r) \/ SaveShop(r) \/ FeedbackCreate(r) \/ AnnouncementCreate(r) \/ Record(r)

Next ==
    \/ \E q \in Slots :
        \/ Step(q) \/ Fail(q)
        \/ \E u \in Leavers : DeleteFind(q, u)
        \/ \E a \in Managers, s \in OfKind("shop") : ShopRequest(q, a, s)
        \/ \E r \in OfKind("product") : ProductCreate(q, r) \/ ProductUpdate(q, r) \/ ProductRemove(q, r)
        \/ \E a \in Everyone : RowRequest(q, a)
    \/ \E r \in Rows : Statement(r)
    \/ \E o \in OfKind("order"), i \in OfKind("item") : PlaceOrder(o, i)
    \/ \E a \in Everyone, p \in OfKind("preference"), value \in {"live", "off"} : UpdatePreference(a, p, value)
    \/ \E a \in Everyone : MarkAllRead(a) \/ UpdatePushToken(a)

Safety == Init /\ [][Next]_vars

(* Who asked for a deletion asks again until the account is gone. *)
Spec ==
    /\ Safety
    /\ \A q \in Slots : WF_vars(Step(q))
    /\ \A u \in Leavers : SF_vars(\E q \in Slots : DeleteFind(q, u))

-----------------------------------------------------------------------------
(* Types; a request that waits for its last statement knows its row, one     *)
(* that goes on with a shop knows the shop.                                 *)
TypeOK ==
    /\ scope \in Scopes /\ users \subseteq Everyone /\ tokens \subseteq users
    /\ table \in [Rows -> Value] /\ born \in SUBSET Rows /\ \A r \in Rows : Present(r) => r \in born
    /\ req \in [Slots -> Request]
    /\ \A q \in Slots :
        /\ req[q].pc \in {"resolved", "owned"} => req[q].shop # None
        /\ req[q].pc \in {"insert", "update", "delete"} => req[q].row # None /\ req[q].actor # None
    /\ inserts \in 0..MaxInserts /\ faults \in 0..MaxFaults

ShopsOf(r) == {s \in Refs[r] : s \in Rows /\ Kind[s] = "shop"}

(* A statement that is about to be sent changes nothing that is not its      *)
(* actor's: merchants write in their own shops, also when the shop was       *)
(* resolved for them or the path mixes one shop with another's product.     *)
WriteIsOwn ==
    \A q \in Slots : req[q].pc \in {"insert", "update", "delete"} =>
        \/ req[q].actor \in Admins
        \/ req[q].actor \in Refs[req[q].row]
        \/ Kind[req[q].row] \in {"photo", "product"} /\ \A s \in ShopsOf(req[q].row) : req[q].actor \in Refs[s]

(* A product that was removed stays removed, although an update that found   *)
(* it before is written after.                                              *)
RemovedStaysRemoved ==
    [][\A r \in Rows : Kind[r] = "product" /\ table[r] = "off" => table'[r] # "live"]_vars

(* Nobody is pushed a notification of a kind turned off before it was sent   *)
(* and left so, whatever token is registered meanwhile.                     *)
MutedIsQuiet == \A q \in Slots : req[q].pc = "push" => ~req[q].muted

(* What deleteUser deletes is all there is: once it swept, no row keeps the  *)
(* account or a swept row, whatever was written, removed or ordered before.  *)
CascadeIsComplete ==
    [][\A q \in Slots :
        req[q].pc = "sweep" /\ req'[q].pc = "finish" => Blockers(req[q].actor, req'[q].doomed) = {}]_vars

(* An account whose deletion was asked for is gone in the end, although rows *)
(* inserted by others during the transaction roll it back.                  *)
DeletionSucceeds ==
    \A u \in Leavers : (\E q \in Slots : req[q].pc = "sweep" /\ req[q].actor = u) ~> u \notin users
=============================================================================
