--------------------------- MODULE ContentProofs ---------------------------
(* Theorems about Content, for any users, rows, references between them and  *)
(* requests at a time.                                                       *)
EXTENDS Content, TLAPS

(* What a request carries at the steps that use it: for each of its last     *)
(* statements, the reason why its actor may send it.                         *)
Entitled(a, r) ==
    \/ a \in Admins
    \/ a \in Refs[r]
    \/ Kind[r] \in {"photo", "product"} /\ \E s \in Refs[r] : a \in Refs[s]

Carries(r) ==
    /\ r.pc \in {"resolved", "owned"} =>
        /\ r.shop \in Rows /\ r.actor \in Managers
        /\ r.actor \in Merchants => r.actor \in Refs[r.shop]
    /\ r.pc \in {"insert", "update", "delete"} =>
        /\ r.row \in Rows /\ Kind[r.row] \notin {"preference", "item"}
        /\ r.actor \in Everyone /\ Entitled(r.actor, r.row)
        /\ r.value = "none" <=> r.pc = "delete"
    /\ r.pc \in {"recipient", "push", "sweep"} => r.actor \in Everyone
    /\ \A x \in r.doomed : Kind[x] = "preference" => r.actor \in Refs[x]

Typed ==
    /\ TypeOK
    /\ \A q \in Slots : Carries(req[q])

-----------------------------------------------------------------------------
LEMMA IdleTyped == Idle \in Request /\ Carries(Idle) /\ Idle.pc = "idle"
BY DEF Idle, Request, Carries, Value

LEMMA Initially == Init => Typed
<1> SUFFICES ASSUME Init PROVE Typed
    OBVIOUS
<1>1. table \in [Rows -> Value] /\ born \in SUBSET Rows /\ \A r \in Rows : Present(r) => r \in born
    BY ContentAssumption DEF Init, Value, Present
<1>2. inserts \in 0..MaxInserts /\ faults \in 0..MaxFaults
    BY ContentAssumption DEF Init
<1>3. req \in [Slots -> Request] /\ \A q \in Slots : Carries(req[q]) /\ req[q].pc = "idle"
    BY IdleTyped DEF Init
<1> QED BY <1>1, <1>2, <1>3 DEF Init, Typed, TypeOK

(* Requests that are set up to send their last statement.                    *)
LEMMA PreparedTyped ==
    ASSUME NEW pc \in {"insert", "update", "delete"}, NEW a \in Everyone, NEW r \in Rows,
           NEW v \in {"none", "live", "off"}, Entitled(a, r), Kind[r] \notin {"preference", "item"},
           v = "none" <=> pc = "delete"
    PROVE  LET x == [Idle EXCEPT !.pc = pc, !.actor = a, !.row = r, !.value = v]
           IN x \in Request /\ Carries(x)
BY DEF Idle, Request, Carries, Value

LEMMA ShopTyped ==
    ASSUME NEW pc \in {"resolved", "owned"}, NEW a \in Managers, NEW s \in Rows, a \in Merchants => a \in Refs[s]
    PROVE  LET x == [Idle EXCEPT !.pc = pc, !.actor = a, !.shop = s]
           IN x \in Request /\ Carries(x)
BY DEF Idle, Request, Carries, Value, Everyone, Managers

(* Every request moves to one that carries what it needs.                    *)
LEMMA ShopMoves ==
    ASSUME Typed, NEW q \in Slots, NEW a \in Managers, NEW s \in OfKind("shop"), ShopRequest(q, a, s)
    PROVE  \E r \in Request : Carries(r) /\ req' = [req EXCEPT ![q] = r]
<1>1. s \in Rows /\ Kind[s] = "shop" /\ a \in Everyone
    BY DEF OfKind, Managers, Everyone
<1>2. a \in Admins \/ a \in Merchants
    BY DEF Managers
<1>3. CASE ResolveShop(q, a, s) \/ ShopOwned(q, a, s)
    <2>1. a \in Merchants => a \in Refs[s]
        BY <1>3 DEF ResolveShop, ShopOwned, Owns
    <2> QED BY <1>1, <1>3, <2>1, ShopTyped DEF ResolveShop, ShopOwned, Resolved, Goto
<1>4. CASE ShopUpdate(q, a, s) \/ ShopRemove(q, a, s)
    <2>1. Entitled(a, s)
        BY <1>2, <1>4 DEF ShopUpdate, ShopRemove, Manages, Owns, Entitled
    <2> QED BY <1>1, <1>4, <2>1, PreparedTyped DEF ShopUpdate, ShopRemove, Prepare, Goto
<1>5. ASSUME NEW r \in OfKind("photo"), PhotoAdd(q, a, s, r) \/ PhotoRemove(q, a, s, r)
      PROVE  \E x \in Request : Carries(x) /\ req' = [req EXCEPT ![q] = x]
    <2>1. r \in Rows /\ Kind[r] = "photo"
        BY DEF OfKind
    <2>2. Entitled(a, r)
        BY <1>2, <1>5, <2>1 DEF PhotoAdd, PhotoRemove, Manages, Owns, Entitled
    <2> QED BY <1>1, <1>5, <2>1, <2>2, PreparedTyped DEF PhotoAdd, PhotoRemove, Prepare, Goto
<1> QED BY <1>3, <1>4, <1>5 DEF ShopRequest

LEMMA ProductMoves ==
    ASSUME Typed, NEW q \in Slots, NEW r \in OfKind("product"),
           ProductCreate(q, r) \/ ProductUpdate(q, r) \/ ProductRemove(q, r)
    PROVE  \E x \in Request : Carries(x) /\ req' = [req EXCEPT ![q] = x]
<1> DEFINE a == req[q].actor
<1>1. r \in Rows /\ Kind[r] = "product"
    BY DEF OfKind
<1>2. req[q].pc = "owned" /\ req[q].shop \in Refs[r]
    BY DEF ProductCreate, ProductUpdate, ProductRemove, Found
<1>3. a \in Managers /\ (a \in Merchants => a \in Refs[req[q].shop])
    BY <1>2 DEF Typed, Carries
<1>4. a \in Everyone /\ Entitled(a, r)
    BY <1>1, <1>2, <1>3 DEF Entitled, Managers, Everyone
<1> QED BY <1>1, <1>4, PreparedTyped DEF ProductCreate, ProductUpdate, ProductRemove, Prepare, Goto

LEMMA RowMoves ==
    ASSUME Typed, NEW q \in Slots, NEW a \in Everyone, RowRequest(q, a)
    PROVE  \E x \in Request : Carries(x) /\ req' = [req EXCEPT ![q] = x]
<1>1. ASSUME NEW r \in Rows, NEW pc \in {"insert", "update", "delete"}, NEW v \in {"none", "live", "off"},
             Kind[r] \notin {"preference", "item"}, a \in Admins \/ a \in Refs[r], v = "none" <=> pc = "delete",
             Prepare(q, pc, a, r, v)
      PROVE  \E x \in Request : Carries(x) /\ req' = [req EXCEPT ![q] = x]
    <2>1. Entitled(a, r)
        BY <1>1 DEF Entitled
    <2> QED BY <1>1, <2>1, PreparedTyped DEF Prepare, Goto
<1>2. ASSUME NEW r \in OfKind("review"), ReviewUpsert(q, a, r) \/ ReviewRemove(q, a, r)
      PROVE  \E x \in Request : Carries(x) /\ req' = [req EXCEPT ![q] = x]
    <2>1. r \in Rows /\ Kind[r] = "review"
        BY DEF OfKind
    <2> QED BY <1>1, <1>2, <2>1 DEF ReviewUpsert, ReviewRemove, Writes
<1>3. ASSUME NEW r \in OfKind("saved"), UnsaveShop(q, a, r)
      PROVE  \E x \in Request : Carries(x) /\ req' = [req EXCEPT ![q] = x]
    <2>1. r \in Rows /\ Kind[r] = "saved"
        BY DEF OfKind
    <2> QED BY <1>1, <1>3, <2>1 DEF UnsaveShop, Writes
<1>4. ASSUME NEW r, \/ r \in OfKind("reply") /\ FeedbackReply(q, a, r)
                    \/ r \in OfKind("feedback") /\ FeedbackStatus(q, a, r)
                    \/ r \in OfKind("comment") /\ CommentAdd(q, a, r)
      PROVE  \E x \in Request : Carries(x) /\ req' = [req EXCEPT ![q] = x]
    <2>1. r \in Rows /\ Kind[r] \in {"reply", "feedback", "comment"}
        BY <1>4 DEF OfKind
    <2> QED BY <1>1, <1>4, <2>1 DEF FeedbackReply, FeedbackStatus, CommentAdd, Writes
<1>5. ASSUME NEW r \in OfKind("notification"), MarkRead(q, a, r)
      PROVE  \E x \in Request : Carries(x) /\ req' = [req EXCEPT ![q] = x]
    <2>1. r \in Rows /\ Kind[r] = "notification"
        BY DEF OfKind
    <2> QED BY <1>1, <1>5, <2>1 DEF MarkRead, Writes
<1>6. ASSUME NEW r \in OfKind("notification"), Send(q, a, r)
      PROVE  \E x \in Request : Carries(x) /\ req' = [req EXCEPT ![q] = x]
    <2> DEFINE x == [Idle EXCEPT !.pc = "recipient", !.actor = a, !.row = r, !.muted = Off(a)]
    <2>1. r \in Rows /\ Off(a) \in BOOLEAN
        BY DEF OfKind, Off
    <2>2. x \in Request /\ Carries(x)
        BY <2>1 DEF Idle, Request, Carries, Value
    <2> HIDE DEF x
    <2> QED BY <1>6, <2>2 DEF Send, Goto, x
<1> QED BY <1>2, <1>3, <1>4, <1>5, <1>6 DEF RowRequest

(* The preferences that a deletion sweeps are those of the account.          *)
LEMMA DoomedAreOwn ==
    ASSUME NEW u
    PROVE  /\ Doomed(u) \subseteq Rows
           /\ \A x \in Doomed(u) : Kind[x] = "preference" => u \in Refs[x]
BY DEF Doomed, Of, Personal, ShopRows

LEMMA StepMoves ==
    ASSUME Typed, NEW q \in Slots, Step(q) \/ Fail(q) \/ \E u \in Leavers : DeleteFind(q, u)
    PROVE  \E x \in Request : Carries(x) /\ req' = [req EXCEPT ![q] = x]
<1>1. req[q] \in Request /\ Carries(req[q])
    BY DEF Typed, TypeOK
<1>2. CASE req' = [req EXCEPT ![q] = Idle]
    BY <1>2, IdleTyped
<1>3. CASE Recipient(q)
    <2>1. CASE req' = [req EXCEPT ![q] = [req[q] EXCEPT !.pc = "push"]]
        <3>1. [req[q] EXCEPT !.pc = "push"] \in Request /\ Carries([req[q] EXCEPT !.pc = "push"])
            BY <1>1, <1>3 DEF Request, Carries, Recipient
        <3> QED BY <2>1, <3>1
    <2> QED BY <1>2, <1>3, <2>1 DEF Recipient, Goto, Finish
<1>4. CASE DeleteSweep(q)
    <2> DEFINE x == [req[q] EXCEPT !.pc = "finish", !.doomed = Doomed(req[q].actor)]
    <2>1. x \in Request /\ Carries(x)
        BY <1>1, DoomedAreOwn DEF Request, Carries
    <2> QED BY <1>4, <2>1 DEF DeleteSweep, Goto
<1>5. ASSUME NEW u \in Leavers, DeleteFind(q, u)
      PROVE  \E x \in Request : Carries(x) /\ req' = [req EXCEPT ![q] = x]
    <2> DEFINE x == [Idle EXCEPT !.pc = "sweep", !.actor = u]
    <2>1. x \in Request /\ Carries(x)
        BY ContentAssumption DEF Idle, Request, Carries, Value
    <2> QED BY <1>5, <2>1 DEF DeleteFind, Goto
<1> QED BY <1>2, <1>3, <1>4, <1>5 DEF Step, Fail, DoInsert, DoUpdate, DoDelete, NotFound, Push, DeleteFinish, Finish, Goto

LEMMA RequestsTyped ==
    ASSUME Typed, [Next]_vars
    PROVE  req' \in [Slots -> Request] /\ \A q \in Slots : Carries(req'[q])
<1>1. req \in [Slots -> Request] /\ \A q \in Slots : Carries(req[q])
    BY DEF Typed, TypeOK
<1>2. ASSUME NEW q \in Slots, \E r \in Request : Carries(r) /\ req' = [req EXCEPT ![q] = r]
      PROVE  req' \in [Slots -> Request] /\ \A s \in Slots : Carries(req'[s])
    BY <1>1, <1>2
<1>3. ASSUME NEW a, NEW p, NEW value, UpdatePreference(a, p, value)
      PROVE  req' \in [Slots -> Request] /\ \A s \in Slots : Carries(req'[s])
    <2>1. ASSUME NEW r \in Request, Carries(r)
          PROVE  [r EXCEPT !.muted = FALSE] \in Request /\ Carries([r EXCEPT !.muted = FALSE])
        BY <2>1 DEF Request, Carries
    <2>2. req' = [q \in Slots |-> IF req[q].actor = a /\ value = "live" THEN [req[q] EXCEPT !.muted = FALSE] ELSE req[q]]
        BY <1>3 DEF UpdatePreference
    <2> QED BY <1>1, <2>1, <2>2
<1>4. CASE req' = req
    BY <1>1, <1>4
<1>5. ASSUME NEW r \in Rows, Statement(r) PROVE req' = req
    BY <1>5 DEF Statement, ShopCreate, SaveShop, FeedbackCreate, AnnouncementCreate, Record, Create
<1>6. ASSUME NEW o, NEW i, PlaceOrder(o, i) PROVE req' = req
    BY <1>6 DEF PlaceOrder
<1>7. ASSUME NEW a, MarkAllRead(a) \/ UpdatePushToken(a) PROVE req' = req
    BY <1>7 DEF MarkAllRead, UpdatePushToken
<1>8. ASSUME NEW q \in Slots,
             \/ Step(q) \/ Fail(q)
             \/ \E u \in Leavers : DeleteFind(q, u)
             \/ \E a \in Managers, s \in OfKind("shop") : ShopRequest(q, a, s)
             \/ \E r \in OfKind("product") : ProductCreate(q, r) \/ ProductUpdate(q, r) \/ ProductRemove(q, r)
             \/ \E a \in Everyone : RowRequest(q, a)
      PROVE  req' \in [Slots -> Request] /\ \A s \in Slots : Carries(req'[s])
    BY <1>2, <1>8, ShopMoves, ProductMoves, RowMoves, StepMoves
<1> QED BY <1>3, <1>4, <1>5, <1>6, <1>7, <1>8 DEF Next, vars

(* Each step does one thing to the table. *)
Wrote(R, v) == table' = [r \in Rows |-> IF r \in R THEN v ELSE table[r]]

LEMMA TableMoves ==
    ASSUME Typed, [Next]_vars
    PROVE  \/ UNCHANGED <<table, born, inserts>>
           \/ \E R \in SUBSET Rows, v \in {"live", "off"} :
                 /\ Wrote(R, v) /\ born' = born \union R /\ inserts' = inserts + 1 /\ inserts < MaxInserts
                 /\ \A r \in R : table[r] # "off"
                 /\ \A r \in R : Kind[r] = "preference" => \E a : UpdatePreference(a, r, v)
           \/ /\ UNCHANGED <<born, inserts>>
              /\ \E r \in Rows, v \in {"live", "off"} :
                    /\ Present(r) /\ Wrote({r}, v)
                    /\ Kind[r] = "product" /\ table[r] = "off" => v = "off"
                    /\ Kind[r] = "preference" => \E a : UpdatePreference(a, r, v)
           \/ /\ UNCHANGED <<born, inserts>>
              /\ \E R \in SUBSET Rows :
                    /\ Wrote(R, "none")
                    /\ \A r \in R : Kind[r] = "preference" => \E u \in Refs[r] : u \notin users'
           \/ /\ UNCHANGED <<born, inserts>>
              /\ \E R \in SUBSET Rows :
                    /\ Wrote(R, "off") /\ \A r \in R : Present(r) /\ Kind[r] = "notification"
<1> DEFINE Unmoved == UNCHANGED <<table, born, inserts>>
           Grew == \E R \in SUBSET Rows, v \in {"live", "off"} :
                 /\ Wrote(R, v) /\ born' = born \union R /\ inserts' = inserts + 1 /\ inserts < MaxInserts
                 /\ \A r \in R : table[r] # "off"
                 /\ \A r \in R : Kind[r] = "preference" => \E a : UpdatePreference(a, r, v)
           Updated == /\ UNCHANGED <<born, inserts>>
                      /\ \E r \in Rows, v \in {"live", "off"} :
                            /\ Present(r) /\ Wrote({r}, v)
                            /\ Kind[r] = "product" /\ table[r] = "off" => v = "off"
                            /\ Kind[r] = "preference" => \E a : UpdatePreference(a, r, v)
           Shrank == /\ UNCHANGED <<born, inserts>>
                     /\ \E R \in SUBSET Rows :
                           /\ Wrote(R, "none")
                           /\ \A r \in R : Kind[r] = "preference" => \E u \in Refs[r] : u \notin users'
           Marked == /\ UNCHANGED <<born, inserts>>
                     /\ \E R \in SUBSET Rows :
                           /\ Wrote(R, "off") /\ \A r \in R : Present(r) /\ Kind[r] = "notification"
<1>0. table \in [Rows -> Value]
    BY DEF Typed, TypeOK
<1>1. ASSUME NEW r \in Rows, NEW v \in {"live", "off"}, ~Present(r), Insert({r}, v),
             Kind[r] = "preference" => \E a : UpdatePreference(a, r, v)
      PROVE  Grew
    <2>1. {r} \in SUBSET Rows /\ \A x \in {r} : table[x] # "off"
        BY <1>1 DEF Present
    <2> QED BY <1>1, <2>1 DEF Insert, Wrote
<1>2. ASSUME NEW q \in Slots, DoInsert(q) PROVE Unmoved \/ Grew \/ Shrank
    <2>1. req[q].row \in Rows /\ Kind[req[q].row] # "preference" /\ req[q].value \in {"live", "off"}
        BY <1>2 DEF DoInsert, Typed, TypeOK, Carries, Request, Value
    <2>2. CASE KeysHold(req[q].row) /\ inserts < MaxInserts
        BY <1>1, <1>2, <2>1, <2>2 DEF DoInsert, KeysHold
    <2> QED BY <1>2, <2>2 DEF DoInsert
<1>3. ASSUME NEW q \in Slots, DoUpdate(q) PROVE Unmoved \/ Updated
    <2> DEFINE r == req[q].row
    <2>1. r \in Rows /\ Kind[r] # "preference" /\ req[q].value \in {"live", "off"}
        BY <1>3 DEF DoUpdate, Typed, TypeOK, Carries, Request, Value
    <2>2. CASE Present(r)
        <3> DEFINE v == Written(r, req[q].value)
        <3>1. v \in {"live", "off"} /\ (Kind[r] = "product" /\ table[r] = "off" => v = "off")
            BY <2>1 DEF Written
        <3>2. Wrote({r}, v) /\ UNCHANGED <<born, inserts>>
            BY <1>0, <1>3, <2>2 DEF DoUpdate, Wrote
        <3> HIDE DEF v
        <3> QED BY <2>1, <2>2, <3>1, <3>2
    <2> QED BY <1>3, <2>2 DEF DoUpdate
<1>4. ASSUME NEW q \in Slots, DoDelete(q) PROVE Unmoved \/ Shrank
    <2> DEFINE r == req[q].row  R == {r} \union Referring(r)
    <2>1. r \in Rows /\ Kind[r] # "preference" /\ R \in SUBSET Rows
        BY <1>4 DEF DoDelete, Typed, TypeOK, Carries, Referring
    <2>2. CASE \A s \in Referring(r) : Cascades(s, r)
        <3>1. Wrote(R, "none") /\ UNCHANGED <<born, inserts>>
            BY <1>4, <2>2 DEF DoDelete, Wrote
        <3>2. \A s \in R : Kind[s] # "preference"
            BY <2>1, <2>2 DEF Cascades
        <3> QED BY <2>1, <3>1, <3>2
    <2> QED BY <1>4, <2>2 DEF DoDelete
<1>5. ASSUME NEW q \in Slots, DeleteFinish(q) PROVE Unmoved \/ Shrank
    <2> DEFINE u == req[q].actor  R == req[q].doomed
    <2>1. R \in SUBSET Rows /\ \A x \in R : Kind[x] = "preference" => u \in Refs[x]
        BY DEF Typed, TypeOK, Request, Carries
    <2>2. CASE Commits(u, R)
        <3>1. Wrote(R, "none") /\ UNCHANGED <<born, inserts>> /\ u \notin users'
            BY <1>5, <2>2 DEF DeleteFinish, Wrote
        <3> QED BY <2>1, <3>1
    <2> QED BY <1>5, <2>2 DEF DeleteFinish
<1>6. ASSUME NEW q \in Slots, NEW a, NEW r \in OfKind("notification"), Send(q, a, r) PROVE Grew
    <2>1. r \in Rows /\ Kind[r] # "preference" /\ ~Present(r) /\ Insert({r}, "live")
        BY <1>6 DEF Send, OfKind, KeysHold
    <2> QED BY <1>1, <2>1
<1>7. ASSUME NEW r \in Rows, Statement(r) PROVE Grew
    <2>1. ~Present(r) /\ Insert({r}, "live")
        BY <1>7 DEF Statement, ShopCreate, SaveShop, FeedbackCreate, AnnouncementCreate, Record, Create, KeysHold
    <2>2. Kind[r] # "preference"
        BY <1>7 DEF Statement, ShopCreate, SaveShop, FeedbackCreate, AnnouncementCreate, Record, OfKind
    <2> QED BY <1>1, <2>1, <2>2
<1>8. ASSUME NEW o \in OfKind("order"), NEW i \in OfKind("item"), PlaceOrder(o, i) PROVE Grew
    <2>1. o \in Rows /\ i \in Rows /\ Kind[o] = "order" /\ Kind[i] = "item"
        BY DEF OfKind
    <2>2. ~Present(o) /\ ~Present(i) /\ Insert({o, i}, "live")
        BY <1>8, <2>1 DEF PlaceOrder, KeysHold, Typed, TypeOK
    <2>3. {o, i} \in SUBSET Rows /\ \A r \in {o, i} : table[r] # "off" /\ Kind[r] # "preference"
        BY <2>1, <2>2 DEF Present
    <2> QED BY <2>2, <2>3 DEF Insert, Wrote
<1>9. ASSUME NEW a, NEW p \in OfKind("preference"), NEW v \in {"live", "off"}, UpdatePreference(a, p, v)
      PROVE  Grew \/ Updated
    <2>1. p \in Rows /\ Kind[p] = "preference"
        BY DEF OfKind
    <2>2. CASE Present(p)
        <3>1. Wrote({p}, v) /\ UNCHANGED <<born, inserts>>
            BY <1>0, <1>9, <2>2 DEF UpdatePreference, Wrote
        <3> QED BY <1>9, <2>1, <2>2, <3>1
    <2>3. CASE ~Present(p)
        BY <1>1, <1>9, <2>1, <2>3 DEF UpdatePreference
    <2> QED BY <2>2, <2>3
<1>10. ASSUME NEW a, MarkAllRead(a) PROVE Marked
    <2> DEFINE R == {r \in OfKind("notification") : a \in Refs[r] /\ table[r] = "live"}
    <2>1. R \in SUBSET Rows /\ \A r \in R : Present(r) /\ Kind[r] = "notification"
        BY DEF OfKind, Present
    <2>2. Wrote(R, "off") /\ UNCHANGED <<born, inserts>>
        BY <1>10 DEF MarkAllRead, Wrote
    <2> QED BY <2>1, <2>2
<1>11. ASSUME NEW q \in Slots, \/ NotFound(q) \/ Recipient(q) \/ Push(q) \/ DeleteSweep(q) \/ Fail(q)
                               \/ \E u \in Leavers : DeleteFind(q, u)
       PROVE  Unmoved
    BY <1>11 DEF NotFound, Recipient, Push, DeleteSweep, Fail, DeleteFind
<1>12. ASSUME NEW q, NEW a, NEW s, ShopRequest(q, a, s) PROVE Unmoved
    BY <1>12 DEF ShopRequest, ResolveShop, Resolved, ShopUpdate, ShopRemove, ShopOwned, PhotoAdd, PhotoRemove, Prepare
<1>13. ASSUME NEW q, NEW r, ProductCreate(q, r) \/ ProductUpdate(q, r) \/ ProductRemove(q, r) PROVE Unmoved
    BY <1>13 DEF ProductCreate, ProductUpdate, ProductRemove, Prepare
<1>14. ASSUME NEW q \in Slots, NEW a, RowRequest(q, a) PROVE Unmoved \/ Grew
    BY <1>6, <1>14 DEF RowRequest, ReviewUpsert, ReviewRemove, UnsaveShop, FeedbackReply, FeedbackStatus, CommentAdd,
        MarkRead, Prepare
<1>15. (\E a \in Everyone : UpdatePushToken(a)) \/ UNCHANGED vars => Unmoved
    BY DEF UpdatePushToken, vars
<1> HIDE DEF Unmoved, Grew, Updated, Shrank, Marked
<1>16. Unmoved \/ Grew \/ Updated \/ Shrank \/ Marked
    BY <1>2, <1>3, <1>4, <1>5, <1>7, <1>8, <1>9, <1>10, <1>11, <1>12, <1>13, <1>14, <1>15 DEF Next, Step
<1> QED BY <1>16 DEF Unmoved, Grew, Updated, Shrank, Marked

LEMMA StepTyped ==
    ASSUME Typed, [Next]_vars
    PROVE  Typed'
<1>1. /\ table' \in [Rows -> Value] /\ born' \in SUBSET Rows /\ \A r \in Rows : Present(r)' => r \in born'
      /\ inserts' \in 0..MaxInserts
    <2>1. /\ table \in [Rows -> Value] /\ born \in SUBSET Rows /\ \A r \in Rows : table[r] # "none" => r \in born
          /\ inserts \in 0..MaxInserts /\ MaxInserts \in Nat
        BY ContentAssumption DEF Typed, TypeOK, Present
    <2>2. CASE UNCHANGED <<table, born, inserts>>
        BY <2>1, <2>2 DEF Present
    <2>3. ASSUME NEW R \in SUBSET Rows, NEW v \in {"live", "off"}, Wrote(R, v), born' = born \union R,
                 inserts' = inserts + 1, inserts < MaxInserts
          PROVE  /\ table' \in [Rows -> Value] /\ born' \in SUBSET Rows /\ \A r \in Rows : Present(r)' => r \in born'
                 /\ inserts' \in 0..MaxInserts
        <3>1. inserts' \in 0..MaxInserts
            BY <2>1, <2>3
        <3> QED BY <2>1, <2>3, <3>1 DEF Wrote, Present, Value
    <2>4. ASSUME NEW R \in SUBSET Rows, NEW v \in Value, Wrote(R, v), born' = born, inserts' = inserts,
                 \A r \in R : Present(r) \/ v = "none"
          PROVE  /\ table' \in [Rows -> Value] /\ born' \in SUBSET Rows /\ \A r \in Rows : Present(r)' => r \in born'
                 /\ inserts' \in 0..MaxInserts
        BY <2>1, <2>4 DEF Wrote, Present
    <2>5. /\ {"live", "off", "none"} \subseteq Value
          /\ \A r \in Rows : {r} \in SUBSET Rows
        BY DEF Value
    <2> QED BY <2>2, <2>3, <2>4, <2>5, TableMoves
<1>2. scope' \in Scopes /\ users' \subseteq Everyone /\ tokens' \subseteq users' /\ faults' \in 0..MaxFaults
    <2>0. scope \in Scopes /\ users \subseteq Everyone /\ tokens \subseteq users /\ faults \in 0..MaxFaults
          /\ MaxFaults \in Nat
        BY ContentAssumption DEF Typed, TypeOK
    <2>1. ASSUME UNCHANGED <<scope, users, tokens, faults>>
          PROVE  scope' \in Scopes /\ users' \subseteq Everyone /\ tokens' \subseteq users' /\ faults' \in 0..MaxFaults
        BY <2>0, <2>1
    <2>2. ASSUME NEW q \in Slots, DeleteFinish(q) \/ Fail(q)
          PROVE  scope' \in Scopes /\ users' \subseteq Everyone /\ tokens' \subseteq users' /\ faults' \in 0..MaxFaults
        BY <2>0, <2>2 DEF DeleteFinish, Fail
    <2>3. ASSUME NEW q \in Slots, \/ DoInsert(q) \/ DoUpdate(q) \/ DoDelete(q) \/ NotFound(q) \/ Recipient(q) \/ Push(q)
                                  \/ DeleteSweep(q) \/ \E u \in Leavers : DeleteFind(q, u)
          PROVE  UNCHANGED <<scope, users, tokens, faults>>
        BY <2>3 DEF DoInsert, DoUpdate, DoDelete, NotFound, Recipient, Push, DeleteSweep, DeleteFind
    <2>4. ASSUME NEW q, NEW a, NEW s, ShopRequest(q, a, s) PROVE UNCHANGED <<scope, users, tokens, faults>>
        BY <2>4 DEF ShopRequest, ResolveShop, Resolved, ShopUpdate, ShopRemove, ShopOwned, PhotoAdd, PhotoRemove, Prepare
    <2>5. ASSUME NEW q, NEW r, ProductCreate(q, r) \/ ProductUpdate(q, r) \/ ProductRemove(q, r)
          PROVE  UNCHANGED <<scope, users, tokens, faults>>
        BY <2>5 DEF ProductCreate, ProductUpdate, ProductRemove, Prepare
    <2>6. ASSUME NEW q, NEW a, RowRequest(q, a) PROVE UNCHANGED <<scope, users, tokens, faults>>
        BY <2>6 DEF RowRequest, ReviewUpsert, ReviewRemove, UnsaveShop, FeedbackReply, FeedbackStatus, CommentAdd,
            MarkRead, Prepare, Send
    <2>7. ASSUME NEW r, Statement(r) PROVE UNCHANGED <<scope, users, tokens, faults>>
        BY <2>7 DEF Statement, ShopCreate, SaveShop, FeedbackCreate, AnnouncementCreate, Record, Create
    <2>8. ASSUME NEW a, MarkAllRead(a) \/ (\E p, v : UpdatePreference(a, p, v)) \/ (\E o, i : PlaceOrder(o, i))
          PROVE  UNCHANGED <<scope, users, tokens, faults>>
        BY <2>8 DEF MarkAllRead, UpdatePreference, PlaceOrder
    <2>9. ASSUME NEW a, UpdatePushToken(a)
          PROVE  scope' \in Scopes /\ users' \subseteq Everyone /\ tokens' \subseteq users' /\ faults' \in 0..MaxFaults
        BY <2>0, <2>9 DEF UpdatePushToken
    <2> QED BY <2>1, <2>2, <2>3, <2>4, <2>5, <2>6, <2>7, <2>8, <2>9 DEF Next, Step, vars
<1>3. req' \in [Slots -> Request] /\ \A q \in Slots : Carries(req'[q])
    BY RequestsTyped
<1>4. \A q \in Slots :
        /\ req'[q].pc \in {"resolved", "owned"} => req'[q].shop # None
        /\ req'[q].pc \in {"insert", "update", "delete"} => req'[q].row # None /\ req'[q].actor # None
    BY <1>3, ContentAssumption DEF Carries
<1> QED BY <1>1, <1>2, <1>3, <1>4 DEF Typed, TypeOK

LEMMA TypedAlways == Safety => []Typed
BY Initially, StepTyped, PTL DEF Safety

(* Rows, accounts and requests always have their types; only accounts that   *)
(* exist have push tokens.                                                   *)
THEOREM ContentTyped == Safety => []TypeOK
<1>1. Typed => TypeOK
    BY DEF Typed
<1> QED BY <1>1, TypedAlways, PTL

-----------------------------------------------------------------------------
(* Statements are sent by those who may, whatever happened since they asked. *)
THEOREM WritesAreOwn == Safety => []WriteIsOwn
<1>1. Typed => WriteIsOwn
    <2> SUFFICES ASSUME Typed, NEW q \in Slots, req[q].pc \in {"insert", "update", "delete"}
                 PROVE  \/ req[q].actor \in Admins
                        \/ req[q].actor \in Refs[req[q].row]
                        \/ /\ Kind[req[q].row] \in {"photo", "product"}
                           /\ \A s \in ShopsOf(req[q].row) : req[q].actor \in Refs[s]
        BY DEF WriteIsOwn
    <2>1. Entitled(req[q].actor, req[q].row) /\ req[q].row \in Rows
        BY DEF Typed, Carries
    <2> QED BY <2>1, OwnerAssumption DEF Entitled, ShopsOf
<1> QED BY <1>1, TypedAlways, PTL

(* A removed product never comes back. *)
THEOREM RemovalsLast == Safety => RemovedStaysRemoved
<1>1. Typed /\ [Next]_vars => [\A r \in Rows : Kind[r] = "product" /\ table[r] = "off" => table'[r] # "live"]_vars
    <2> SUFFICES ASSUME Typed, [Next]_vars, NEW r \in Rows, Kind[r] = "product", table[r] = "off"
                 PROVE  table'[r] # "live"
        OBVIOUS
    <2> QED BY TableMoves DEF Wrote
<1> QED BY <1>1, TypedAlways, PTL DEF Safety, RemovedStaysRemoved

-----------------------------------------------------------------------------
(* Notifications: where a recipient had turned them off, they are still off  *)
(* when the preference is read, or the recipient is gone.                    *)
TurnedOff == {u \in Everyone : Off(u)}

QuietInv ==
    \A q \in Slots :
        /\ req[q].pc = "push" => ~req[q].muted
        /\ req[q].pc = "recipient" /\ req[q].muted => req[q].actor \in TurnedOff \/ req[q].actor \notin users

(* What a user turned off stays off until that user turns it on.            *)
LEMMA OffStays ==
    ASSUME Typed, [Next]_vars, NEW u \in TurnedOff, u \in users'
    PROVE  u \in TurnedOff' \/ \E p : UpdatePreference(u, p, "live")
<1>1. PICK p \in Rows : Kind[p] = "preference" /\ u \in Refs[p] /\ table[p] = "off"
    BY DEF TurnedOff, Off
<1>2. \A x \in Refs[p] : x = u
    BY <1>1, OwnerAssumption
<1>3. table'[p] = "off" \/ \E a : UpdatePreference(a, p, "live")
    BY <1>1, <1>2, TableMoves DEF Wrote
<1>4. \A a : UpdatePreference(a, p, "live") => a = u
    BY <1>2 DEF UpdatePreference
<1> QED BY <1>1, <1>3, <1>4 DEF TurnedOff, Off

(* How a request gets to send a notification, and to push it.               *)
LEMMA SendMoves ==
    ASSUME Typed, [Next]_vars, NEW s \in Slots, req'[s].pc \in {"recipient", "push"}
    PROVE  \/ req'[s] = req[s] /\ ~\E p : UpdatePreference(req[s].actor, p, "live")
           \/ req'[s].pc = req[s].pc /\ req'[s].actor = req[s].actor /\ ~req'[s].muted
           \/ req'[s].pc = "recipient" /\ UNCHANGED users /\ \E a \in Everyone :
                 /\ req'[s].actor = a /\ req'[s].muted = Off(a)
                 /\ \E r \in OfKind("notification") : Send(s, a, r)
           \/ Recipient(s) /\ req'[s].muted = req[s].muted /\ req'[s].pc = "push"
<1>0. req \in [Slots -> Request] /\ Idle.pc = "idle"
    BY DEF Typed, TypeOK, Idle
<1>1. ASSUME NEW a, NEW p, NEW v, UpdatePreference(a, p, v)
      PROVE  \/ req'[s] = req[s] /\ ~\E x : UpdatePreference(req[s].actor, x, "live")
             \/ req'[s].pc = req[s].pc /\ req'[s].actor = req[s].actor /\ ~req'[s].muted
    <2>1. [req[s] EXCEPT !.muted = FALSE].pc = req[s].pc /\ [req[s] EXCEPT !.muted = FALSE].actor = req[s].actor
          /\ ~[req[s] EXCEPT !.muted = FALSE].muted
        BY <1>0 DEF Request
    <2>2. CASE \E x : UpdatePreference(req[s].actor, x, "live")
        BY <2>1, <2>2 DEF UpdatePreference
    <2>3. req'[s] = req[s] \/ req'[s] = [req[s] EXCEPT !.muted = FALSE]
        BY <1>1 DEF UpdatePreference
    <2> QED BY <2>1, <2>2, <2>3
<1>2. ASSUME NEW q \in Slots, NEW x, x.pc \notin {"recipient", "push"}, req' = [req EXCEPT ![q] = x]
      PROVE  req'[s] = req[s]
    BY <1>0, <1>2
<1>3. CASE \E x : UpdatePreference(req[s].actor, x, "live")
    BY <1>1, <1>3
<1>4. ASSUME req'[s] # req[s], ~\E a, p, v : UpdatePreference(a, p, v)
      PROVE  \/ req'[s].pc = "recipient" /\ UNCHANGED users /\ \E a \in Everyone :
                 /\ req'[s].actor = a /\ req'[s].muted = Off(a)
                 /\ \E r \in OfKind("notification") : Send(s, a, r)
             \/ Recipient(s) /\ req'[s].muted = req[s].muted /\ req'[s].pc = "push"
    <2>1. ASSUME NEW q \in Slots, Step(q) \/ Fail(q) \/ \E u \in Leavers : DeleteFind(q, u)
          PROVE  Recipient(s)
        <3>1. req' # [req EXCEPT ![q] = Idle]
            BY <1>0, <1>2, <1>4
        <3>2. ~DeleteSweep(q)
            <4>1. [req[q] EXCEPT !.pc = "finish", !.doomed = Doomed(req[q].actor)].pc = "finish"
                BY <1>0 DEF Request
            <4> QED BY <1>2, <1>4, <4>1 DEF DeleteSweep, Goto
        <3>3. ASSUME NEW u, DeleteFind(q, u) PROVE FALSE
            <4>1. [Idle EXCEPT !.pc = "sweep", !.actor = u].pc = "sweep"
                BY DEF Idle
            <4> QED BY <1>2, <1>4, <3>3, <4>1 DEF DeleteFind, Goto
        <3>4. Recipient(q)
            BY <2>1, <3>1, <3>2, <3>3 DEF Step, Fail, DoInsert, DoUpdate, DoDelete, NotFound, Push, DeleteFinish,
                Finish, Goto
        <3>5. q = s
            BY <1>0, <1>4, <3>4 DEF Recipient, Goto, Finish
        <3> QED BY <3>4, <3>5
    <2>2. CASE Recipient(s)
        <3>1. [req[s] EXCEPT !.pc = "push"].pc = "push" /\ [req[s] EXCEPT !.pc = "push"].muted = req[s].muted
            BY <1>0 DEF Request
        <3>2. req' # [req EXCEPT ![s] = Idle]
            BY <1>0, <1>2, <1>4
        <3> QED BY <1>0, <2>2, <3>1, <3>2 DEF Recipient, Goto, Finish
    <2>3. ASSUME NEW q \in Slots, NEW pc, pc \notin {"recipient", "push"}, NEW a, NEW r, NEW v, Prepare(q, pc, a, r, v)
          PROVE  FALSE
        <3>1. [Idle EXCEPT !.pc = pc, !.actor = a, !.row = r, !.value = v].pc = pc
            BY DEF Idle
        <3> QED BY <1>2, <1>4, <2>3, <3>1 DEF Prepare, Goto
    <2>4. ASSUME NEW q \in Slots, NEW pc, pc \notin {"recipient", "push"}, NEW a, NEW x,
                 req' = [req EXCEPT ![q] = [Idle EXCEPT !.pc = pc, !.actor = a, !.shop = x]]
          PROVE  FALSE
        <3>1. [Idle EXCEPT !.pc = pc, !.actor = a, !.shop = x].pc = pc
            BY DEF Idle
        <3> QED BY <1>2, <1>4, <2>4, <3>1
    <2>5. ASSUME NEW q \in Slots, NEW a, NEW x, ShopRequest(q, a, x) PROVE FALSE
        BY <2>3, <2>4, <2>5 DEF ShopRequest, ResolveShop, Resolved, ShopUpdate, ShopRemove, ShopOwned, PhotoAdd,
            PhotoRemove, Goto
    <2>6. ASSUME NEW q \in Slots, NEW r, ProductCreate(q, r) \/ ProductUpdate(q, r) \/ ProductRemove(q, r) PROVE FALSE
        BY <2>3, <2>6 DEF ProductCreate, ProductUpdate, ProductRemove
    <2>7. ASSUME NEW q \in Slots, NEW a \in Everyone, RowRequest(q, a)
          PROVE  \E r \in OfKind("notification") : Send(q, a, r)
        BY <2>3, <2>7 DEF RowRequest, ReviewUpsert, ReviewRemove, UnsaveShop, FeedbackReply, FeedbackStatus, CommentAdd,
            MarkRead
    <2>8. ASSUME NEW q \in Slots, NEW a \in Everyone, NEW r \in OfKind("notification"), Send(q, a, r)
          PROVE  /\ s = q /\ req'[s].pc = "recipient" /\ UNCHANGED users
                 /\ req'[s].actor = a /\ req'[s].muted = Off(a)
        <3> DEFINE x == [Idle EXCEPT !.pc = "recipient", !.actor = a, !.row = r, !.muted = Off(a)]
        <3>1. x.pc = "recipient" /\ x.actor = a /\ x.muted = Off(a)
            BY DEF Idle
        <3>2. req' = [req EXCEPT ![q] = x] /\ UNCHANGED users
            BY <2>8 DEF Send, Goto
        <3> HIDE DEF x
        <3> QED BY <1>0, <1>4, <3>1, <3>2
    <2>9. ~(\/ \E r \in Rows : Statement(r)
            \/ \E o \in OfKind("order"), i \in OfKind("item") : PlaceOrder(o, i)
            \/ \E a \in Everyone : MarkAllRead(a) \/ UpdatePushToken(a)
            \/ UNCHANGED vars)
        BY <1>4 DEF Statement, ShopCreate, SaveShop, FeedbackCreate, AnnouncementCreate, Record, Create, PlaceOrder,
            MarkAllRead, UpdatePushToken, vars
    <2>10. Recipient(s) \/ \E a \in Everyone, r \in OfKind("notification"), q \in Slots : Send(q, a, r)
        BY <1>4, <2>1, <2>5, <2>6, <2>7, <2>9 DEF Next
    <2> QED BY <2>2, <2>8, <2>10
<1>5. CASE \E a, p, v : UpdatePreference(a, p, v)
    BY <1>1, <1>5
<1> QED BY <1>3, <1>4, <1>5

LEMMA QuietStep ==
    ASSUME Typed, QuietInv, [Next]_vars
    PROVE  QuietInv'
<1>0. \A q \in Slots : Carries(req[q])
    BY DEF Typed
<1>1. ASSUME NEW s \in Slots, req'[s].pc = "push" PROVE ~req'[s].muted
    <2>1. CASE Recipient(s) /\ req'[s].muted = req[s].muted
        <3>1. /\ req[s].pc = "recipient" /\ req[s].actor \in Everyone
              /\ req' = [req EXCEPT ![s] = Idle] \/ (req[s].actor \in users /\ req[s].actor \notin TurnedOff)
            BY <1>0, <2>1 DEF Recipient, Muted, TurnedOff, Carries, Goto, Finish
        <3>2. req' # [req EXCEPT ![s] = Idle]
            BY <1>1, IdleTyped DEF Typed, TypeOK
        <3> QED BY <2>1, <3>1, <3>2 DEF QuietInv
    <2> QED BY <1>1, <2>1, SendMoves DEF QuietInv
<1>2. ASSUME NEW s \in Slots, req'[s].pc = "recipient", req'[s].muted
      PROVE  req'[s].actor \in TurnedOff' \/ req'[s].actor \notin users'
    <2>1. CASE req'[s] = req[s] /\ ~\E p : UpdatePreference(req[s].actor, p, "live")
        <3>1. PICK u : u = req[s].actor
            OBVIOUS
        <3>2. u \notin users => u \notin users'
            <4>1. ASSUME NEW q \in Slots, DeleteFinish(q) PROVE users' \subseteq users
                BY <4>1 DEF DeleteFinish
            <4>2. ASSUME NEW q \in Slots, \/ DoInsert(q) \/ DoUpdate(q) \/ DoDelete(q) \/ NotFound(q) \/ Recipient(q)
                                          \/ Push(q) \/ DeleteSweep(q) \/ Fail(q) \/ \E x \in Leavers : DeleteFind(q, x)
                  PROVE  UNCHANGED users
                BY <4>2 DEF Fail, DeleteFind, DoInsert, DoUpdate, DoDelete, NotFound, Recipient, Push, DeleteSweep
            <4>3. ASSUME NEW q, NEW a, NEW x, \/ ShopRequest(q, a, x)
                                              \/ ProductCreate(q, x) \/ ProductUpdate(q, x) \/ ProductRemove(q, x)
                                              \/ RowRequest(q, a)
                  PROVE  UNCHANGED users
                BY <4>3 DEF ShopRequest, ResolveShop, Resolved, ShopUpdate, ShopRemove, ShopOwned, PhotoAdd, PhotoRemove,
                    Prepare, ProductCreate, ProductUpdate, ProductRemove, RowRequest, ReviewUpsert, ReviewRemove,
                    UnsaveShop, FeedbackReply, FeedbackStatus, CommentAdd, MarkRead, Send
            <4>4. ASSUME NEW a, NEW x, \/ Statement(x) \/ PlaceOrder(a, x) \/ MarkAllRead(a) \/ UpdatePushToken(a)
                                       \/ \E v : UpdatePreference(a, x, v)
                  PROVE  UNCHANGED users
                BY <4>4 DEF Statement, ShopCreate, SaveShop, FeedbackCreate, AnnouncementCreate, Record, Create, PlaceOrder,
                    MarkAllRead, UpdatePushToken, UpdatePreference
            <4> QED BY <4>1, <4>2, <4>3, <4>4 DEF Next, Step, vars
        <3>3. u \in TurnedOff \/ u \notin users
            BY <1>2, <2>1, <3>1 DEF QuietInv
        <3>4. u \in TurnedOff' \/ u \notin users'
            BY <2>1, <3>1, <3>2, <3>3, OffStays
        <3> QED BY <2>1, <3>1, <3>4
    <2>2. ASSUME NEW a \in Everyone, req'[s].actor = a, req'[s].muted = Off(a), UNCHANGED users,
                 NEW r \in OfKind("notification"), Send(s, a, r)
          PROVE  req'[s].actor \in TurnedOff'
        <3>1. Off(a)
            BY <1>2, <2>2
        <3>2. \A x \in Rows : table[x] = "off" => table'[x] = "off"
            BY <2>2 DEF Send, Insert, KeysHold, Present
        <3> QED BY <2>2, <3>1, <3>2 DEF Off, TurnedOff
    <2> QED BY <1>2, <2>1, <2>2, SendMoves
<1> QED BY <1>1, <1>2 DEF QuietInv

(* What was turned off before is not pushed, unless it was turned on since.  *)
THEOREM MutedNeverPushed == Safety => []MutedIsQuiet
<1>1. Init => QuietInv
    BY IdleTyped DEF Init, QuietInv
<1>2. Typed /\ QuietInv /\ [Next]_vars => QuietInv'
    BY QuietStep
<1>3. QuietInv => MutedIsQuiet
    BY DEF QuietInv, MutedIsQuiet
<1> QED BY <1>1, <1>2, <1>3, TypedAlways, PTL DEF Safety

-----------------------------------------------------------------------------
(* The deletion of an account.  Its statements know the tables, not the      *)
(* rows; that they miss none rests on the foreign keys, which hold in every  *)
(* state, and on items being of the shop of their order: else a product may  *)
(* be swept with its shop while another shop's order keeps it.              *)
KeysStand == \A r \in Rows : Present(r) => \A x \in Refs[r] : IF x \in Rows THEN Present(x) ELSE x \in users

ItemsOfShop == \A r \in Rows : Kind[r] = "item" /\ Present(r) => \E o \in Refs[r] : Kind[o] = "order" /\ OneShop(o, r)

KeysInv == KeysStand /\ ItemsOfShop

LEMMA KeysBegin == Init => KeysInv
<1> SUFFICES ASSUME Init PROVE KeysInv
    OBVIOUS
<1>1. users = Everyone /\ \A r \in Rows : Present(r) <=> r \in Seeds
    BY DEF Init, Present
<1>2. \A r \in Seeds : Refs[r] \subseteq Seeds \union Everyone
    BY SeedAssumption
<1>3. Seeds \subseteq Rows /\ Rows \intersect Everyone = {}
    BY ContentAssumption
<1>4. KeysStand
    BY <1>1, <1>2, <1>3 DEF KeysStand
<1> QED BY <1>1, <1>4, SeedAssumption DEF KeysInv, ItemsOfShop

(* Rows that come refer to rows that are there, or come with them.          *)
LEMMA GrowthKeeps ==
    ASSUME KeysInv, NEW R \in SUBSET Rows, NEW v \in {"live", "off"}, Wrote(R, v), UNCHANGED users,
           \A r \in R : \A x \in Refs[r] : IF x \in Rows THEN Present(x) \/ x \in R ELSE x \in users,
           \A r \in R : Kind[r] = "item" => \E o \in Refs[r] : Kind[o] = "order" /\ OneShop(o, r)
    PROVE  KeysInv'
<1>1. \A r \in Rows : Present(r)' <=> Present(r) \/ r \in R
    BY DEF Wrote, Present
<1>2. KeysStand'
    BY <1>1 DEF KeysInv, KeysStand
<1>3. ItemsOfShop'
    BY <1>1 DEF KeysInv, ItemsOfShop
<1> QED BY <1>2, <1>3 DEF KeysInv

(* Rows and accounts that go are referred to by none that stay.             *)
LEMMA RemovalKeeps ==
    ASSUME KeysInv, NEW R \in SUBSET Rows, Wrote(R, "none"), users' \subseteq users,
           \A r \in Rows \ R : Present(r) => Refs[r] \intersect (R \union (users \ users')) = {}
    PROVE  KeysInv'
<1>1. \A r \in Rows : Present(r)' <=> Present(r) /\ r \notin R
    BY DEF Wrote, Present
<1>2. KeysStand'
    BY <1>1 DEF KeysInv, KeysStand
<1>3. ItemsOfShop'
    BY <1>1 DEF KeysInv, ItemsOfShop
<1> QED BY <1>2, <1>3 DEF KeysInv

LEMMA UpdateKeeps ==
    ASSUME KeysInv, \A r \in Rows : Present(r)' <=> Present(r), UNCHANGED users
    PROVE  KeysInv'
BY DEF KeysInv, KeysStand, ItemsOfShop

(* Nothing refers to what the schema deletes by itself.                     *)
LEMMA CascadesEnd ==
    ASSUME NEW r \in Rows, NEW s \in Rows, Cascades(s, r), NEW t \in Rows, s \in Refs[t]
    PROVE  FALSE
<1>1. Kind[s] \in {"photo", "comment", "reply"}
    BY DEF Cascades
<1>2. <<Kind[t], Kind[s]>> \in Relations
    BY SchemaAssumption
<1> QED BY <1>1, <1>2 DEF Relations

LEMMA CreateKeeps ==
    ASSUME KeysInv, NEW r \in Rows, NEW v \in {"live", "off"}, Kind[r] # "item", KeysHold(r), Insert({r}, v),
           UNCHANGED users
    PROVE  KeysInv'
<1>1. Wrote({r}, v) /\ {r} \in SUBSET Rows
    BY DEF Insert, Wrote
<1>2. \A x \in Refs[r] : IF x \in Rows THEN Present(x) ELSE x \in users
    BY DEF KeysHold
<1> QED BY <1>1, <1>2, GrowthKeeps

LEMMA PlaceOrderKeeps ==
    ASSUME Typed, KeysInv, NEW o \in OfKind("order"), NEW i \in OfKind("item"), PlaceOrder(o, i)
    PROVE  KeysInv'
<1> DEFINE R == {o, i}
<1>1. o \in Rows /\ i \in Rows /\ Kind[o] = "order" /\ Kind[i] = "item"
    BY DEF OfKind
<1>2. R \in SUBSET Rows /\ Wrote(R, "live") /\ UNCHANGED users
    BY <1>1 DEF PlaceOrder, Insert, Wrote
<1>3. \A x \in Refs[o] : IF x \in Rows THEN Present(x) ELSE x \in users
    BY DEF PlaceOrder, KeysHold
<1>4. \A x \in Refs[i] : x \in Rows /\ (Present(x) \/ x \in R)
    BY <1>1, SchemaAssumption DEF PlaceOrder, Userless
<1>5. \E x \in Refs[i] : Kind[x] = "order" /\ OneShop(x, i)
    BY <1>1 DEF PlaceOrder
<1>6. /\ \A r \in R : \A x \in Refs[r] : IF x \in Rows THEN Present(x) \/ x \in R ELSE x \in users
      /\ \A r \in R : Kind[r] = "item" => \E x \in Refs[r] : Kind[x] = "order" /\ OneShop(x, r)
    BY <1>1, <1>3, <1>4, <1>5
<1> HIDE DEF R
<1> QED BY <1>2, <1>6, GrowthKeeps

LEMMA DeleteKeeps ==
    ASSUME Typed, KeysInv, NEW q \in Slots, DoDelete(q)
    PROVE  KeysInv'
<1> DEFINE r == req[q].row  R == {r} \union Referring(r)
<1>1. r \in Rows /\ R \in SUBSET Rows /\ UNCHANGED users
    BY DEF DoDelete, Typed, Carries, Referring
<1>2. CASE \A s \in Referring(r) : Cascades(s, r)
    <2>1. Wrote(R, "none")
        BY <1>2 DEF DoDelete, Wrote
    <2>2. \A t \in Rows \ R : Present(t) => r \notin Refs[t]
        BY DEF Referring
    <2>3. \A t \in Rows : \A s \in Referring(r) : s \notin Refs[t]
        BY <1>1, <1>2, CascadesEnd DEF Referring
    <2>4. \A t \in Rows \ R : Present(t) => Refs[t] \intersect (R \union (users \ users')) = {}
        BY <1>1, <2>2, <2>3
    <2> HIDE DEF R
    <2> QED BY <1>1, <2>1, <2>4, RemovalKeeps
<1>3. CASE table' = table
    BY <1>1, <1>3, UpdateKeeps DEF Present
<1> QED BY <1>2, <1>3 DEF DoDelete

LEMMA FinishKeeps ==
    ASSUME Typed, KeysInv, NEW q \in Slots, DeleteFinish(q)
    PROVE  KeysInv'
<1> DEFINE u == req[q].actor  R == req[q].doomed
<1>1. R \in SUBSET Rows
    BY DEF Typed, TypeOK, Request
<1>2. CASE Commits(u, R)
    <2>1. Wrote(R, "none") /\ users' = users \ {u}
        BY <1>2 DEF DeleteFinish, Wrote
    <2>2. \A r \in Rows \ R : Present(r) => Refs[r] \intersect ({u} \union R) = {}
        BY <1>2 DEF Commits, Blockers
    <2>3. /\ users' \subseteq users
          /\ \A r \in Rows \ R : Present(r) => Refs[r] \intersect (R \union (users \ users')) = {}
        BY <2>1, <2>2
    <2> HIDE DEF R
    <2> QED BY <1>1, <2>1, <2>3, RemovalKeeps
<1>3. CASE UNCHANGED <<table, users>>
    BY <1>3, UpdateKeeps DEF Present
<1> QED BY <1>2, <1>3 DEF DeleteFinish

LEMMA KeysStep ==
    ASSUME Typed, KeysInv, [Next]_vars
    PROVE  KeysInv'
<1>1. ASSUME NEW q \in Slots, DoInsert(q) PROVE KeysInv'
    <2>1. req[q].row \in Rows /\ Kind[req[q].row] # "item" /\ req[q].value \in {"live", "off"}
        BY <1>1 DEF DoInsert, Typed, TypeOK, Carries, Request, Value
    <2>2. CASE KeysHold(req[q].row) /\ inserts < MaxInserts
        BY <1>1, <2>1, <2>2, CreateKeeps DEF DoInsert
    <2> QED BY <1>1, <2>2, UpdateKeeps DEF DoInsert, Present
<1>2. ASSUME NEW q \in Slots, DoUpdate(q) PROVE KeysInv'
    <2>1. req[q].value # "none" /\ UNCHANGED users
        BY <1>2 DEF DoUpdate, Typed, TypeOK, Carries, Request
    <2>2. \A r \in Rows : Present(r)' <=> Present(r)
        BY <1>2, <2>1 DEF DoUpdate, Written, Present, Typed, TypeOK
    <2> QED BY <2>1, <2>2, UpdateKeeps
<1>3. ASSUME NEW q \in Slots, DoDelete(q) \/ DeleteFinish(q) PROVE KeysInv'
    BY <1>3, DeleteKeeps, FinishKeeps
<1>4. ASSUME UNCHANGED <<table, users>> PROVE KeysInv'
    BY <1>4, UpdateKeeps DEF Present
<1>5. ASSUME NEW q \in Slots, \/ NotFound(q) \/ Recipient(q) \/ Push(q) \/ DeleteSweep(q) \/ Fail(q)
                              \/ \E u \in Leavers : DeleteFind(q, u)
      PROVE  KeysInv'
    BY <1>4, <1>5 DEF NotFound, Recipient, Push, DeleteSweep, Fail, DeleteFind
<1>6. ASSUME NEW q \in Slots, NEW a, NEW r, ShopRequest(q, a, r) \/ ProductCreate(q, r) \/ ProductUpdate(q, r) \/ ProductRemove(q, r)
      PROVE  KeysInv'
    BY <1>4, <1>6 DEF ShopRequest, ResolveShop, Resolved, ShopUpdate, ShopRemove, ShopOwned, PhotoAdd, PhotoRemove,
        ProductCreate, ProductUpdate, ProductRemove, Prepare
<1>7. ASSUME NEW q \in Slots, NEW a, RowRequest(q, a) PROVE KeysInv'
    <2>1. ASSUME NEW r \in OfKind("notification"), Send(q, a, r) PROVE KeysInv'
        <3>1. r \in Rows /\ Kind[r] # "item"
            BY DEF OfKind
        <3> QED BY <2>1, <3>1, CreateKeeps DEF Send
    <2> QED BY <1>4, <1>7, <2>1 DEF RowRequest, ReviewUpsert, ReviewRemove, UnsaveShop, FeedbackReply, FeedbackStatus,
            CommentAdd, MarkRead, Prepare
<1>8. ASSUME NEW r \in Rows, Statement(r) PROVE KeysInv'
    <2>1. Kind[r] # "item" /\ Create(r)
        BY <1>8 DEF Statement, ShopCreate, SaveShop, FeedbackCreate, AnnouncementCreate, Record, OfKind
    <2> QED BY <2>1, CreateKeeps DEF Create
<1>9. ASSUME NEW a, NEW p \in OfKind("preference"), NEW v \in {"live", "off"}, UpdatePreference(a, p, v) PROVE KeysInv'
    <2>1. p \in Rows /\ Kind[p] # "item" /\ UNCHANGED users
        BY <1>9 DEF OfKind, UpdatePreference
    <2>2. CASE Present(p)
        <3>1. \A r \in Rows : Present(r)' <=> Present(r)
            BY <1>9, <2>1, <2>2 DEF UpdatePreference, Present, Typed, TypeOK
        <3> QED BY <2>1, <3>1, UpdateKeeps
    <2> QED BY <1>9, <2>1, <2>2, CreateKeeps DEF UpdatePreference
<1>10. ASSUME NEW a, MarkAllRead(a) PROVE KeysInv'
    <2>1. UNCHANGED users /\ \A r \in Rows : Present(r)' <=> Present(r)
        BY <1>10 DEF MarkAllRead, OfKind, Present
    <2> QED BY <2>1, UpdateKeeps
<1>11. (\E a \in Everyone : UpdatePushToken(a)) \/ UNCHANGED vars => KeysInv'
    BY <1>4 DEF UpdatePushToken, vars
<1> QED BY <1>1, <1>2, <1>3, <1>5, <1>6, <1>7, <1>8, <1>9, <1>10, <1>11, PlaceOrderKeeps DEF Next, Step

(* By the kinds of the referring row and of the row that is swept.          *)
LEMMA SweepLeavesNone ==
    ASSUME KeysInv, NEW u \in Everyone
    PROVE  Blockers(u, Doomed(u)) = {}
<1> DEFINE D == Doomed(u)
           personal == Of(Personal, {u})
           shops == Of({"shop"}, {u})
           orders == Of({"order"}, {u} \union shops)
<1>1. /\ personal \subseteq D /\ Of({"reply"}, personal) \subseteq D /\ orders \subseteq D
      /\ Of({"item"}, orders) \subseteq D /\ shops \subseteq D /\ Of(ShopRows, shops) \subseteq D
      /\ Of({"invitation"}, {u}) \subseteq D
    BY DEF Doomed
<1>2. ASSUME NEW x \in D
      PROVE  /\ x \in Rows
             /\ Kind[x] = "shop" => x \in shops
             /\ Kind[x] = "order" => x \in orders
             /\ Kind[x] = "product" => x \in Of(ShopRows, shops)
             /\ Kind[x] = "feedback" => x \in personal
             /\ Kind[x] # "announcement"
    <2>1. \A K, X : Of(K, X) \subseteq Rows /\ \A y \in Of(K, X) : Kind[y] \in K
        BY DEF Of
    <2>2. \/ x \in personal \/ x \in Of({"reply"}, personal) \/ x \in orders \/ x \in Of({"item"}, orders)
          \/ x \in shops \/ x \in Of(ShopRows, shops) \/ x \in Of({"invitation"}, {u})
        BY DEF Doomed
    <2> HIDE DEF personal, shops, orders, D
    <2>3. personal \subseteq Rows /\ \A y \in personal : Kind[y] \in Personal
        BY <2>1 DEF personal
    <2>4. shops \subseteq Rows /\ \A y \in shops : Kind[y] = "shop"
        BY <2>1 DEF shops
    <2>5. orders \subseteq Rows /\ \A y \in orders : Kind[y] = "order"
        BY <2>1 DEF orders
    <2>6. x \in Rows
        BY <2>1, <2>2, <2>3, <2>4, <2>5
    <2>7. Kind[x] \in {"feedback", "announcement", "shop", "order", "product"} =>
              x \in personal \/ x \in orders \/ x \in shops \/ x \in Of(ShopRows, shops)
        BY <2>1, <2>2
    <2>8. x \in Of(ShopRows, shops) => Kind[x] \in ShopRows
        BY <2>1
    <2> QED BY <2>3, <2>4, <2>5, <2>6, <2>7, <2>8 DEF Personal, ShopRows
<1>3. ASSUME NEW r \in Rows, Present(r), u \in Refs[r] PROVE r \in D
    <2>1. Kind[r] \in Kinds \ Userless
        BY <1>3, ContentAssumption, SchemaAssumption
    <2>2. \/ Kind[r] \in Personal \/ Kind[r] \in {"shop"} \/ Kind[r] \in {"order"} \/ Kind[r] \in {"invitation"}
        BY <2>1 DEF Kinds, Keyed, Userless, Personal
    <2>3. r \in personal \/ r \in shops \/ r \in orders \/ r \in Of({"invitation"}, {u})
        BY <1>3, <2>2 DEF Of
    <2> QED BY <1>1, <2>3
<1>4. ASSUME NEW r \in Rows, Present(r), NEW x \in D, x \in Refs[r] PROVE r \in D
    <2>1. x \in Rows /\ <<Kind[r], Kind[x]>> \in Relations
        BY <1>2, <1>4, SchemaAssumption
    <2>2. CASE Kind[x] = "shop"
        <3>1. Kind[r] \in ShopRows \/ Kind[r] \in {"order"}
            BY <2>1, <2>2 DEF Relations, ShopRows
        <3>2. r \in Of(ShopRows, shops) \/ r \in orders
            BY <1>2, <1>4, <2>2, <3>1 DEF Of
        <3> QED BY <1>1, <3>2
    <2>3. CASE Kind[x] = "order"
        <3>1. Kind[r] = "item"
            BY <2>1, <2>3 DEF Relations
        <3>2. r \in Of({"item"}, orders)
            BY <1>2, <1>4, <2>3, <3>1 DEF Of
        <3> QED BY <1>1, <3>2
    <2>4. CASE Kind[x] = "product"
        <3>1. Kind[r] = "item"
            BY <2>1, <2>4 DEF Relations
        <3>2. PICK o \in Refs[r] : Kind[o] = "order" /\ OneShop(o, r)
            BY <1>4, <3>1 DEF KeysInv, ItemsOfShop
        <3>3. o \in Rows /\ Present(o)
            BY <1>4, <3>1, SchemaAssumption DEF KeysInv, KeysStand, Userless
        <3>4. PICK s \in shops : s \in Refs[x]
            BY <1>2, <2>4 DEF Of
        <3>5. s \in Refs[o]
            BY <1>4, <2>4, <3>2, <3>4 DEF OneShop
        <3>6. o \in orders
            BY <3>2, <3>3, <3>5 DEF Of
        <3>7. r \in Of({"item"}, orders)
            BY <1>4, <3>1, <3>2, <3>6 DEF Of
        <3> QED BY <1>1, <3>7
    <2>5. CASE Kind[x] = "feedback"
        <3>1. Kind[r] = "reply"
            BY <2>1, <2>5 DEF Relations
        <3>2. r \in Of({"reply"}, personal)
            BY <1>2, <1>4, <2>5, <3>1 DEF Of
        <3> QED BY <1>1, <3>2
    <2> QED BY <1>2, <2>1, <2>2, <2>3, <2>4, <2>5 DEF Relations
<1> HIDE DEF D
<1>5. Blockers(u, D) = {}
    BY <1>3, <1>4 DEF Blockers
<1> QED BY <1>5 DEF D

(* Only the statements of a deletion lead to its commit.                     *)
LEMMA SweepMoves ==
    ASSUME Typed, [Next]_vars, NEW s \in Slots, req[s].pc = "sweep", req'[s].pc = "finish"
    PROVE  DeleteSweep(s)
<1>0. req \in [Slots -> Request] /\ Idle.pc = "idle"
    BY DEF Typed, TypeOK, Idle
<1>1. ASSUME NEW q \in Slots, NEW x, x.pc # "finish", req' = [req EXCEPT ![q] = x]
      PROVE  FALSE
    BY <1>0, <1>1
<1>2. ASSUME NEW a, NEW p, NEW v, UpdatePreference(a, p, v) PROVE FALSE
    <2>1. [req[s] EXCEPT !.muted = FALSE].pc = req[s].pc
        BY <1>0 DEF Request
    <2> QED BY <1>2, <2>1 DEF UpdatePreference
<1>3. ASSUME NEW q \in Slots, Step(q) \/ Fail(q) \/ \E u \in Leavers : DeleteFind(q, u)
      PROVE  DeleteSweep(s)
    <2>1. req' # [req EXCEPT ![q] = Idle]
        BY <1>0, <1>1
    <2>2. ~Recipient(q)
        <3>1. [req[q] EXCEPT !.pc = "push"].pc = "push"
            BY <1>0 DEF Request
        <3> QED BY <1>1, <2>1, <3>1 DEF Recipient, Goto, Finish
    <2>3. ASSUME NEW u, DeleteFind(q, u) PROVE FALSE
        <3>1. [Idle EXCEPT !.pc = "sweep", !.actor = u].pc = "sweep"
            BY DEF Idle
        <3> QED BY <1>1, <2>3, <3>1 DEF DeleteFind, Goto
    <2>4. DeleteSweep(q)
        BY <1>3, <2>1, <2>2, <2>3 DEF Step, Fail, DoInsert, DoUpdate, DoDelete, NotFound, Push, DeleteFinish, Finish, Goto
    <2>5. q = s
        BY <1>0, <2>4 DEF DeleteSweep, Goto
    <2> QED BY <2>4, <2>5
<1>4. ASSUME NEW q \in Slots, NEW pc, pc # "finish", NEW a, NEW r, NEW v, Prepare(q, pc, a, r, v) PROVE FALSE
    <2>1. [Idle EXCEPT !.pc = pc, !.actor = a, !.row = r, !.value = v].pc = pc
        BY DEF Idle
    <2> QED BY <1>1, <1>4, <2>1 DEF Prepare, Goto
<1>5. ASSUME NEW q \in Slots, NEW a, NEW x, ShopRequest(q, a, x) PROVE FALSE
    <2>1. ~ResolveShop(q, a, x)
        <3>1. [Idle EXCEPT !.pc = "resolved", !.actor = a, !.shop = x].pc # "finish"
            BY DEF Idle
        <3> QED BY <1>1, <3>1 DEF ResolveShop, Resolved, Goto
    <2>2. ~ShopOwned(q, a, x)
        <3>1. [Idle EXCEPT !.pc = "owned", !.actor = a, !.shop = x].pc # "finish"
            BY DEF Idle
        <3> QED BY <1>1, <3>1 DEF ShopOwned, Goto
    <2>3. ~ShopUpdate(q, a, x) /\ ~ShopRemove(q, a, x)
        BY <1>4 DEF ShopUpdate, ShopRemove
    <2>4. \A r : ~PhotoAdd(q, a, x, r) /\ ~PhotoRemove(q, a, x, r)
        BY <1>4 DEF PhotoAdd, PhotoRemove
    <2> QED BY <1>5, <2>1, <2>2, <2>3, <2>4 DEF ShopRequest
<1>6. ASSUME NEW q \in Slots, NEW r, ProductCreate(q, r) \/ ProductUpdate(q, r) \/ ProductRemove(q, r) PROVE FALSE
    BY <1>4, <1>6 DEF ProductCreate, ProductUpdate, ProductRemove
<1>7. ASSUME NEW q \in Slots, NEW a, RowRequest(q, a) PROVE FALSE
    <2>1. ASSUME NEW r, Send(q, a, r) PROVE FALSE
        <3>1. [Idle EXCEPT !.pc = "recipient", !.actor = a, !.row = r, !.muted = Off(a)].pc = "recipient"
            BY DEF Idle
        <3> QED BY <1>1, <2>1, <3>1 DEF Send, Goto
    <2> QED BY <1>4, <1>7, <2>1 DEF RowRequest, ReviewUpsert, ReviewRemove, UnsaveShop, FeedbackReply, FeedbackStatus,
            CommentAdd, MarkRead
<1>8. req' # req
    OBVIOUS
<1> QED BY <1>2, <1>3, <1>5, <1>6, <1>7, <1>8 DEF Next, Statement, ShopCreate, SaveShop, FeedbackCreate,
        AnnouncementCreate, Record, Create, PlaceOrder, MarkAllRead, UpdatePushToken, vars

(* What a deletion swept is all that keeps the account or a swept row: by    *)
(* itself it never fails at its last statement.                             *)
THEOREM DeletionSweepsAll == Safety => CascadeIsComplete
<1>1. Init => KeysInv
    BY KeysBegin
<1>2. Typed /\ KeysInv /\ [Next]_vars => KeysInv'
    BY KeysStep
<1>3. Typed /\ KeysInv /\ [Next]_vars =>
          [\A q \in Slots :
              req[q].pc = "sweep" /\ req'[q].pc = "finish" => Blockers(req[q].actor, req'[q].doomed) = {}]_vars
    <2> SUFFICES ASSUME Typed, KeysInv, [Next]_vars, NEW q \in Slots, req[q].pc = "sweep", req'[q].pc = "finish"
                 PROVE  Blockers(req[q].actor, req'[q].doomed) = {}
        OBVIOUS
    <2>1. DeleteSweep(q)
        BY SweepMoves
    <2>2. req'[q].doomed = Doomed(req[q].actor)
        <3>1. req[q] \in Request
            BY DEF Typed, TypeOK
        <3>2. [req[q] EXCEPT !.pc = "finish", !.doomed = Doomed(req[q].actor)].doomed = Doomed(req[q].actor)
            BY <3>1 DEF Request
        <3> QED BY <2>1, <3>2 DEF DeleteSweep, Goto, Typed, TypeOK
    <2>3. req[q].actor \in Everyone
        BY DEF Typed, Carries
    <2> QED BY <2>2, <2>3, SweepLeavesNone
<1> QED BY <1>1, <1>2, <1>3, TypedAlways, PTL DEF Safety, CascadeIsComplete
=============================================================================
