---------------------------- MODULE ListsProofs ----------------------------
(* Theorems about Lists, for every value of its constants.                 *)
EXTENDS Lists, FiniteSetTheorems, TLAPS

-----------------------------------------------------------------------------
(* Rows in order. *)

(* Before orders the rows: two different rows come one before the other.    *)
LEMMA BeforeOrders ==
    ASSUME NEW order, NEW r \in Rows, NEW s \in Rows, NEW t \in Rows
    PROVE  /\ ~Before(order, r, r)
           /\ Before(order, r, s) => ~Before(order, s, r)
           /\ Before(order, r, s) \/ r = s \/ Before(order, s, r)
           /\ Before(order, r, s) /\ Before(order, s, t) => Before(order, r, t)
           /\ ~Before(order, s, r) /\ Before(order, s, t) => Before(order, r, t)
           /\ Before(order, r, s) /\ ~Before(order, t, s) => Before(order, r, t)
<1>1. r \in Int /\ s \in Int /\ t \in Int
    BY ListsAssumption DEF Rows
<1> QED BY <1>1 DEF Before

LEMMA RowsFinite ==
    ASSUME NEW rows \in SUBSET Rows
    PROVE  IsFiniteSet(rows) /\ Cardinality(rows) \in Nat
<1>1. IsFiniteSet(Rows)
    BY ListsAssumption, FS_Interval DEF Rows
<1> QED BY <1>1, FS_Subset, FS_CardinalityType

(* The ranks of n rows are 0 to n - 1, each of them once, in their order.   *)
LEMMA RankCounts ==
    ASSUME NEW order, NEW rows \in SUBSET Rows
    PROVE  /\ \A r \in rows : Rank(order, rows, r) \in 0..(Cardinality(rows) - 1)
           /\ \A r, s \in rows : Before(order, r, s) <=> Rank(order, rows, r) < Rank(order, rows, s)
           /\ \A r, s \in rows : Rank(order, rows, r) = Rank(order, rows, s) => r = s
           /\ \A k \in 0..(Cardinality(rows) - 1) : \E r \in rows : Rank(order, rows, r) = k
<1> DEFINE n == Cardinality(rows)
           ahead(r) == {s \in rows : Before(order, s, r)}
           rank == [r \in rows |-> Rank(order, rows, r)]
<1>1. IsFiniteSet(rows) /\ n \in Nat
    BY RowsFinite
<1>2. ASSUME NEW r \in rows
      PROVE  /\ IsFiniteSet(ahead(r)) /\ Cardinality(ahead(r)) \in Nat
             /\ Cardinality(ahead(r)) < n
             /\ Rank(order, rows, r) = Cardinality(ahead(r))
  <2>1. ahead(r) \in SUBSET rows /\ ahead(r) \in SUBSET Rows
      OBVIOUS
  <2>2. ahead(r) # rows
      BY BeforeOrders
  <2>3. IsFiniteSet(ahead(r)) /\ Cardinality(ahead(r)) \in Nat
      BY <2>1, RowsFinite
  <2>4. Cardinality(ahead(r)) <= n /\ Cardinality(ahead(r)) # n
      BY <1>1, <2>1, <2>2, FS_Subset
  <2> QED BY <1>1, <2>3, <2>4 DEF Rank
<1>3. ASSUME NEW r \in rows, NEW s \in rows, Before(order, r, s)
      PROVE  Rank(order, rows, r) < Rank(order, rows, s)
  <2>1. ahead(r) \in SUBSET ahead(s)
      BY <1>3, BeforeOrders
  <2>2. r \in ahead(s) /\ r \notin ahead(r)
      BY <1>3, BeforeOrders
  <2>3. Cardinality(ahead(r)) <= Cardinality(ahead(s)) /\ Cardinality(ahead(r)) # Cardinality(ahead(s))
      BY <1>2, <2>1, <2>2, FS_Subset
  <2> HIDE DEF ahead
  <2> QED BY <1>2, <2>3
<1>4. \A r \in rows : Rank(order, rows, r) \in 0..(n - 1)
  <2> HIDE DEF ahead, n
  <2> QED BY <1>1, <1>2
<1>5. \A r, s \in rows : Before(order, r, s) <=> Rank(order, rows, r) < Rank(order, rows, s)
  <2> SUFFICES ASSUME NEW r \in rows, NEW s \in rows
               PROVE  Before(order, r, s) <=> Rank(order, rows, r) < Rank(order, rows, s)
      OBVIOUS
  <2>1. Before(order, r, s) \/ r = s \/ Before(order, s, r)
      BY BeforeOrders
  <2>2. Rank(order, rows, r) \in Nat /\ Rank(order, rows, s) \in Nat
      BY <1>1, <1>4
  <2>3. ~Before(order, r, r)
      BY BeforeOrders
  <2> QED BY <1>3, <2>1, <2>2, <2>3
<1>6. \A r, s \in rows : Rank(order, rows, r) = Rank(order, rows, s) => r = s
  <2> SUFFICES ASSUME NEW r \in rows, NEW s \in rows, Rank(order, rows, r) = Rank(order, rows, s)
               PROVE  r = s
      OBVIOUS
  <2>1. Rank(order, rows, r) \in Nat
      BY <1>1, <1>4
  <2>2. ~(Rank(order, rows, r) < Rank(order, rows, s)) /\ ~(Rank(order, rows, s) < Rank(order, rows, r))
      BY <2>1
  <2> QED BY <1>5, <2>2, BeforeOrders
<1>7. rank \in Injection(rows, 0..(n - 1))
  <2>1. rank \in [rows -> 0..(n - 1)]
      BY <1>4
  <2>2. \A r, s \in rows : rank[r] = rank[s] => r = s
      BY <1>6
  <2> HIDE DEF rank
  <2> QED BY <2>1, <2>2 DEF Injection, IsInjective
<1>8. IsFiniteSet(0..(n - 1)) /\ Cardinality(0..(n - 1)) = n
    BY <1>1, FS_Interval
<1>9. rank \in Surjection(rows, 0..(n - 1))
    BY <1>7, <1>8, FS_Injection
<1>10. \A k \in 0..(n - 1) : \E r \in rows : rank[r] = k
    BY <1>9 DEF Surjection
<1> QED BY <1>4, <1>5, <1>6, <1>10

LEMMA RankNat ==
    ASSUME NEW order, NEW rows \in SUBSET Rows, NEW r
    PROVE  Rank(order, rows, r) \in Nat
<1>1. {s \in rows : Before(order, s, r)} \in SUBSET Rows
    OBVIOUS
<1> QED BY <1>1, RowsFinite DEF Rank

(* items are take of the rows, or as many as follow the first skip of them, *)
(* in their order and each once.                                            *)
Sliced(order, rows, skip, take, items) ==
    /\ items \in Seq(rows) /\ Len(items) \in Nat /\ DOMAIN items = 1..Len(items)
    /\ Len(items) <= take
    /\ Len(items) = take \/ Len(items) = AtLeast(Cardinality(rows) - skip, 0)
    /\ \A i \in 1..Len(items) : items[i] \in rows /\ Rank(order, rows, items[i]) = skip + i - 1
    /\ \A r \in rows : skip <= Rank(order, rows, r) /\ Rank(order, rows, r) < skip + take
                          => \E i \in 1..Len(items) : items[i] = r

(* What findMany returns is such a slice. *)
LEMMA SliceHolds ==
    ASSUME NEW order, NEW rows \in SUBSET Rows, NEW skip \in Nat, NEW take \in Nat,
           NEW items, items = Slice(order, rows, skip, take)
    PROVE  Sliced(order, rows, skip, take, items)
<1> DEFINE n == Cardinality(rows)
           len == AtMost(take, AtLeast(n - skip, 0))
<1>1. n \in Nat
    BY RowsFinite
<1>2. /\ len \in Nat /\ len <= take /\ (len > 0 => len <= n - skip) /\ (len = take \/ len >= n - skip)
      /\ len = take \/ len = AtLeast(n - skip, 0)
  <2> HIDE DEF n
  <2> QED BY <1>1 DEF AtMost, AtLeast
<1>3. items = [i \in 1..len |-> CHOOSE r \in rows : Rank(order, rows, r) = skip + i - 1]
    BY DEF Slice
<1> HIDE DEF len, n
<1>4. ASSUME NEW i \in 1..len
      PROVE  items[i] \in rows /\ Rank(order, rows, items[i]) = skip + i - 1
  <2>1. skip + i - 1 \in 0..(n - 1)
      BY <1>1, <1>2
  <2>2. \E r \in rows : Rank(order, rows, r) = skip + i - 1
      BY <2>1, RankCounts DEF n
  <2> QED BY <1>3, <2>2
<1>5. items \in [1..len -> rows]
    BY <1>3, <1>4
<1>6. items \in Seq(rows) /\ Len(items) = len /\ DOMAIN items = 1..len
    BY <1>2, <1>5
<1>7. ASSUME NEW r \in rows, skip <= Rank(order, rows, r), Rank(order, rows, r) < skip + take
      PROVE  \E i \in 1..len : items[i] = r
  <2> DEFINE k == Rank(order, rows, r) - skip + 1
  <2>1. Rank(order, rows, r) \in 0..(n - 1)
      BY RankCounts DEF n
  <2>2. k \in 1..len /\ skip + k - 1 = Rank(order, rows, r)
      BY <1>1, <1>2, <1>7, <2>1
  <2>3. Rank(order, rows, items[k]) = Rank(order, rows, r) /\ items[k] \in rows
      BY <1>4, <2>2
  <2>4. \A x, y \in rows : Rank(order, rows, x) = Rank(order, rows, y) => x = y
      BY RankCounts
  <2>5. items[k] = r
      BY <2>3, <2>4
  <2> QED BY <2>2, <2>5
<1>8. Len(items) = take \/ Len(items) = AtLeast(Cardinality(rows) - skip, 0)
    BY <1>2, <1>6 DEF n
<1> QED BY <1>2, <1>4, <1>6, <1>7, <1>8 DEF Sliced

-----------------------------------------------------------------------------
(* Where a walk stands.                                                    *)

(* Nothing was shown before a walk began; what a client should see is listed. *)
Still ==
    /\ walk = None => /\ page = <<>> /\ cursors = {} /\ seen = {} /\ twice = {}
                      /\ stood = {} /\ ~broken
    /\ walk # None => \A r \in stood : Listed(walk.ask, r)
    /\ page \in Seq(Rows) /\ seen \subseteq Rows
    /\ broken \in BOOLEAN /\ moved \in BOOLEAN

(* A cursor parts the rows that were shown from those that are still to come. *)
ServicePosition ==
    /\ twice = {} /\ seen \intersect cursors = {}
    /\ walk.state = "walking" /\ walk.next = None => seen = {} /\ cursors = {}
    /\ walk.state = "walking" /\ walk.next # None =>
        /\ walk.next \in cursors
        /\ \A r \in seen \union (cursors \ {walk.next}) : Before(walk.ask.list.order, r, walk.next)
    /\ Cardinality(cursors) * ServiceLimit(walk.ask.limit) <= Cardinality(seen)
    /\ ~broken =>
        \A r \in stood \ (seen \union cursors) :
            /\ walk.state = "walking"
            /\ walk.next # None => Before(walk.ask.list.order, walk.next, r)

(* The builder's cursor is the last row shown, so the rest is at it or behind. *)
BuilderPosition ==
    ~broken =>
        \A r \in stood \ seen :
            /\ walk.state = "walking"
            /\ walk.next # None => ~Before(walk.ask.list.order, r, walk.next)

(* How many pages of rows were read through page numbers. *)
PagesRead == IF "count" \in walk.due /\ "items" \notin walk.due THEN walk.next ELSE walk.next - 1

(* On a table at rest: the pages read are the first rows of the list. *)
OffsetPosition ==
    LET rows == {r \in Rows : Listed(walk.ask, r)}
        limit == OffsetLimit(walk.ask)
    IN /\ walk.next \in Nat \ {0}
       /\ walk.state = "done" => walk.due = {} /\ walk.next > 1
       /\ ~moved =>
            /\ stood = rows /\ twice = {}
            /\ seen = {r \in rows : Rank(walk.ask.list.order, rows, r) < PagesRead * limit}
            /\ walk.due = {"items"} \/ (walk.due = {} /\ walk.next > 1) => walk.total = Cardinality(rows)
            /\ walk.state = "done" => TotalPages(walk.total, limit) <= walk.next - 1

(* Whatever a helper shows, its where clause selects. *)
PageSelected ==
    walk # None /\ walk.ask.scheme # "service" =>
        \A i \in DOMAIN page :
            Selects(Received(walk.ask.asked), Permitted(walk.ask), Attributes[page[i]])

WalkInv ==
    /\ TypeOK /\ Still /\ PageSelected
    /\ Walked("service") => ServicePosition
    /\ Walked("builder") => BuilderPosition
    /\ Walked("offset") => OffsetPosition

(* The first k rows of a page. *)
Shown(items, k) == {items[i] : i \in 1..k}

(* The rows of a page without the row read ahead, and that row.             *)
LEMMA PageEnds ==
    ASSUME NEW S, NEW items \in Seq(S), items # <<>>
    PROVE  /\ Front(items) \in Seq(S) /\ Len(Front(items)) = Len(items) - 1
           /\ ToSet(Front(items)) = Shown(items, Len(items) - 1)
           /\ Last(items) = items[Len(items)]
<1> DEFINE limit == Len(items) - 1
<1>1. Front(items) = SubSeq(items, 1, limit)
    BY DEF Front
<1>2. limit \in Nat /\ Len(items) \in Nat /\ Len(items) = limit + 1
    BY SMT
<1> HIDE DEF limit
<1>3. \A i \in 1..limit : i \in 1..Len(items)
    BY <1>2, SMT
<1>4. Front(items) \in Seq(S) /\ Len(Front(items)) = limit /\ \A i \in 1..limit : Front(items)[i] = items[i]
    BY <1>1, <1>2, <1>3, SMT
<1>5. DOMAIN Front(items) = 1..limit
    BY <1>4
<1>6. ToSet(Front(items)) = Shown(items, limit)
    BY <1>4, <1>5 DEF ToSet, Shown
<1> QED BY <1>4, <1>6 DEF Last, limit

(* The first rows of a slice are as many as they are told to be.            *)
LEMMA SliceCounts ==
    ASSUME NEW order, NEW rows, NEW skip \in Nat, NEW take \in Nat, NEW limit \in Nat,
           NEW items, Sliced(order, rows, skip, take, items), limit <= Len(items)
    PROVE  IsFiniteSet(Shown(items, limit)) /\ Cardinality(Shown(items, limit)) = limit
<1> DEFINE f == [i \in 1..limit |-> items[i]]
<1>1. Len(items) \in Nat /\ \A i \in 1..Len(items) : Rank(order, rows, items[i]) = skip + i - 1
    BY DEF Sliced
<1>2. \A i \in 1..limit : i \in 1..Len(items)
    BY <1>1
<1>3. \A i, j \in 1..limit : items[i] = items[j] => i = j
  <2> SUFFICES ASSUME NEW i \in 1..limit, NEW j \in 1..limit, items[i] = items[j]
               PROVE  i = j
      OBVIOUS
  <2>1. skip + i - 1 = skip + j - 1
      BY <1>1, <1>2
  <2> QED BY <2>1
<1>4. f \in Bijection(1..limit, Shown(items, limit))
  <2>1. f \in [1..limit -> Shown(items, limit)]
      BY DEF Shown
  <2>2. \A x \in Shown(items, limit) : \E i \in 1..limit : f[i] = x
      BY DEF Shown
  <2>3. \A i, j \in 1..limit : f[i] = f[j] => i = j
      BY <1>3
  <2> HIDE DEF f
  <2> QED BY <2>1, <2>2, <2>3 DEF Bijection, Injection, Surjection, IsInjective
<1>5. IsFiniteSet(1..limit) /\ Cardinality(1..limit) = limit
    BY FS_Interval
<1>6. ExistsBijection(1..limit, Shown(items, limit))
    BY <1>4 DEF ExistsBijection
<1> QED BY <1>5, <1>6, FS_Bijection

(* What the clients of the three schemes may ask for, and the limits of     *)
(* their pages: at least one row, and as many as they ask for if they may.  *)
LEMMA AskedLimits ==
    ASSUME NEW ask \in Ask
    PROVE  /\ ask.scheme \in {"service", "builder", "offset"}
           /\ ask.scheme = "service" =>
                /\ ServiceLimit(ask.limit) \in 1..MaxLimit
                /\ ask.limit \in 1..MaxLimit => ServiceLimit(ask.limit) = ask.limit
           /\ ask.scheme = "builder" =>
                /\ BuilderLimit(ask.limit) \in 1..MaxLimit
                /\ ask.limit \in 1..MaxLimit => BuilderLimit(ask.limit) = ask.limit
           /\ ask.scheme = "offset" =>
                /\ OffsetLimit(ask) \in 1..MaxLimit
                /\ ask.limit \in 1..MaxLimit => OffsetLimit(ask) = ask.limit
<1> USE ListsAssumption, HelpersAssumption DEF MaxLimit, DefaultLimit
<1>1. CASE ask.scheme = "service"
  <2>1. ask.limit \in 1..50 \/ ask.limit = None
      BY <1>1 DEF Ask
  <2> QED BY <1>1, <2>1 DEF ServiceLimit
<1>2. CASE ask.scheme = "builder"
  <2>1. ask.limit \in Nat \/ ask.limit = None
      BY <1>2 DEF Ask
  <2> QED BY <1>2, <2>1 DEF BuilderLimit, AtMost
<1>3. CASE ask.scheme = "offset"
  <2>1. ask.limit \in Nat \/ ask.limit = None
      BY <1>3 DEF Ask
  <2>2. ask.helper \in {"builder", "fluent", "paginate"}
      BY <1>3 DEF Ask
  <2>3. CASE ask.helper = "builder"
      BY <1>3, <2>1, <2>3 DEF OffsetLimit, BuilderLimit, AtMost
  <2>4. CASE ask.helper = "fluent"
      BY <1>3, <2>1, <2>4 DEF OffsetLimit, FluentLimit, AtMost, AtLeast
  <2>5. CASE ask.helper = "paginate"
      BY <1>3, <2>1, <2>5 DEF OffsetLimit, PaginateLimit, AtMost, AtLeast
  <2> QED BY <2>2, <2>3, <2>4, <2>5
<1>4. ask.scheme \in {"service", "builder", "offset"}
    BY DEF Ask
<1> QED BY <1>1, <1>2, <1>3, <1>4

(* What a page of limit rows and one row read ahead say of the rows of a    *)
(* query: a short page has all that were not skipped, a full one has those  *)
(* before the row read ahead.                                               *)
Paged(order, rows, skip, limit, items) ==
    /\ items \in Seq(rows) /\ Len(items) \in Nat
    /\ \A r \in ToSet(items) : r \in rows /\ skip <= Rank(order, rows, r)
    /\ Len(items) <= limit => \A r \in rows : skip <= Rank(order, rows, r) => r \in ToSet(items)
    /\ Len(items) > limit =>
        /\ Front(items) \in Seq(rows) /\ Len(Front(items)) = limit
        /\ ToSet(Front(items)) \in SUBSET ToSet(items)
        /\ IsFiniteSet(ToSet(Front(items))) /\ Cardinality(ToSet(Front(items))) = limit
        /\ Last(items) \in ToSet(items)
        /\ \A r \in ToSet(Front(items)) : Before(order, r, Last(items))
        /\ \A r \in rows : skip <= Rank(order, rows, r) /\ Before(order, r, Last(items))
                              => r \in ToSet(Front(items))
        /\ items[Len(items) - 1] \in ToSet(Front(items))
        /\ \A r \in rows : skip <= Rank(order, rows, r) /\ Before(order, r, items[Len(items) - 1])
                              => r \in ToSet(Front(items))

LEMMA PageHolds ==
    ASSUME NEW order, NEW rows \in SUBSET Rows, NEW skip \in Nat, NEW limit \in Nat \ {0},
           NEW items, items = Slice(order, rows, skip, limit + 1)
    PROVE  Paged(order, rows, skip, limit, items)
<1> DEFINE rank(r) == Rank(order, rows, r)
           n == Cardinality(rows)
           last == Last(items)
           cursor == items[Len(items) - 1]
           shown == ToSet(Front(items))
<1>1. Sliced(order, rows, skip, limit + 1, items)
    BY SliceHolds
<1>2. /\ items \in Seq(rows) /\ Len(items) \in Nat /\ Len(items) <= limit + 1
      /\ DOMAIN items = 1..Len(items)
      /\ Len(items) = limit + 1 \/ Len(items) = AtLeast(n - skip, 0)
    BY <1>1 DEF Sliced
<1>3. \A i \in 1..Len(items) : items[i] \in rows /\ rank(items[i]) = skip + i - 1
    BY <1>1 DEF Sliced
<1>4. \A r \in rows : skip <= rank(r) /\ rank(r) < skip + limit + 1 => \E i \in 1..Len(items) : items[i] = r
    BY <1>1 DEF Sliced
<1>5. \A r \in rows : rank(r) \in 0..(n - 1)
    BY RankCounts
<1>6. n \in Nat
    BY RowsFinite
<1>7. \A r, s \in rows : Before(order, r, s) <=> rank(r) < rank(s)
    BY RankCounts
<1> HIDE DEF rank, n
<1>8. \A r \in ToSet(items) : r \in rows /\ skip <= rank(r)
    BY <1>2, <1>3 DEF ToSet
<1>9. ASSUME Len(items) <= limit, NEW r \in rows, skip <= rank(r)
      PROVE  r \in ToSet(items)
  <2>1. Len(items) = AtLeast(n - skip, 0)
      BY <1>2, <1>9
  <2>2. rank(r) < skip + limit + 1
      BY <1>2, <1>5, <1>6, <1>9, <2>1 DEF AtLeast
  <2> QED BY <1>2, <1>4, <1>9, <2>2 DEF ToSet
<1>10. ASSUME Len(items) > limit
       PROVE  /\ Front(items) \in Seq(rows) /\ Len(Front(items)) = limit
              /\ shown \in SUBSET ToSet(items)
              /\ IsFiniteSet(shown) /\ Cardinality(shown) = limit
              /\ last \in ToSet(items)
              /\ \A r \in shown : Before(order, r, last)
              /\ \A r \in rows : skip <= rank(r) /\ Before(order, r, last) => r \in shown
              /\ cursor \in shown
              /\ \A r \in rows : skip <= rank(r) /\ Before(order, r, cursor) => r \in shown
  <2>1. Len(items) = limit + 1 /\ limit \in Nat /\ limit >= 1
      BY <1>2, <1>10
  <2>2. /\ Front(items) \in Seq(rows) /\ Len(Front(items)) = limit
        /\ shown = Shown(items, limit)
        /\ last = items[limit + 1]
    <3>1. items # <<>> /\ Len(items) - 1 = limit
        BY <2>1
    <3> QED BY <1>2, <2>1, <3>1, PageEnds
  <2>3. /\ limit + 1 \in 1..Len(items) /\ limit \in 1..limit
        /\ \A i \in 1..limit : i \in 1..Len(items)
      BY <2>1
  <2>4. cursor = items[limit] /\ cursor \in shown
      BY <2>1, <2>2, <2>3 DEF Shown
  <2>5. IsFiniteSet(shown) /\ Cardinality(shown) = limit
    <3>1. limit <= Len(items) /\ limit + 1 \in Nat
        BY <2>1
    <3>2. IsFiniteSet(Shown(items, limit)) /\ Cardinality(Shown(items, limit)) = limit
        BY <1>1, <2>1, <3>1, SliceCounts
    <3> QED BY <2>2, <3>2
  <2>6. last \in rows /\ rank(last) = skip + limit /\ last \in ToSet(items)
      BY <1>2, <1>3, <2>1, <2>2, <2>3 DEF ToSet
  <2>7. cursor \in rows /\ rank(cursor) = skip + limit - 1
      BY <1>3, <2>1, <2>3, <2>4
  <2>8. shown \in SUBSET ToSet(items)
      BY <1>2, <2>2, <2>3 DEF ToSet, Shown
  <2> HIDE DEF last, cursor, shown
  <2>9. ASSUME NEW r \in shown
        PROVE  Before(order, r, last)
    <3>1. PICK i \in 1..limit : r = items[i]
        BY <2>2 DEF Shown
    <3>2. r \in rows /\ rank(r) = skip + i - 1
        BY <1>3, <2>3, <3>1
    <3>3. rank(r) < rank(last)
        BY <2>1, <2>6, <3>2
    <3> QED BY <1>7, <2>6, <3>2, <3>3
  <2>10. ASSUME NEW r \in rows, skip <= rank(r), rank(r) < skip + limit
         PROVE  r \in shown
    <3>1. rank(r) \in Nat
        BY <1>5, <1>6
    <3>2. rank(r) < skip + limit + 1
        BY <2>1, <2>10, <3>1
    <3>3. PICK i \in 1..Len(items) : items[i] = r
        BY <1>4, <2>10, <3>2
    <3>4. rank(r) = skip + i - 1
        BY <1>3, <3>3
    <3>5. i \in 1..limit
        BY <2>1, <2>10, <3>4
    <3> QED BY <2>2, <3>3, <3>5 DEF Shown
  <2>11. ASSUME NEW r \in rows, skip <= rank(r), Before(order, r, last)
         PROVE  r \in shown
    <3>1. rank(r) < rank(last)
        BY <1>7, <2>6, <2>11
    <3> QED BY <2>6, <2>10, <2>11, <3>1
  <2>12. ASSUME NEW r \in rows, skip <= rank(r), Before(order, r, cursor)
         PROVE  r \in shown
    <3>1. rank(r) < rank(cursor) /\ rank(r) \in Nat
        BY <1>5, <1>6, <1>7, <2>7, <2>12
    <3>2. rank(r) < skip + limit
        BY <2>1, <2>7, <3>1
    <3> QED BY <2>10, <2>12, <3>2
  <2> QED BY <2>2, <2>4, <2>5, <2>6, <2>8, <2>9, <2>11, <2>12
<1> QED BY <1>2, <1>8, <1>9, <1>10 DEF Paged, rank

-----------------------------------------------------------------------------
(* What steps have in common. *)

(* A page that is not longer than its limit keeps the types, and the rest   *)
(* of the walk goes on from where it says.                                  *)
LEMMA ReceiveFrame ==
    ASSUME TypeOK, Still, walk # None, walk.state = "walking",
           NEW items \in Seq(Rows), NEW next \in Rows \union {None}, Receive(items, next),
           Len(items) <= MaxLimit,
           walk.ask.limit \in 1..MaxLimit => Len(items) <= walk.ask.limit
    PROVE  /\ TypeOK' /\ Still'
           /\ walk' \in Walk /\ walk' # None
           /\ walk'.ask = walk.ask /\ walk'.next = next
           /\ walk'.state = IF next = None THEN "done" ELSE "walking"
<1>1. walk \in Walk /\ next \in Nat \union {None}
    BY ListsAssumption DEF TypeOK, Rows
<1>2. walk' = [walk EXCEPT !.next = next, !.state = IF next = None THEN "done" ELSE @]
    BY DEF Receive
<1>3. /\ walk' \in Walk /\ walk'.ask = walk.ask /\ walk'.next = next
      /\ walk'.state = IF next = None THEN "done" ELSE "walking"
    BY <1>1, <1>2 DEF Walk
<1>4. walk' # None
    BY <1>3, WalkAssumption
<1>5. ToSet(items) \subseteq Rows
    BY DEF ToSet
<1>6. /\ page' = items /\ seen' = seen \union ToSet(items)
      /\ twice' = twice \union (seen \intersect ToSet(items))
      /\ cursors' = cursors \union ({next} \ {None})
      /\ UNCHANGED <<stored, hidden, used, stood, moved>>
      /\ broken' \in BOOLEAN
    BY DEF Receive, Turn, tableVars
<1>7. TypeOK'
    BY <1>3, <1>5, <1>6 DEF TypeOK
<1>8. Still'
  <2>1. \A r \in stood' : Listed(walk.ask, r)'
      BY <1>3, <1>6 DEF Still, Listed
  <2> QED BY <1>4, <1>5, <1>6, <2>1 DEF Still
<1> QED BY <1>3, <1>4, <1>7, <1>8

(* A change of the table leaves the walk alone, but for the rows that the   *)
(* client can no longer be expected to see.                                 *)
LEMMA TableFrame ==
    ASSUME TypeOK, Still, TableStep,
           stored' \subseteq used', used' \subseteq Rows, hidden' \subseteq stored'
    PROVE  /\ TypeOK' /\ Still'
           /\ walk # None /\ walk.state = "walking" /\ moved'
           /\ UNCHANGED <<walk, page, cursors, seen, twice, broken>>
           /\ stood' \subseteq stood
<1>1. /\ walk # None /\ walk.state = "walking" /\ moved' = TRUE
      /\ UNCHANGED <<walk, page, cursors, seen, twice, broken>>
      /\ stood' = {r \in stood : Listed(walk.ask, r)'}
    BY DEF TableStep, walkVars
<1>2. TypeOK'
    BY <1>1 DEF TypeOK
<1>3. Still'
    BY <1>1 DEF Still
<1> QED BY <1>1, <1>2, <1>3

LEMMA InsertTyped ==
    ASSUME TypeOK, NEW r \in Rows, Insert(r)
    PROVE  TableStep /\ stored' \subseteq used' /\ used' \subseteq Rows /\ hidden' \subseteq stored'
BY DEF TypeOK, Insert

LEMMA DeleteTyped ==
    ASSUME TypeOK, NEW r \in Rows, Delete(r)
    PROVE  TableStep /\ stored' \subseteq used' /\ used' \subseteq Rows /\ hidden' \subseteq stored'
BY DEF TypeOK, Delete

LEMMA FlipTyped ==
    ASSUME TypeOK, NEW r \in Rows, Flip(r)
    PROVE  TableStep /\ stored' \subseteq used' /\ used' \subseteq Rows /\ hidden' \subseteq stored'
BY DEF TypeOK, Flip

(* So does each of these changes keep whatever a walk has reached.          *)
LEMMA TableKeeps ==
    ASSUME WalkInv, NEW r \in Rows, Insert(r) \/ Delete(r) \/ Flip(r)
    PROVE  WalkInv'
<1>1. TypeOK /\ Still
    BY DEF WalkInv
<1>2. TableStep /\ stored' \subseteq used' /\ used' \subseteq Rows /\ hidden' \subseteq stored'
    BY <1>1, InsertTyped, DeleteTyped, FlipTyped
<1>3. /\ TypeOK' /\ Still'
      /\ walk # None /\ walk.state = "walking" /\ moved'
      /\ UNCHANGED <<walk, page, cursors, seen, twice, broken>>
      /\ stood' \subseteq stood
    BY <1>1, <1>2, TableFrame
<1>4. PageSelected'
    BY <1>3 DEF WalkInv, PageSelected
<1>5. Walked("service")' => ServicePosition'
  <2> SUFFICES ASSUME Walked("service") PROVE ServicePosition'
      BY <1>3 DEF Walked
  <2>1. ServicePosition
      BY DEF WalkInv
  <2> QED BY <1>3, <2>1 DEF ServicePosition
<1>6. Walked("builder")' => BuilderPosition'
  <2> SUFFICES ASSUME Walked("builder") PROVE BuilderPosition'
      BY <1>3 DEF Walked
  <2>1. BuilderPosition
      BY DEF WalkInv
  <2> QED BY <1>3, <2>1 DEF BuilderPosition
<1>7. Walked("offset")' => OffsetPosition'
  <2> SUFFICES ASSUME Walked("offset") PROVE OffsetPosition'
      BY <1>3 DEF Walked
  <2>1. OffsetPosition
      BY DEF WalkInv
  <2> QED BY <1>3, <2>1 DEF OffsetPosition
<1> QED BY <1>3, <1>4, <1>5, <1>6, <1>7 DEF WalkInv

LEMMA InitHolds == Init => WalkInv
<1> SUFFICES ASSUME Init PROVE WalkInv
    OBVIOUS
<1>1. TypeOK
    BY DEF Init, TypeOK, MaxLimit
<1>2. Still
  <2>1. page \in Seq(Rows) /\ seen \subseteq Rows
      BY DEF Init
  <2>2. broken \in BOOLEAN /\ moved \in BOOLEAN /\ ~broken
      BY DEF Init
  <2>3. walk = None /\ page = <<>> /\ cursors = {} /\ seen = {} /\ twice = {} /\ stood = {}
      BY DEF Init
  <2> QED BY <2>1, <2>2, <2>3 DEF Still
<1>3. PageSelected /\ ~Walked("service") /\ ~Walked("builder") /\ ~Walked("offset")
    BY DEF Init, PageSelected, Walked
<1> QED BY <1>1, <1>2, <1>3 DEF WalkInv

(* A walk begins before the first page, with nothing seen.                  *)
LEMMA BeginKeeps ==
    ASSUME WalkInv, NEW ask \in Ask, Begin(ask)
    PROVE  WalkInv'
<1>1. TypeOK /\ Still
    BY DEF WalkInv
<1>2. /\ walk = None
      /\ walk' = [ask |-> ask, state |-> "walking", next |-> IF ask.scheme = "offset" THEN 1 ELSE None,
                  due |-> {}, total |-> 0]
      /\ stood' = {r \in Rows : Listed(ask, r)}
      /\ moved' = FALSE
      /\ UNCHANGED <<stored, hidden, used, page, cursors, seen, twice, broken>>
    BY DEF Begin, tableVars
<1>3. /\ walk' \in Walk /\ walk'.ask = ask /\ walk'.state = "walking" /\ walk'.due = {}
      /\ walk'.next = IF ask.scheme = "offset" THEN 1 ELSE None
    BY <1>2 DEF Walk
<1>4. walk' # None
    BY <1>3, WalkAssumption
<1>5. page = <<>> /\ cursors = {} /\ seen = {} /\ twice = {} /\ ~broken
    BY <1>1, <1>2 DEF Still
<1>6. TypeOK'
  <2>1. /\ stored' \subseteq used' /\ used' \subseteq Rows /\ hidden' \subseteq stored'
        /\ cursors' \union stood' \union twice' \subseteq Rows /\ twice' \subseteq seen'
      BY <1>1, <1>2, <1>5 DEF TypeOK
  <2>2. Len(page') = 0
      BY <1>2, <1>5
  <2>3. Len(page') <= MaxLimit
      BY <2>2 DEF MaxLimit
  <2>4. walk'.ask.limit \in 1..MaxLimit => Len(page') <= walk'.ask.limit
    <3>1. \A n \in 1..MaxLimit : 0 <= n
        BY DEF MaxLimit
    <3> QED BY <2>2, <3>1
  <2> QED BY <1>3, <2>1, <2>3, <2>4 DEF TypeOK
<1>7. Still'
  <2>1. \A r \in stood' : Listed(walk.ask, r)'
      BY <1>2, <1>3 DEF Listed
  <2> QED BY <1>1, <1>2, <1>4, <2>1 DEF Still
<1>8. PageSelected'
    BY <1>2, <1>5 DEF PageSelected
<1>9. Walked("service")' => ServicePosition'
  <2> SUFFICES ASSUME Walked("service")' PROVE ServicePosition'
      OBVIOUS
  <2>1. ask.scheme = "service"
      BY <1>3 DEF Walked
  <2>2. ServiceLimit(ask.limit) \in 1..MaxLimit
      BY <2>1, AskedLimits
  <2>3. Cardinality({}) * ServiceLimit(ask.limit) <= Cardinality({})
      BY <2>2, FS_EmptySet DEF MaxLimit
  <2> QED BY <1>2, <1>3, <1>5, <2>1, <2>3 DEF ServicePosition
<1>10. Walked("builder")' => BuilderPosition'
    BY <1>3, <1>5 DEF Walked, BuilderPosition
<1>11. Walked("offset")' => OffsetPosition'
  <2> SUFFICES ASSUME Walked("offset")' PROVE OffsetPosition'
      OBVIOUS
  <2> DEFINE rows == {r \in Rows : Listed(ask, r)}
             limit == OffsetLimit(ask)
  <2>1. ask.scheme = "offset" /\ walk'.next = 1
      BY <1>3 DEF Walked
  <2>2. limit \in Nat
      BY <2>1, AskedLimits DEF MaxLimit
  <2>3. \A r \in rows : Rank(ask.list.order, rows, r) \in Nat
    <3>1. rows \in SUBSET Rows
        OBVIOUS
    <3> HIDE DEF rows
    <3> QED BY <3>1, RankNat
  <2>4. PagesRead' = 0
      BY <1>3, <2>1 DEF PagesRead
  <2>5. {r \in rows : Rank(ask.list.order, rows, r) < 0 * limit} = {}
    <3> HIDE DEF rows, limit
    <3> QED BY <2>2, <2>3
  <2>6. {r \in Rows : Listed(walk.ask, r)}' = rows
      BY <1>2, <1>3 DEF Listed
  <2>7. OffsetLimit(walk.ask)' = limit
      BY <1>3
  <2> HIDE DEF rows, limit
  <2>8. stood' = rows
      BY <1>2 DEF rows
  <2>9. seen' = {r \in rows : Rank(walk'.ask.list.order, rows, r) < PagesRead' * limit}
      BY <1>2, <1>3, <1>5, <2>4, <2>5
  <2>10. twice' = {}
      BY <1>2, <1>5
  <2>11. walk'.next \in Nat \ {0}
      BY <2>1
  <2> QED BY <1>3, <2>1, <2>6, <2>7, <2>8, <2>9, <2>10, <2>11 DEF OffsetPosition
<1> QED BY <1>6, <1>7, <1>8, <1>9, <1>10, <1>11 DEF WalkInv

-----------------------------------------------------------------------------
(* The lists of the services. *)

(* A page of a service keeps where its walk stands: it shows no row before  *)
(* the cursor it was asked with, nor the row of any cursor.                 *)
LEMMA ServiceKeeps ==
    ASSUME WalkInv, ServicePage
    PROVE  WalkInv'
<1> DEFINE order == walk.ask.list.order
           next == walk.next
           rows == Reachable(walk.ask, next)
           skip == IF next = None THEN 0 ELSE 1
           limit == ServiceLimit(walk.ask.limit)
           items == ServiceRows(limit)
<1>1. TypeOK /\ Still /\ PageSelected
    BY DEF WalkInv
<1>2. walk # None /\ walk.ask.scheme = "service" /\ walk.state = "walking" /\ ServiceAnswer(items, limit)
    BY DEF ServicePage, InWalk
<1>3. ServicePosition
    BY <1>2 DEF WalkInv, Walked
<1>4. walk \in Walk /\ walk.ask \in Ask
    BY <1>1, <1>2 DEF TypeOK, Walk
<1>5. /\ limit \in 1..MaxLimit /\ limit \in Nat \ {0}
      /\ walk.ask.limit \in 1..MaxLimit => limit = walk.ask.limit
    BY <1>2, <1>4, AskedLimits DEF MaxLimit
<1>6. /\ rows \in SUBSET Rows
      /\ \A r \in rows : Listed(walk.ask, r) /\ (next # None => ~Before(order, r, next))
    BY DEF Reachable
<1>7. next # None => next \in Rows
    BY <1>1, <1>2, <1>3 DEF ServicePosition, TypeOK
<1>8. Paged(order, rows, skip, limit, items)
  <2>1. items = Slice(order, rows, skip, limit + 1)
      BY DEF ServiceRows, FindMany
  <2>2. skip \in Nat
      OBVIOUS
  <2> HIDE DEF order, rows, skip, limit, items
  <2> QED BY <1>5, <1>6, <2>1, <2>2, PageHolds
<1>9. \A r \in stood : Listed(walk.ask, r) /\ r \in Rows
    BY <1>1, <1>2 DEF Still, TypeOK
<1>10. \A r \in Rows : Listed(walk.ask, r) /\ (next # None => next \in stored /\ ~Before(order, r, next)) => r \in rows
    BY DEF Reachable
<1>11. \A r : Listed(walk.ask, r) => r \in stored
    BY DEF Listed
<1>12. \A r \in ToSet(items) : r \in rows /\ skip <= Rank(order, rows, r)
    BY <1>8 DEF Paged
<1>13. next = None => skip = 0
    OBVIOUS
<1>14. next # None => skip = 1
    OBVIOUS
<1> HIDE DEF rows, skip, limit, items
(* The row of the cursor comes first, and is skipped. *)
<1>15. ASSUME next # None, next \in rows
       PROVE  Rank(order, rows, next) = 0
  <2>1. {s \in rows : Before(order, s, next)} = {}
      BY <1>6, <1>15
  <2> QED BY <2>1, FS_EmptySet DEF Rank
<1>16. ASSUME NEW r \in ToSet(items)
       PROVE  r \in Rows /\ r \notin seen /\ r \notin cursors
  <2>1. r \in rows /\ r \in Rows /\ skip <= Rank(order, rows, r)
      BY <1>6, <1>12, <1>16
  <2>2. CASE next = None
      BY <1>2, <1>3, <2>1, <2>2 DEF ServicePosition
  <2>3. CASE next # None
    <3>1. ~Before(order, r, next)
        BY <1>6, <2>1, <2>3
    <3>2. r # next
        BY <1>14, <1>15, <2>1, <2>3
    <3> QED BY <1>2, <1>3, <2>1, <2>3, <3>1, <3>2 DEF ServicePosition
  <2> QED BY <2>2, <2>3
(* What the client should still see can be read, and is not skipped. *)
<1>17. ASSUME ~broken, next # None => Listed(walk.ask, next), NEW r \in stood \ (seen \union cursors)
       PROVE  r \in rows /\ skip <= Rank(order, rows, r)
  <2>1. r \in Rows /\ Listed(walk.ask, r)
      BY <1>9
  <2>2. Rank(order, rows, r) \in Nat
      BY <1>6, RankNat
  <2>3. CASE next = None
      BY <1>10, <1>13, <2>1, <2>2, <2>3
  <2>4. CASE next # None
    <3>1. Before(order, next, r)
        BY <1>3, <1>17, <2>4 DEF ServicePosition
    <3>2. ~Before(order, r, next) /\ ~Before(order, next, next)
        BY <1>7, <2>1, <2>4, <3>1, BeforeOrders
    <3>3. next \in rows /\ r \in rows
        BY <1>7, <1>10, <1>11, <1>17, <2>1, <2>4, <3>2
    <3>4. Rank(order, rows, next) < Rank(order, rows, r)
      <4>1. \A x, y \in rows : Before(order, x, y) <=> Rank(order, rows, x) < Rank(order, rows, y)
          BY <1>6, RankCounts
      <4> QED BY <3>1, <3>3, <4>1
    <3>5. Rank(order, rows, next) = 0
        BY <1>15, <2>4, <3>3
    <3> QED BY <1>14, <2>2, <2>4, <3>3, <3>4, <3>5
  <2> QED BY <2>3, <2>4
<1>18. IsFiniteSet(seen) /\ IsFiniteSet(cursors) /\ Cardinality(seen) \in Nat /\ Cardinality(cursors) \in Nat
    BY <1>1, RowsFinite DEF Still, TypeOK
<1>19. Cardinality(cursors) * limit <= Cardinality(seen)
    BY <1>2, <1>3 DEF ServicePosition, limit
<1>20. items \in Seq(rows) /\ items \in Seq(Rows) /\ Len(items) \in Nat
    BY <1>6, <1>8 DEF Paged
<1>21. CASE Len(items) > limit
  <2> DEFINE last == Last(items)
             shown == ToSet(Front(items))
  <2>1. Receive(Front(items), last)
      BY <1>2, <1>21 DEF ServiceAnswer
  <2>2. /\ Front(items) \in Seq(rows) /\ Len(Front(items)) = limit
        /\ shown \in SUBSET ToSet(items) /\ last \in ToSet(items)
        /\ IsFiniteSet(shown) /\ Cardinality(shown) = limit
        /\ \A r \in shown : Before(order, r, last)
        /\ \A r \in rows : skip <= Rank(order, rows, r) /\ Before(order, r, last) => r \in shown
      BY <1>8, <1>21 DEF Paged
  <2>3. /\ last \in Rows /\ last # None /\ last \notin seen /\ last \notin cursors
        /\ next # None => ~Before(order, last, next)
        /\ shown \subseteq Rows /\ shown \intersect cursors = {} /\ seen \intersect shown = {}
      BY <1>6, <1>12, <1>16, <2>2, ListsAssumption, HelpersAssumption DEF Rows
  <2>4. Front(items) \in Seq(Rows)
      BY <1>6, <2>2
  <2> HIDE DEF last
  <2>5. /\ TypeOK' /\ Still'
        /\ walk' # None /\ walk'.ask = walk.ask /\ walk'.next = last /\ walk'.state = "walking"
      BY <1>1, <1>2, <1>5, <2>1, <2>2, <2>3, <2>4, ReceiveFrame
  <2>6. /\ seen' = seen \union shown /\ cursors' = cursors \union {last}
        /\ twice' = {} /\ stood' = stood
        /\ broken' = (broken \/ (next # None /\ ~Listed(walk.ask, next)))
      BY <1>2, <1>3, <2>1, <2>3 DEF Receive, Turn, ServicePosition
  <2> HIDE DEF shown
  <2>7. last \notin shown
      BY <2>2, <2>3, BeforeOrders
  <2>8. seen' \intersect cursors' = {}
      BY <1>2, <1>3, <2>3, <2>6, <2>7 DEF ServicePosition
  <2>9. ASSUME NEW r \in seen' \union (cursors' \ {last})
        PROVE  Before(order, r, last)
    <3>1. CASE r \in shown
        BY <2>2, <3>1
    <3>2. CASE r \in seen \union cursors
      <4>1. next # None /\ next \in cursors
          BY <1>2, <1>3, <3>2 DEF ServicePosition
      <4>2. r = next \/ Before(order, r, next)
          BY <1>2, <1>3, <3>2, <4>1 DEF ServicePosition
      <4>3. last # next /\ next \in Rows /\ r \in Rows
          BY <1>1, <1>7, <2>3, <3>2, <4>1 DEF Still, TypeOK
      <4>4. Before(order, next, last)
          BY <2>3, <4>1, <4>3, BeforeOrders
      <4> QED BY <2>3, <4>2, <4>3, <4>4, BeforeOrders
    <3> QED BY <2>6, <3>1, <3>2
  <2>10. Cardinality(cursors') * limit <= Cardinality(seen')
    <3>1. Cardinality(cursors') = Cardinality(cursors) + 1
        BY <1>18, <2>3, <2>6, FS_AddElement
    <3>2. Cardinality(seen') = Cardinality(seen) + limit
      <4>1. Cardinality(seen') = Cardinality(seen) + limit - Cardinality(seen \intersect shown)
          BY <1>18, <2>2, <2>6, FS_Union
      <4>2. Cardinality(seen \intersect shown) = 0
          BY <2>3, FS_EmptySet
      <4> QED BY <1>5, <1>18, <4>1, <4>2
    <3>3. \A n, l \in Nat : (n + 1) * l = n * l + l
        OBVIOUS
    <3>4. \A n, l \in Nat : n * l \in Nat
        OBVIOUS
    <3>5. Cardinality(cursors') * limit = Cardinality(cursors) * limit + limit
        BY <1>5, <1>18, <3>1, <3>3
    <3>6. Cardinality(cursors) * limit \in Nat
        BY <1>5, <1>18, <3>4
    <3> QED BY <1>5, <1>18, <1>19, <3>2, <3>5, <3>6
  <2>11. ASSUME ~broken', NEW r \in stood' \ (seen' \union cursors')
         PROVE  Before(order, last, r)
    <3>1. ~broken /\ (next # None => Listed(walk.ask, next)) /\ r \in stood \ (seen \union cursors)
        BY <2>6, <2>11
    <3>2. r \in rows /\ skip <= Rank(order, rows, r) /\ r \in Rows
        BY <1>6, <1>17, <3>1
    <3>3. r # last /\ r \notin shown
        BY <2>6, <2>11
    <3>4. ~Before(order, r, last)
        BY <2>2, <3>2, <3>3
    <3> QED BY <2>3, <3>2, <3>3, <3>4, BeforeOrders
  <2>12. ServicePosition'
      BY <2>3, <2>5, <2>6, <2>8, <2>9, <2>10, <2>11 DEF ServicePosition, limit
  <2>13. PageSelected'
      BY <1>2, <2>5 DEF PageSelected
  <2> QED BY <1>2, <2>5, <2>12, <2>13 DEF WalkInv, Walked
<1>22. CASE ~(Len(items) > limit)
  <2> DEFINE shown == ToSet(items)
  <2>1. Receive(items, None)
      BY <1>2, <1>22 DEF ServiceAnswer
  <2>2. Len(items) <= limit
      BY <1>5, <1>20, <1>22
  <2>3. /\ shown \subseteq Rows /\ shown \intersect cursors = {} /\ seen \intersect shown = {}
        /\ \A r \in rows : skip <= Rank(order, rows, r) => r \in shown
      BY <1>8, <1>16, <2>2 DEF Paged
  <2>4. Len(items) <= MaxLimit /\ (walk.ask.limit \in 1..MaxLimit => Len(items) <= walk.ask.limit)
    <3>1. limit \in Nat /\ limit <= MaxLimit /\ MaxLimit \in Nat
        BY <1>5 DEF MaxLimit
    <3>2. Len(items) <= MaxLimit
        BY <1>20, <2>2, <3>1
    <3> QED BY <1>5, <2>2, <3>2
  <2>5. /\ TypeOK' /\ Still'
        /\ walk' # None /\ walk'.ask = walk.ask /\ walk'.next = None /\ walk'.state = "done"
      BY <1>1, <1>2, <1>20, <2>1, <2>4, ReceiveFrame
  <2>6. /\ seen' = seen \union shown /\ cursors' = cursors
        /\ twice' = {} /\ stood' = stood
        /\ broken' = (broken \/ (next # None /\ ~Listed(walk.ask, next)))
      BY <1>2, <1>3, <2>1, <2>3 DEF Receive, Turn, ServicePosition
  <2> HIDE DEF shown
  <2>7. seen' \intersect cursors' = {}
      BY <1>2, <1>3, <2>3, <2>6 DEF ServicePosition
  <2>8. Cardinality(cursors') * limit <= Cardinality(seen')
    <3>1. seen' \in SUBSET Rows /\ seen \in SUBSET seen'
        BY <2>5, <2>6 DEF Still
    <3>2. Cardinality(seen) <= Cardinality(seen') /\ Cardinality(seen') \in Nat
        BY <3>1, RowsFinite, FS_Subset
    <3>3. \A n, l \in Nat : n * l \in Nat
        OBVIOUS
    <3>4. Cardinality(cursors) * limit \in Nat
        BY <1>5, <1>18, <3>3
    <3> QED BY <1>18, <1>19, <2>6, <3>2, <3>4
  <2>9. ~broken' => stood' \ (seen' \union cursors') = {}
    <3> SUFFICES ASSUME ~broken', NEW r \in stood' \ (seen' \union cursors')
                 PROVE  FALSE
        OBVIOUS
    <3>1. ~broken /\ (next # None => Listed(walk.ask, next)) /\ r \in stood \ (seen \union cursors)
        BY <2>6
    <3>2. r \in shown
        BY <1>17, <2>3, <3>1
    <3> QED BY <2>6, <3>2
  <2>10. ServicePosition'
      BY <2>5, <2>6, <2>7, <2>8, <2>9 DEF ServicePosition, limit
  <2>11. PageSelected'
      BY <1>2, <2>5 DEF PageSelected
  <2> QED BY <1>2, <2>5, <2>10, <2>11 DEF WalkInv, Walked
<1> QED BY <1>21, <1>22

-----------------------------------------------------------------------------
(* The helpers. *)

(* The where clause is all that decides whether a helper lists a row.       *)
LEMMA ListedSelected ==
    ASSUME NEW ask, ask.scheme # "service", NEW r, Listed(ask, r)
    PROVE  Selects(Received(ask.asked), Permitted(ask), Attributes[r])
BY DEF Listed

(* A page of the builder: the rows at its cursor or behind, from the cursor's on. *)
LEMMA BuilderKeeps ==
    ASSUME WalkInv, BuilderPage
    PROVE  WalkInv'
<1> DEFINE order == walk.ask.list.order
           next == walk.next
           rows == Reachable(walk.ask, next)
           limit == BuilderLimit(walk.ask.limit)
           items == BuilderRows(limit)
<1>1. TypeOK /\ Still /\ PageSelected
    BY DEF WalkInv
<1>2. /\ walk # None /\ walk.ask.scheme = "builder" /\ walk.state = "walking"
      /\ Len(items) > limit => Receive(Front(items), BuilderCursor(items))
      /\ ~(Len(items) > limit) => Receive(items, None)
    BY DEF BuilderPage, InWalk
<1>3. BuilderPosition
    BY <1>2 DEF WalkInv, Walked
<1>4. walk \in Walk /\ walk.ask \in Ask
    BY <1>1, <1>2 DEF TypeOK, Walk
<1>5. /\ limit \in 1..MaxLimit /\ limit \in Nat \ {0}
      /\ walk.ask.limit \in 1..MaxLimit => limit = walk.ask.limit
  <2>1. limit \in 1..MaxLimit /\ (walk.ask.limit \in 1..MaxLimit => limit = walk.ask.limit)
      BY <1>2, <1>4, AskedLimits
  <2> HIDE DEF limit
  <2> QED BY <2>1 DEF MaxLimit
<1>6. /\ rows \in SUBSET Rows
      /\ \A r \in rows : Listed(walk.ask, r)
    BY DEF Reachable
<1>7. Paged(order, rows, 0, limit, items)
  <2>1. items = Slice(order, rows, 0, limit + 1) /\ 0 \in Nat
      BY DEF BuilderRows, FindMany
  <2> HIDE DEF order, rows, limit, items
  <2> QED BY <1>5, <1>6, <2>1, PageHolds
<1>8. \A r \in stood : Listed(walk.ask, r) /\ r \in Rows
    BY <1>1, <1>2 DEF Still, TypeOK
<1>9. \A r \in Rows : Listed(walk.ask, r) /\ (next # None => next \in stored /\ ~Before(order, r, next)) => r \in rows
    BY DEF Reachable
<1>10. \A r : Listed(walk.ask, r) => r \in stored
    BY DEF Listed
<1> HIDE DEF rows, limit, items
(* What the client should still see can be read. *)
<1>11. ASSUME ~broken, next # None => Listed(walk.ask, next), NEW r \in stood \ seen
       PROVE  r \in rows /\ 0 <= Rank(order, rows, r)
  <2>1. r \in Rows /\ Listed(walk.ask, r)
      BY <1>8
  <2>2. next # None => next \in stored /\ ~Before(order, r, next)
      BY <1>3, <1>10, <1>11 DEF BuilderPosition
  <2>3. r \in rows
      BY <1>9, <2>1, <2>2
  <2>4. Rank(order, rows, r) \in Nat
      BY <1>6, RankNat
  <2> QED BY <2>3, <2>4
<1>12. items \in Seq(rows) /\ items \in Seq(Rows) /\ Len(items) \in Nat
       /\ \A r \in ToSet(items) : r \in rows
    BY <1>6, <1>7 DEF Paged
<1>13. limit \in Nat /\ limit <= MaxLimit /\ MaxLimit \in Nat
    BY <1>5 DEF MaxLimit
(* Whatever is on the page is listed, and so selected. *)
<1>14. ASSUME NEW shown \in Seq(rows), walk' # None, walk'.ask = walk.ask, page' = shown
       PROVE  PageSelected'
  <2>1. \A i \in DOMAIN shown : shown[i] \in rows
      OBVIOUS
  <2>2. \A i \in DOMAIN shown : Selects(Received(walk.ask.asked), Permitted(walk.ask), Attributes[shown[i]])
      BY <1>2, <1>6, <2>1, ListedSelected
  <2> QED BY <1>14, <2>2 DEF PageSelected
<1>15. CASE Len(items) > limit
  <2> DEFINE cursor == BuilderCursor(items)
             shown == ToSet(Front(items))
  <2>1. Receive(Front(items), cursor)
      BY <1>2, <1>15
  <2>2. /\ Front(items) \in Seq(rows) /\ Len(Front(items)) = limit
        /\ shown \in SUBSET ToSet(items) /\ cursor \in shown
        /\ \A r \in rows : 0 <= Rank(order, rows, r) /\ Before(order, r, cursor) => r \in shown
      BY <1>7, <1>15 DEF Paged, BuilderCursor
  <2>3. cursor \in Rows /\ cursor # None /\ Front(items) \in Seq(Rows)
    <3>1. cursor \in rows
        BY <1>12, <2>2
    <3> HIDE DEF cursor
    <3>2. cursor \in Rows /\ Front(items) \in Seq(Rows)
        BY <1>6, <2>2, <3>1
    <3>3. cursor \in Int
        BY <3>2, ListsAssumption DEF Rows
    <3> QED BY <3>2, <3>3, HelpersAssumption
  <2> HIDE DEF cursor
  <2>4. /\ TypeOK' /\ Still'
        /\ walk' # None /\ walk'.ask = walk.ask /\ walk'.next = cursor /\ walk'.state = "walking"
      BY <1>1, <1>2, <1>5, <1>13, <2>1, <2>2, <2>3, ReceiveFrame
  <2>5. /\ seen' = seen \union shown /\ stood' = stood /\ page' = Front(items)
        /\ broken' = (broken \/ (next # None /\ ~Listed(walk.ask, next)))
      BY <2>1 DEF Receive, Turn
  <2> HIDE DEF shown
  <2>6. ASSUME ~broken', NEW r \in stood' \ seen'
        PROVE  ~Before(order, r, cursor)
    <3>1. ~broken /\ (next # None => Listed(walk.ask, next)) /\ r \in stood \ seen /\ r \notin shown
        BY <2>5, <2>6
    <3> QED BY <1>11, <2>2, <3>1
  <2>7. BuilderPosition'
      BY <2>4, <2>6 DEF BuilderPosition
  <2>8. PageSelected'
      BY <1>14, <2>2, <2>4, <2>5
  <2> QED BY <1>2, <2>4, <2>7, <2>8 DEF WalkInv, Walked
<1>16. CASE ~(Len(items) > limit)
  <2>1. Receive(items, None)
      BY <1>2, <1>16
  <2>2. Len(items) <= limit
      BY <1>12, <1>13, <1>16
  <2>3. \A r \in rows : 0 <= Rank(order, rows, r) => r \in ToSet(items)
      BY <1>7, <2>2 DEF Paged
  <2>4. Len(items) <= MaxLimit
      BY <1>12, <1>13, <2>2
  <2>5. /\ TypeOK' /\ Still'
        /\ walk' # None /\ walk'.ask = walk.ask /\ walk'.next = None /\ walk'.state = "done"
      BY <1>1, <1>2, <1>5, <1>12, <2>1, <2>2, <2>4, ReceiveFrame
  <2>6. /\ seen' = seen \union ToSet(items) /\ stood' = stood /\ page' = items
        /\ broken' = (broken \/ (next # None /\ ~Listed(walk.ask, next)))
      BY <2>1 DEF Receive, Turn
  <2>7. ~broken' => stood' \ seen' = {}
    <3> SUFFICES ASSUME ~broken', NEW r \in stood' \ seen'
                 PROVE  FALSE
        OBVIOUS
    <3>1. ~broken /\ (next # None => Listed(walk.ask, next)) /\ r \in stood \ seen
        BY <2>6
    <3>2. r \in ToSet(items)
        BY <1>11, <2>3, <3>1
    <3> QED BY <2>6, <3>2
  <2>8. BuilderPosition'
      BY <2>5, <2>7 DEF BuilderPosition
  <2>9. PageSelected'
      BY <1>12, <1>14, <2>5, <2>6
  <2> QED BY <1>2, <2>5, <2>8, <2>9 DEF WalkInv, Walked
<1> QED BY <1>15, <1>16

(* Math.ceil: that many pages hold the total, and so do more pages.         *)
LEMMA PagesHold ==
    ASSUME NEW total \in Nat, NEW limit \in Nat \ {0}
    PROVE  /\ TotalPages(total, limit) \in Int
           /\ \A p \in Nat : TotalPages(total, limit) <= p => total <= p * limit
<1> DEFINE q == TotalPages(total, limit)
<1>1. q \in Int /\ total + limit - 1 < q * limit + limit
    BY DEF TotalPages
<1> HIDE DEF q
<1>2. ASSUME NEW p \in Nat, q <= p
      PROVE  total <= p * limit
  <2>1. \A a, b \in Int, c \in Nat : a <= b => a * c <= b * c
      OBVIOUS
  <2>2. q * limit <= p * limit
      BY <1>1, <1>2, <2>1
  <2>3. q * limit \in Int /\ p * limit \in Int
      BY <1>1
  <2> QED BY <1>1, <2>2, <2>3
<1> QED BY <1>1, <1>2 DEF q

(* One of the two queries of a page is answered.                            *)
LEMMA ProgressFrame ==
    ASSUME walk \in Walk, walk # None, walk.ask.scheme = "offset", walk.state = "walking",
           walk.next \in Nat \ {0},
           NEW due \in SUBSET {"count", "items"}, NEW total \in Nat, OffsetProgress(due, total)
    PROVE  /\ walk' \in Walk /\ walk' # None /\ walk'.ask = walk.ask
           /\ walk'.due = due /\ walk'.total = total
           /\ walk'.next = IF due = {} THEN walk.next + 1 ELSE walk.next
           /\ walk'.state = "done" \/ walk'.state = "walking"
           /\ walk'.state = "done" => due = {} /\ TotalPages(total, OffsetLimit(walk.ask)) <= walk.next
           /\ UNCHANGED <<stored, hidden, used, cursors, stood, broken, moved>>
<1> DEFINE limit == OffsetLimit(walk.ask)
           more == walk.next < TotalPages(total, limit)
<1>1. PageNumber(walk.next) = walk.next
    BY HelpersAssumption DEF PageNumber, AtLeast
<1>2. Metadata(total, PageNumber(walk.next), limit).hasNextPage <=> more
    BY <1>1 DEF Metadata
<1>3. UNCHANGED <<stored, hidden, used, cursors, stood, broken, moved>>
    BY DEF OffsetProgress, tableVars
<1>4. limit \in 1..MaxLimit
    BY AskedLimits DEF Walk
<1>5. limit \in Nat \ {0}
  <2> HIDE DEF limit
  <2> QED BY <1>4 DEF MaxLimit
<1>6. TotalPages(total, limit) \in Int
    BY <1>5, PagesHold
<1>7. ~more => TotalPages(total, limit) <= walk.next
  <2> HIDE DEF limit
  <2> QED BY <1>6
<1>8. walk' = [walk EXCEPT !.due = due, !.total = total,
                  !.next = IF due = {} THEN walk.next + 1 ELSE walk.next,
                  !.state = IF due = {} /\ ~more THEN "done" ELSE "walking"]
  <2>1. walk' = [walk EXCEPT !.due = due, !.total = total,
                    !.next = IF due = {} THEN walk.next + 1 ELSE @,
                    !.state = IF due = {} /\ ~Metadata(total, PageNumber(walk.next), limit).hasNextPage
                              THEN "done" ELSE @]
      BY DEF OffsetProgress
  <2> HIDE DEF more, limit
  <2> QED BY <1>2, <2>1
<1> HIDE DEF more
<1>9. (IF due = {} THEN walk.next + 1 ELSE walk.next) \in Nat
    OBVIOUS
<1>10. /\ walk' \in Walk /\ walk'.ask = walk.ask
       /\ walk'.due = due /\ walk'.total = total
       /\ walk'.next = IF due = {} THEN walk.next + 1 ELSE walk.next
       /\ walk'.state = IF due = {} /\ ~more THEN "done" ELSE "walking"
    BY <1>8, <1>9 DEF Walk
<1>11. walk' # None
    BY <1>10, WalkAssumption
<1> QED BY <1>3, <1>7, <1>10, <1>11

(* Sending the queries of a page tells nothing yet.                         *)
LEMMA RequestKeeps ==
    ASSUME WalkInv, OffsetRequest
    PROVE  WalkInv'
<1>1. TypeOK /\ Still /\ PageSelected
    BY DEF WalkInv
<1>2. /\ walk # None /\ walk.ask.scheme = "offset" /\ walk.state = "walking" /\ walk.due = {}
      /\ walk' = [walk EXCEPT !.due = {"count", "items"}]
      /\ UNCHANGED <<stored, hidden, used, page, cursors, seen, twice, stood, broken, moved>>
    BY DEF OffsetRequest, InWalk, tableVars
<1>3. OffsetPosition
    BY <1>2 DEF WalkInv, Walked
<1>4. walk \in Walk
    BY <1>1, <1>2 DEF TypeOK
<1>5. /\ walk' \in Walk /\ walk'.ask = walk.ask /\ walk'.next = walk.next
      /\ walk'.due = {"count", "items"} /\ walk'.state = "walking"
    BY <1>2, <1>4 DEF Walk
<1>6. walk' # None
    BY <1>5, WalkAssumption
<1>7. TypeOK'
    BY <1>1, <1>2, <1>5 DEF TypeOK
<1>8. Still'
  <2>1. \A r \in stood' : Listed(walk.ask, r)'
      BY <1>1, <1>2, <1>5 DEF Still, Listed
  <2> QED BY <1>1, <1>2, <1>6, <2>1 DEF Still
<1>9. PageSelected'
    BY <1>1, <1>2, <1>5 DEF PageSelected
<1>10. PagesRead' = PagesRead
    BY <1>2, <1>5 DEF PagesRead
<1>11. OffsetPosition'
  <2>1. {r \in Rows : Listed(walk.ask, r)}' = {r \in Rows : Listed(walk.ask, r)}
      BY <1>2, <1>5 DEF Listed
  <2>2. walk'.next \in Nat \ {0}
      BY <1>3, <1>5 DEF OffsetPosition
  <2>3. ~moved' => /\ stood' = {r \in Rows : Listed(walk.ask, r)} /\ twice' = {}
                   /\ seen' = {r \in {x \in Rows : Listed(walk.ask, x)} :
                                Rank(walk.ask.list.order, {x \in Rows : Listed(walk.ask, x)}, r)
                                    < PagesRead' * OffsetLimit(walk.ask)}
      BY <1>2, <1>3, <1>10 DEF OffsetPosition
  <2> QED BY <1>5, <2>1, <2>2, <2>3 DEF OffsetPosition
<1> QED BY <1>2, <1>5, <1>7, <1>8, <1>9, <1>11 DEF WalkInv, Walked

(* The count that comes is the one of the rows that are listed.             *)
LEMMA CountKeeps ==
    ASSUME WalkInv, OffsetCount
    PROVE  WalkInv'
<1> DEFINE rows == {r \in Rows : Listed(walk.ask, r)}
           due == walk.due \ {"count"}
           limit == OffsetLimit(walk.ask)
<1>1. TypeOK /\ Still /\ PageSelected
    BY DEF WalkInv
<1>2. /\ walk # None /\ walk.ask.scheme = "offset" /\ walk.state = "walking" /\ "count" \in walk.due
      /\ OffsetProgress(due, Cardinality(rows))
      /\ UNCHANGED <<page, seen, twice>>
    BY DEF OffsetCount, InWalk
<1>3. OffsetPosition
    BY <1>2 DEF WalkInv, Walked
<1>4. walk \in Walk /\ walk.next \in Nat \ {0} /\ walk.due \in SUBSET {"count", "items"}
    BY <1>1, <1>2, <1>3 DEF TypeOK, Walk, OffsetPosition
<1>5. Cardinality(rows) \in Nat /\ due \in SUBSET {"count", "items"}
  <2>1. rows \in SUBSET Rows
      OBVIOUS
  <2> QED BY <1>4, <2>1, RowsFinite
<1>6. /\ walk' \in Walk /\ walk' # None /\ walk'.ask = walk.ask
      /\ walk'.due = due /\ walk'.total = Cardinality(rows)
      /\ walk'.next = IF due = {} THEN walk.next + 1 ELSE walk.next
      /\ walk'.state = "done" \/ walk'.state = "walking"
      /\ walk'.state = "done" => due = {} /\ TotalPages(Cardinality(rows), limit) <= walk.next
      /\ UNCHANGED <<stored, hidden, used, cursors, stood, broken, moved>>
  <2> HIDE DEF rows, due
  <2> QED BY <1>2, <1>4, <1>5, ProgressFrame
<1>7. TypeOK'
    BY <1>1, <1>2, <1>6 DEF TypeOK
<1>8. Still'
  <2>1. \A r \in stood' : Listed(walk.ask, r)'
      BY <1>1, <1>2, <1>6 DEF Still, Listed
  <2> QED BY <1>1, <1>2, <1>6, <2>1 DEF Still
<1>9. PageSelected'
    BY <1>1, <1>2, <1>6 DEF PageSelected
<1>10. {r \in Rows : Listed(walk.ask, r)}' = rows
    BY <1>6 DEF Listed
<1>11. PagesRead' = PagesRead
  <2>1. due = {} => "items" \notin walk.due
      BY <1>4
  <2>2. due # {} => "items" \in walk.due /\ "items" \in due
      BY <1>4
  <2>3. "count" \notin due
      OBVIOUS
  <2> HIDE DEF due
  <2> QED BY <1>2, <1>4, <1>6, <2>1, <2>2, <2>3 DEF PagesRead
<1>12. walk'.next \in Nat \ {0} /\ (due = {} => walk'.next = walk.next + 1)
    BY <1>4, <1>6
<1>13. OffsetPosition'
  <2>1. walk'.state = "done" => walk'.due = {} /\ walk'.next > 1 /\ TotalPages(walk'.total, limit) <= walk'.next - 1
      BY <1>4, <1>6, <1>12
  <2>2. ~moved' => stood' = rows /\ twice' = {}
      BY <1>2, <1>3, <1>6 DEF OffsetPosition
  <2>3. ~moved' => seen' = {r \in rows : Rank(walk.ask.list.order, rows, r) < PagesRead' * limit}
      BY <1>2, <1>3, <1>6, <1>11 DEF OffsetPosition
  <2> HIDE DEF rows, limit, due
  <2> QED BY <1>6, <1>10, <1>12, <2>1, <2>2, <2>3 DEF OffsetPosition, limit
<1> QED BY <1>2, <1>6, <1>7, <1>8, <1>9, <1>13 DEF WalkInv, Walked

(* The rows that come are those between the first ones of the pages before  *)
(* and the first ones of this page too, if the table is at rest.            *)
LEMMA ItemsKeep ==
    ASSUME WalkInv, OffsetItems
    PROVE  WalkInv'
<1> DEFINE order == walk.ask.list.order
           rows == {r \in Rows : Listed(walk.ask, r)}
           due == walk.due \ {"items"}
           limit == OffsetLimit(walk.ask)
           skip == (walk.next - 1) * limit
           items == FindMany(walk.ask, None, Skip(PageNumber(walk.next), limit), limit)
<1>1. TypeOK /\ Still /\ PageSelected
    BY DEF WalkInv
<1>2. /\ walk # None /\ walk.ask.scheme = "offset" /\ walk.state = "walking" /\ "items" \in walk.due
      /\ Turn(items) /\ OffsetProgress(due, walk.total)
    BY DEF OffsetItems, InWalk
<1>3. OffsetPosition
    BY <1>2 DEF WalkInv, Walked
<1>4. /\ walk \in Walk /\ walk.next \in Nat \ {0} /\ walk.due \in SUBSET {"count", "items"}
      /\ walk.total \in Nat /\ walk.ask \in Ask
    BY <1>1, <1>2, <1>3 DEF TypeOK, Walk, OffsetPosition
<1>5. limit \in 1..MaxLimit /\ (walk.ask.limit \in 1..MaxLimit => limit = walk.ask.limit)
    BY <1>2, <1>4, AskedLimits
<1>6. limit \in Nat /\ limit <= MaxLimit /\ MaxLimit \in Nat /\ rows \in SUBSET Rows
  <2> HIDE DEF limit
  <2> QED BY <1>5 DEF MaxLimit
<1>7. /\ walk' \in Walk /\ walk' # None /\ walk'.ask = walk.ask
      /\ walk'.due = due /\ walk'.total = walk.total
      /\ walk'.next = IF due = {} THEN walk.next + 1 ELSE walk.next
      /\ walk'.state = "done" \/ walk'.state = "walking"
      /\ walk'.state = "done" => due = {} /\ TotalPages(walk.total, limit) <= walk.next
      /\ UNCHANGED <<stored, hidden, used, cursors, stood, broken, moved>>
  <2>1. due \in SUBSET {"count", "items"}
      BY <1>4
  <2> HIDE DEF due
  <2> QED BY <1>2, <1>4, <2>1, ProgressFrame
<1>8. skip \in Nat /\ skip + limit = walk.next * limit
  <2>1. \A n \in Nat \ {0}, l \in Nat : (n - 1) * l \in Nat /\ (n - 1) * l + l = n * l
      OBVIOUS
  <2> HIDE DEF limit
  <2> QED BY <1>4, <1>6, <2>1
<1>9. items = Slice(order, rows, skip, limit)
  <2>1. PageNumber(walk.next) = walk.next
      BY <1>4, HelpersAssumption DEF PageNumber, AtLeast
  <2>2. Reachable(walk.ask, None) = rows
      BY DEF Reachable
  <2> HIDE DEF rows, limit
  <2> QED BY <2>1, <2>2 DEF FindMany, Skip
<1> HIDE DEF rows, limit, items, skip, due
<1>10. Sliced(order, rows, skip, limit, items)
    BY <1>6, <1>8, <1>9, SliceHolds
<1>11. /\ items \in Seq(rows) /\ items \in Seq(Rows) /\ Len(items) \in Nat /\ Len(items) <= limit
       /\ DOMAIN items = 1..Len(items)
  <2>1. items \in Seq(rows) /\ Len(items) \in Nat /\ Len(items) <= limit /\ DOMAIN items = 1..Len(items)
      BY <1>10 DEF Sliced
  <2>2. items \in Seq(Rows)
      BY <1>6, <2>1
  <2> QED BY <2>1, <2>2
<1>12. \A r \in Rows : Rank(order, rows, r) \in Nat
    BY <1>6, RankNat
<1>13. \A r : r \in ToSet(items) <=>
                 r \in rows /\ skip <= Rank(order, rows, r) /\ Rank(order, rows, r) < walk.next * limit
  <2>1. ASSUME NEW r \in ToSet(items)
        PROVE  r \in rows /\ skip <= Rank(order, rows, r) /\ Rank(order, rows, r) < walk.next * limit
    <3>1. PICK i \in 1..Len(items) : r = items[i]
        BY <1>11 DEF ToSet
    <3>2. r \in rows /\ Rank(order, rows, r) = skip + i - 1
        BY <1>10, <3>1 DEF Sliced
    <3> QED BY <1>6, <1>8, <1>11, <3>2
  <2>2. ASSUME NEW r \in rows, skip <= Rank(order, rows, r), Rank(order, rows, r) < walk.next * limit
        PROVE  r \in ToSet(items)
    <3>1. Rank(order, rows, r) < skip + limit
        BY <1>8, <2>2
    <3>2. \E i \in 1..Len(items) : items[i] = r
        BY <1>10, <2>2, <3>1 DEF Sliced
    <3> QED BY <1>11, <3>2 DEF ToSet
  <2> QED BY <2>1, <2>2
<1>14. /\ page' = items /\ seen' = seen \union ToSet(items)
       /\ twice' = twice \union (seen \intersect ToSet(items))
    BY <1>2 DEF Turn
<1>15. ToSet(items) \subseteq Rows
    BY <1>6, <1>13
<1>16. TypeOK'
  <2>1. Len(page') <= MaxLimit
      BY <1>6, <1>11, <1>14
  <2>2. walk'.ask.limit \in 1..MaxLimit => Len(page') <= walk'.ask.limit
      BY <1>5, <1>7, <1>11, <1>14
  <2> QED BY <1>1, <1>7, <1>14, <1>15, <2>1, <2>2 DEF TypeOK
<1>17. Still'
  <2>1. \A r \in stood' : Listed(walk.ask, r)'
      BY <1>1, <1>2, <1>7 DEF Still, Listed
  <2> QED BY <1>1, <1>7, <1>11, <1>14, <1>15, <2>1 DEF Still
<1>18. PageSelected'
  <2>1. \A i \in DOMAIN items : items[i] \in rows
      BY <1>11
  <2>2. \A r \in rows : Listed(walk.ask, r)
      BY DEF rows
  <2>3. \A i \in DOMAIN items : Selects(Received(walk.ask.asked), Permitted(walk.ask), Attributes[items[i]])
      BY <1>2, <2>1, <2>2, ListedSelected
  <2> QED BY <1>7, <1>14, <2>3 DEF PageSelected
<1>19. {r \in Rows : Listed(walk.ask, r)}' = rows
    BY <1>7 DEF Listed, rows
<1>20. PagesRead = walk.next - 1 /\ PagesRead' = walk.next
  <2>1. "items" \notin due /\ (due # {} => "count" \in due)
      BY <1>4 DEF due
  <2> QED BY <1>2, <1>4, <1>7, <2>1 DEF PagesRead
<1>21. ASSUME ~moved'
       PROVE  /\ stood' = rows /\ twice' = {}
              /\ seen' = {r \in rows : Rank(order, rows, r) < walk.next * limit}
  <2>1. /\ stood = rows /\ twice = {}
        /\ seen = {r \in rows : Rank(order, rows, r) < skip}
      BY <1>3, <1>7, <1>20, <1>21 DEF OffsetPosition, rows, limit, skip
  <2>2. \A r \in rows : Rank(order, rows, r) \in Nat
      BY <1>6, <1>12
  <2>3. seen \intersect ToSet(items) = {}
      BY <1>8, <1>13, <2>1, <2>2
  <2>4. \A r \in rows : Rank(order, rows, r) < skip => Rank(order, rows, r) < walk.next * limit
      BY <1>6, <1>8, <2>2
  <2>5. \A r \in rows : Rank(order, rows, r) < skip \/ skip <= Rank(order, rows, r)
      BY <1>8, <2>2
  <2> QED BY <1>7, <1>13, <1>14, <2>1, <2>3, <2>4, <2>5
<1>22. walk'.next \in Nat \ {0} /\ (due = {} => walk'.next = walk.next + 1)
    BY <1>4, <1>7
<1>23. ASSUME ~moved', due = {}
       PROVE  walk'.total = Cardinality(rows)
  <2>1. walk.due = {"items"}
      BY <1>2, <1>4, <1>23 DEF due
  <2> QED BY <1>3, <1>7, <1>23, <2>1 DEF OffsetPosition, rows
<1>24. OffsetPosition'
  <2>1. walk'.state = "done" => walk'.due = {} /\ walk'.next > 1 /\ TotalPages(walk'.total, limit) <= walk'.next - 1
      BY <1>4, <1>7, <1>22
  <2>2. "items" \notin walk'.due
      BY <1>7 DEF due
  <2> QED BY <1>7, <1>19, <1>20, <1>21, <1>22, <1>23, <2>1, <2>2 DEF OffsetPosition, limit
<1> QED BY <1>2, <1>7, <1>16, <1>17, <1>18, <1>24 DEF WalkInv, Walked

(* The elements of AND, each for what the client asked for: a row that      *)
(* satisfies all of them is a row it asked for.                             *)
LEMMA SelectsAsked ==
    ASSUME NEW ask, NEW row, Selects(Received(ask.asked), Permitted(ask), row)
    PROVE  AskedFor(ask, row)
<1> DEFINE asked == Received(ask.asked)
           config == Permitted(ask)
           filtered == {f \in DOMAIN asked.filters : asked.filters[f].kind \in {"one", "several"}}
           searched == IF asked.term = None THEN {} ELSE asked.searchFields
           permitted(fields, allowed) == IF allowed = {} THEN fields ELSE fields \intersect allowed
           searchable == permitted(searched, config.searchFields)
<1> HIDE DEF asked, config
<1>1. \A c \in WhereClause(asked, config) : Satisfies(row, c)
    BY DEF Selects, asked, config
<1>2. ASSUME NEW f \in permitted(filtered, config.filterFields)
      PROVE  row[f] \in asked.filters[f].values
  <2> DEFINE c == <<"in", f, asked.filters[f].values>>
  <2>1. f \in DOMAIN asked.filters /\ asked.filters[f].kind \notin {"absent", "empty"}
      BY <1>2
  <2>2. Allowed(f, config.filterFields)
      BY <1>2 DEF Allowed
  <2>3. c \in BasicFilters(asked.filters, config.filterFields)
      BY <2>1, <2>2 DEF BasicFilters
  <2>4. Satisfies(row, c)
      BY <1>1, <2>3 DEF WhereClause
  <2> QED BY <2>4 DEF Satisfies
<1>3. ASSUME searchable # {}
      PROVE  \E f \in searchable : asked.term \in row[f]
  <2> DEFINE c == <<"contains", searchable, asked.term>>
  <2>1. asked.term # None
      BY <1>3
  <2>2. searchable = {f \in asked.searchFields : Allowed(f, config.searchFields)}
      BY <2>1 DEF Allowed
  <2>3. c \in SearchConditions(asked.term, asked.searchFields, config.searchFields)
      BY <1>3, <2>1, <2>2 DEF SearchConditions
  <2> HIDE DEF searchable
  <2>4. Satisfies(row, c)
      BY <1>1, <2>3 DEF WhereClause
  <2> QED BY <2>4 DEF Satisfies
<1>4. ASSUME NEW e \in asked.ranges
      PROVE  (e.low # None => e.low <= row[e.field]) /\ (e.high # None => row[e.field] <= e.high)
  <2> DEFINE c == <<"between", e.field, e.low, e.high>>
  <2> SUFFICES ASSUME e.low # None \/ e.high # None
               PROVE  (e.low # None => e.low <= row[e.field]) /\ (e.high # None => row[e.field] <= e.high)
      OBVIOUS
  <2>1. c \in BetweenConditions(asked.ranges)
      BY DEF BetweenConditions
  <2>2. Satisfies(row, c)
      BY <1>1, <2>1 DEF WhereClause
  <2> QED BY <2>2 DEF Satisfies
<1>5. ASSUME NEW e \in asked.enums
      PROVE  row[e.field] \in e.values
  <2> DEFINE c == <<"in", e.field, e.values>>
  <2>1. c \in EnumConditions(asked.enums)
      BY DEF EnumConditions
  <2>2. Satisfies(row, c)
      BY <1>1, <2>1 DEF WhereClause
  <2> QED BY <2>2 DEF Satisfies
<1> QED BY <1>2, <1>3, <1>4, <1>5 DEF AskedFor, asked, config

-----------------------------------------------------------------------------
(* The theorems. *)

LEMMA NextKeeps ==
    ASSUME WalkInv, [Next]_vars
    PROVE  WalkInv'
<1>1. ASSUME NEW ask \in Ask, Begin(ask) PROVE WalkInv'
    BY <1>1, BeginKeeps
<1>2. CASE NextPage
    BY <1>2, ServiceKeeps, BuilderKeeps, RequestKeeps, CountKeeps, ItemsKeep DEF NextPage
<1>3. ASSUME NEW r \in Rows, Insert(r) \/ Delete(r) \/ Flip(r) PROVE WalkInv'
    BY <1>3, TableKeeps
<1>4. CASE UNCHANGED vars
  <2>1. UNCHANGED <<stored, hidden, used, walk, page, cursors, seen, twice, stood, broken, moved>>
      BY <1>4 DEF vars, tableVars, walkVars
  <2>2. TypeOK' /\ PageSelected'
      BY <2>1 DEF WalkInv, TypeOK, PageSelected
  <2>3. Still'
      BY <2>1 DEF WalkInv, Still, Listed
  <2>4. ServicePosition' = ServicePosition /\ BuilderPosition' = BuilderPosition
      BY <2>1 DEF ServicePosition, BuilderPosition
  <2>5. OffsetPosition' = OffsetPosition
      BY <2>1 DEF OffsetPosition, PagesRead, Listed
  <2> QED BY <2>1, <2>2, <2>3, <2>4, <2>5 DEF WalkInv, Walked
<1> QED BY <1>1, <1>2, <1>3, <1>4 DEF Next

(* Where each walk stands, for all tables and all limits: the invariant     *)
(* that the theorems below follow from.                                     *)
THEOREM WalkStands == Spec => []WalkInv
<1>1. WalkInv /\ [Next]_vars => WalkInv'
    BY NextKeeps
<1> QED BY InitHolds, <1>1, PTL DEF Spec

(* The types; and no page is longer than its limit, which is never more     *)
(* than MaxLimit.                                                           *)
THEOREM ListsTyped == Spec => []TypeOK
<1>1. WalkInv => TypeOK
    BY DEF WalkInv
<1> QED BY <1>1, WalkStands, PTL

(* No list of the services shows a row on two pages, whatever is inserted,  *)
(* deleted or filtered out between them.                                    *)
THEOREM ServiceNeverRepeats == Spec => []NoRowTwice
<1>1. WalkInv => NoRowTwice
    BY DEF WalkInv, NoRowTwice, ServicePosition
<1> QED BY <1>1, WalkStands, PTL

(* Of the rows that are there all the time, a walk through a list of the    *)
(* services leaves out those whose ids were its cursors and no other: one   *)
(* for each full page.                                                      *)
THEOREM ServiceMissesCursors == Spec => []OnlyCursorsMissed
<1>1. ASSUME WalkInv PROVE OnlyCursorsMissed
  <2> SUFFICES ASSUME Finished("service"), ~broken
               PROVE  /\ stood \ seen = stood \intersect cursors
                      /\ Cardinality(stood \ seen) * ServiceLimit(walk.ask.limit) <= Cardinality(seen)
      BY DEF OnlyCursorsMissed
  <2> DEFINE limit == ServiceLimit(walk.ask.limit)
  <2>1. TypeOK /\ Still /\ ServicePosition
      BY <1>1 DEF WalkInv, Finished
  <2>2. walk # None /\ walk.ask.scheme = "service" /\ walk.state = "done"
      BY DEF Finished, Walked
  <2>3. \A r \in stood : r \in seen \/ r \in cursors
      BY <2>1, <2>2 DEF ServicePosition
  <2>4. stood \ seen = stood \intersect cursors
      BY <2>1, <2>3 DEF ServicePosition
  <2>5. limit \in Nat
    <3>1. limit \in 1..MaxLimit
        BY <2>1, <2>2, AskedLimits DEF TypeOK, Walk
    <3> HIDE DEF limit
    <3> QED BY <3>1 DEF MaxLimit
  <2>6. /\ Cardinality(stood \ seen) <= Cardinality(cursors)
        /\ Cardinality(stood \ seen) \in Nat /\ Cardinality(cursors) \in Nat /\ Cardinality(seen) \in Nat
    <3>1. cursors \in SUBSET Rows /\ seen \in SUBSET Rows /\ stood \ seen \in SUBSET Rows
        BY <2>1 DEF TypeOK, Still
    <3>2. stood \ seen \in SUBSET cursors
        BY <2>4
    <3> QED BY <3>1, <3>2, RowsFinite, FS_Subset
  <2>7. Cardinality(cursors) * limit <= Cardinality(seen)
      BY <2>1 DEF ServicePosition
  <2>8. \A a, b, l \in Nat : a <= b => a * l <= b * l /\ a * l \in Nat /\ b * l \in Nat
      OBVIOUS
  <2> HIDE DEF limit
  <2>9. Cardinality(stood \ seen) * limit <= Cardinality(seen)
      BY <2>5, <2>6, <2>7, <2>8
  <2> QED BY <2>4, <2>9 DEF limit
<1> QED BY <1>1, WalkStands, PTL

(* A walk with the builder's cursors leaves out no row that is there all    *)
(* the time.                                                                *)
THEOREM BuilderReachesAll == Spec => []BuilderMissesNone
<1>1. WalkInv => BuilderMissesNone
    BY DEF WalkInv, BuilderMissesNone, BuilderPosition, Finished
<1> QED BY <1>1, WalkStands, PTL

(* On a table at rest the page numbers of all three helpers reach every row *)
(* once, and the total is the number of rows.                               *)
THEOREM OffsetReaches == Spec => []OffsetReachesAll
<1>1. ASSUME WalkInv PROVE OffsetReachesAll
  <2> SUFFICES ASSUME Finished("offset"), ~moved
               PROVE  seen = stood /\ twice = {} /\ walk.total = Cardinality(stood)
      BY DEF OffsetReachesAll
  <2> DEFINE rows == {r \in Rows : Listed(walk.ask, r)}
             limit == OffsetLimit(walk.ask)
  <2>1. TypeOK /\ OffsetPosition
      BY <1>1 DEF WalkInv, Finished
  <2>2. walk # None /\ walk.ask.scheme = "offset" /\ walk.state = "done"
      BY DEF Finished, Walked
  <2>3. walk.due = {} /\ walk.next > 1 /\ walk.next \in Nat
      BY <2>1, <2>2 DEF OffsetPosition
  <2>4. PagesRead = walk.next - 1 /\ PagesRead \in Nat
      BY <2>3 DEF PagesRead
  <2>5. /\ stood = rows /\ twice = {}
        /\ seen = {r \in rows : Rank(walk.ask.list.order, rows, r) < PagesRead * limit}
        /\ walk.total = Cardinality(rows)
        /\ TotalPages(walk.total, limit) <= PagesRead
      BY <2>1, <2>2, <2>3, <2>4 DEF OffsetPosition
  <2>6. limit \in Nat \ {0}
    <3>1. limit \in 1..MaxLimit
        BY <2>1, <2>2, AskedLimits DEF TypeOK, Walk
    <3> HIDE DEF limit
    <3> QED BY <3>1 DEF MaxLimit
  <2>7. rows \in SUBSET Rows
      OBVIOUS
  <2> HIDE DEF rows, limit
  <2>8. Cardinality(rows) \in Nat
      BY <2>7, RowsFinite
  <2>9. Cardinality(rows) <= PagesRead * limit
      BY <2>4, <2>5, <2>6, <2>8, PagesHold
  <2>10. \A r \in rows : Rank(walk.ask.list.order, rows, r) \in 0..(Cardinality(rows) - 1)
      BY <2>7, RankCounts
  <2>11. \A n, l \in Nat : n * l \in Nat
      OBVIOUS
  <2>12. PagesRead * limit \in Nat
      BY <2>4, <2>6, <2>11
  <2>13. \A r \in rows : Rank(walk.ask.list.order, rows, r) < PagesRead * limit
      BY <2>8, <2>9, <2>10, <2>12
  <2> QED BY <2>5, <2>13
<1> QED BY <1>1, WalkStands, PTL

(* Whatever a client combines of filters, searches, ranges and enumerations, *)
(* no helper shows it a row it did not ask for.                             *)
THEOREM HelpersShowAsked == Spec => []OnlyAskedFor
<1>1. ASSUME WalkInv PROVE OnlyAskedFor
  <2> SUFFICES ASSUME walk # None, walk.ask.scheme # "service", NEW r \in ToSet(page)
               PROVE  AskedFor(walk.ask, Attributes[r])
      BY DEF OnlyAskedFor
  <2>1. PICK i \in DOMAIN page : r = page[i]
      BY DEF ToSet
  <2>2. Selects(Received(walk.ask.asked), Permitted(walk.ask), Attributes[r])
      BY <1>1, <2>1 DEF WalkInv, PageSelected
  <2> QED BY <2>2, SelectsAsked
<1> QED BY <1>1, WalkStands, PTL
=============================================================================
