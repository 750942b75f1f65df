------------------------------- MODULE Lists -------------------------------
(***************************************************************************)
(* A client walks through a list, page after page, while rows are added to *)
(* the table, change what filters look at, and are deleted.  All findAll   *)
(* methods page alike (scheme "service"); the helpers offer another cursor *)
(* ("builder") and page numbers ("offset").                                *)
(*                                                                         *)
(* Rows are numbered in the order of the column a list is sorted by; two   *)
(* rows never tie.                                                         *)
(***************************************************************************)
EXTENDS QueryHelpers, Sequences, SequencesExt

CONSTANTS
    MaxRow,     \* bound: rows are numbers up to MaxRow
    Limits,     \* values of "limit" that clients send
    Asks,       \* what clients of the helpers ask for
    Config,     \* the builder's options
    Attributes  \* Attributes[r]: the fields of row r

Rows == 1..MaxRow

ASSUME ListsAssumption ==
    /\ MaxRow \in Nat
    /\ Limits \subseteq (Nat \union {None})

VARIABLES
    stored,   \* rows in the table
    hidden,   \* stored rows that a filter of the services leaves out now
    used,     \* rows that were ever stored
    walk,     \* what the client does, None before it begins
    page,     \* the page it was given last
    cursors,  \* the cursors it was given
    seen,     \* history: the rows of all its pages
    twice,    \* history: the rows that were on two of them
    stood,    \* history: rows it should see, there all the time since it began
    broken,   \* history: it used a cursor whose row was deleted or hidden
    moved     \* history: the table changed since it began

tableVars == <<stored, hidden, used>>
walkVars == <<walk, page, cursors, seen, twice>>
vars == <<tableVars, walkVars, stood, broken, moved>>

(* The lists of the services.  order: by createdAt, "newest" or "oldest"     *)
(* first, or by a column that puts a new row "anywhere" (a publishedAt that  *)
(* may be given, a shopId).  filtered: the filter looks at a column that an  *)
(* update or a withdrawal of the row changes.                               *)
OrdersList == [order |-> "newest", filtered |-> TRUE]           \* status
ProductsList == [order |-> "oldest", filtered |-> TRUE]         \* isDeleted, isAvailable
ShopsList == [order |-> "newest", filtered |-> TRUE]            \* category, name
ReviewsList == [order |-> "newest", filtered |-> FALSE]
SavedShopsList == [order |-> "anywhere", filtered |-> FALSE]
FeedbackList == [order |-> "newest", filtered |-> TRUE]         \* status
ResidentLeadsList == [order |-> "newest", filtered |-> TRUE]    \* status
InvitationsList == [order |-> "newest", filtered |-> FALSE]
AnnouncementsList == [order |-> "anywhere", filtered |-> FALSE]
ReportsList == [order |-> "anywhere", filtered |-> FALSE]
NotificationsList == [order |-> "newest", filtered |-> TRUE]    \* isRead
ElectionsList == [order |-> "newest", filtered |-> FALSE]
PollsList == [order |-> "newest", filtered |-> FALSE]

ServiceLists ==
    {OrdersList, ProductsList, ShopsList, ReviewsList, SavedShopsList, FeedbackList, ResidentLeadsList,
     InvitationsList, AnnouncementsList, ReportsList, NotificationsList, ElectionsList, PollsList}

(* Not told how to sort, the builder sorts by createdAt descending; the other *)
(* helpers send no orderBy, and pages then follow the primary key.           *)
BuilderList == [order |-> "newest", filtered |-> FALSE]
UnsortedList == [order |-> "anywhere", filtered |-> FALSE]

SingleValued(asks) ==
    {a \in asks : \A f \in DOMAIN Received(a).filters : Received(a).filters[f].kind # "several"}

(* Requests validated by the DTOs; the helpers are called by other code. *)
Ask ==
    [scheme: {"service"}, list: ServiceLists, limit: (Limits \intersect 1..50) \union {None},
        helper: {None}, asked: {None}]
    \union [scheme: {"builder"}, list: {BuilderList}, limit: Limits, helper: {None}, asked: Asks]
    \union [scheme: {"offset"}, list: {BuilderList}, limit: Limits, helper: {"builder"}, asked: Asks]
    \union [scheme: {"offset"}, list: {UnsortedList}, limit: Limits, helper: {"fluent", "paginate"},
            asked: SingleValued(Asks)]

(* next: the cursor or the page number to ask for; due: the queries of the   *)
(* page under way; total: its count.                                        *)
Walk == [ask: Ask, state: {"walking", "done"}, next: Nat \union {None},
         due: SUBSET {"count", "items"}, total: Nat]

ASSUME WalkAssumption == None \notin Walk

InWalk(w) == walk # None /\ walk.ask.scheme = w /\ walk.state = "walking"

Init ==
    /\ stored \in SUBSET Rows /\ used = stored
    /\ hidden = {}
    /\ walk = None /\ page = <<>> /\ cursors = {} /\ seen = {} /\ twice = {}
    /\ stood = {} /\ broken = FALSE /\ moved = FALSE

-----------------------------------------------------------------------------
(* Only the builder knows which fields a client may use. *)
Permitted(ask) ==
    IF ask.helper \in {"fluent", "paginate"} THEN [filterFields |-> {}, searchFields |-> {}] ELSE Config

(* Every list filters its rows: the services by fields that change (status,  *)
(* isRead, isAvailable), the helpers by what the client asks for.           *)
Listed(ask, r) ==
    r \in stored /\ IF ask.scheme = "service" THEN r \notin hidden
                                              ELSE Selects(Received(ask.asked), Permitted(ask), Attributes[r])

Before(order, r, s) == IF order = "oldest" THEN r < s ELSE r > s

(* How many of the rows come before r. *)
Rank(order, rows, r) == Cardinality({s \in rows : Before(order, s, r)})

(* The rows in their order: take of them, or as many as follow the first skip. *)
Slice(order, rows, skip, take) ==
    [i \in 1..AtMost(take, AtLeast(Cardinality(rows) - skip, 0)) |->
        CHOOSE r \in rows : Rank(order, rows, r) = skip + i - 1]

(* The rows a query may return: without a cursor all that are listed, else   *)
(* those from the cursor's on, and none if the row of the cursor is gone.   *)
Reachable(ask, cursor) ==
    {r \in Rows : Listed(ask, r) /\
        (cursor # None => cursor \in stored /\ ~Before(ask.list.order, r, cursor))}

(* External: Prisma's findMany.  skip counts the rows that it may return, be *)
(* the first of them the cursor's or not.                                   *)
FindMany(ask, cursor, skip, take) == Slice(ask.list.order, Reachable(ask, cursor), skip, take)

Begin(ask) ==
    /\ walk = None
    /\ walk' = [ask |-> ask, state |-> "walking", next |-> IF ask.scheme = "offset" THEN 1 ELSE None,
                due |-> {}, total |-> 0]
    /\ stood' = {r \in Rows : Listed(ask, r)}
    /\ moved' = FALSE
    /\ UNCHANGED <<tableVars, page, cursors, seen, twice, broken>>

Turn(items) ==
    /\ page' = items
    /\ seen' = seen \union ToSet(items)
    /\ twice' = twice \union (seen \intersect ToSet(items))

(* The client gets a page and goes on from next, or stops without one. *)
Receive(items, next) ==
    /\ Turn(items)
    /\ cursors' = cursors \union ({next} \ {None})
    /\ walk' = [walk EXCEPT !.next = next, !.state = IF next = None THEN "done" ELSE @]
    /\ broken' = (broken \/ (walk.next # None /\ ~Listed(walk.ask, walk.next)))
    /\ UNCHANGED <<tableVars, stood, moved>>

ServiceLimit(limit) == IF limit = None THEN 20 ELSE limit

(* Faults: the cursor is the first row of the page; the last row is popped   *)
(* though there are no more; the page is answered with the row read ahead.  *)
ServiceAnswerFirst(items, limit) ==
    IF Len(items) > limit THEN Receive(Front(items), Head(items)) ELSE Receive(items, None)
ServiceAnswerPops(items, limit) ==
    IF items # <<>> THEN Receive(Front(items), Last(items)) ELSE Receive(items, None)
ServiceAnswerKeeps(items, limit) ==
    IF Len(items) > limit THEN Receive(items, Last(items)) ELSE Receive(items, None)

ServiceRows(limit) == FindMany(walk.ask, walk.next, IF walk.next = None THEN 0 ELSE 1, limit + 1)

(* One row more than the limit is read; it is popped, and its id is the      *)
(* cursor, which the next page skips.                                       *)
ServiceAnswer(items, limit) ==
    IF Len(items) > limit THEN Receive(Front(items), Last(items)) ELSE Receive(items, None)

ServicePage ==
    /\ InWalk("service")
    /\ LET limit == ServiceLimit(walk.ask.limit) IN ServiceAnswer(ServiceRows(limit), limit)

(* Faults: no row is read ahead; the cursor is the first row of the page. *)
BuilderRowsNoExtra(limit) == FindMany(walk.ask, walk.next, 0, limit)
BuilderCursorFirst(items) == Head(items)

BuilderRows(limit) == FindMany(walk.ask, walk.next, 0, limit + 1)

BuilderCursor(items) == items[Len(items) - 1]

(* The cursor is the last row of the page, and the next page begins with it. *)
BuilderPage ==
    /\ InWalk("builder")
    /\ LET limit == BuilderLimit(walk.ask.limit)
           items == BuilderRows(limit)
       IN IF Len(items) > limit
          THEN Receive(Front(items), BuilderCursor(items))
          ELSE Receive(items, None)

OffsetLimit(ask) ==
    CASE ask.helper = "builder" -> BuilderLimit(ask.limit)
      [] ask.helper = "fluent" -> FluentLimit(ask.limit)
      [] ask.helper = "paginate" -> PaginateLimit(ask.limit)

(* count and findMany are sent together and may see different tables. *)
OffsetRequest ==
    /\ InWalk("offset") /\ walk.due = {}
    /\ walk' = [walk EXCEPT !.due = {"count", "items"}]
    /\ UNCHANGED <<tableVars, page, cursors, seen, twice, stood, broken, moved>>

(* The client asks for the next page while there is one by the metadata. *)
OffsetProgress(due, total) ==
    LET meta == Metadata(total, PageNumber(walk.next), OffsetLimit(walk.ask))
    IN /\ walk' = [walk EXCEPT !.due = due, !.total = total,
                       !.next = IF due = {} THEN walk.next + 1 ELSE @,
                       !.state = IF due = {} /\ ~meta.hasNextPage THEN "done" ELSE @]
       /\ UNCHANGED <<tableVars, cursors, stood, broken, moved>>

OffsetCount ==
    /\ InWalk("offset") /\ "count" \in walk.due
    /\ OffsetProgress(walk.due \ {"count"}, Cardinality({r \in Rows : Listed(walk.ask, r)}))
    /\ UNCHANGED <<page, seen, twice>>

OffsetItems ==
    /\ InWalk("offset") /\ "items" \in walk.due
    /\ LET limit == OffsetLimit(walk.ask)
       IN Turn(FindMany(walk.ask, None, Skip(PageNumber(walk.next), limit), limit))
    /\ OffsetProgress(walk.due \ {"items"}, walk.total)

NextPage ==
    \/ ServicePage \/ BuilderPage
    \/ OffsetRequest \/ OffsetCount \/ OffsetItems

-----------------------------------------------------------------------------
Newer(r) == \A s \in used : s < r

TableStep ==
    /\ walk # None /\ walk.state = "walking"
    /\ moved' = TRUE
    /\ UNCHANGED <<walkVars, broken>>
    /\ stood' = {r \in stood : Listed(walk.ask, r)'}

(* Rows sorted by createdAt are new at their end of the list; elsewhere an   *)
(* id may also come back.                                                   *)
Insert(r) ==
    /\ r \notin stored
    /\ walk # None => (walk.ask.list.order # "anywhere" => Newer(r))
    /\ stored' = stored \union {r} /\ used' = used \union {r}
    /\ UNCHANGED hidden
    /\ TableStep

Delete(r) ==
    /\ r \in stored
    /\ stored' = stored \ {r} /\ hidden' = hidden \ {r}
    /\ UNCHANGED used
    /\ TableStep

(* A row is updated so that the filter of the list takes or leaves it. *)
Flip(r) ==
    /\ r \in stored
    /\ walk # None => walk.ask.list.filtered
    /\ hidden' = IF r \in hidden THEN hidden \ {r} ELSE hidden \union {r}
    /\ UNCHANGED <<stored, used>>
    /\ TableStep

Next ==
    \/ \E ask \in Ask : Begin(ask)
    \/ NextPage
    \/ \E r \in Rows : Insert(r) \/ Delete(r) \/ Flip(r)

Spec == Init /\ [][Next]_vars /\ WF_vars(NextPage)

-----------------------------------------------------------------------------
(* Types; and that a page is never longer than its limit, which is one to    *)
(* MaxLimit for every limit a client may send.                              *)
TypeOK ==
    /\ stored \subseteq used /\ used \subseteq Rows /\ hidden \subseteq stored
    /\ walk \in Walk \union {None}
    /\ cursors \union stood \union twice \subseteq Rows /\ twice \subseteq seen
    /\ Len(page) <= MaxLimit
    /\ walk # None /\ walk.ask.limit \in 1..MaxLimit => Len(page) <= walk.ask.limit

Walked(scheme) == walk # None /\ walk.ask.scheme = scheme
Finished(scheme) == Walked(scheme) /\ walk.state = "done"

(* Whatever happens to the table meanwhile, no list of the services shows a  *)
(* row on two pages: the promise of a cursor that page numbers cannot make.  *)
NoRowTwice == Walked("service") => twice = {}

(* What a walk through a list of the services leaves out, of the rows that   *)
(* were there all the time, is exactly the rows whose ids it was given as    *)
(* cursors, and these are one after each full page.  It loses more only when *)
(* the row of a cursor is deleted or leaves the list before it is used.     *)
OnlyCursorsMissed ==
    Finished("service") /\ ~broken =>
        /\ stood \ seen = stood \intersect cursors
        /\ Cardinality(stood \ seen) * ServiceLimit(walk.ask.limit) <= Cardinality(seen)

(* The builder's cursor repeats a row on the next page but misses none. *)
BuilderMissesNone == Finished("builder") /\ ~broken => stood \subseteq seen

(* On a table at rest the page numbers reach every row that the client asked *)
(* for once and no other, with the count that goes with them.               *)
OffsetReachesAll ==
    Finished("offset") /\ ~moved =>
        /\ seen = stood /\ twice = {}
        /\ walk.total = Cardinality(stood)

(* What the client asked for, field by field, as far as it is permitted. *)
AskedFor(ask, row) ==
    LET asked == Received(ask.asked)
        filtered == {f \in DOMAIN asked.filters : asked.filters[f].kind \in {"one", "several"}}
        searched == IF asked.term = None THEN {} ELSE asked.searchFields
        permitted(fields, allowed) == IF allowed = {} THEN fields ELSE fields \intersect allowed
        searchable == permitted(searched, Permitted(ask).searchFields)
    IN /\ \A f \in permitted(filtered, Permitted(ask).filterFields) : row[f] \in asked.filters[f].values
       /\ searchable # {} => \E f \in searchable : asked.term \in row[f]
       /\ \A e \in asked.ranges : (e.low # None => e.low <= row[e.field]) /\ (e.high # None => row[e.field] <= e.high)
       /\ \A e \in asked.enums : row[e.field] \in e.values

(* Whatever the client combines, no helper shows it a row it did not ask for. *)
OnlyAskedFor ==
    walk # None /\ walk.ask.scheme # "service" =>
        \A r \in ToSet(page) : AskedFor(walk.ask, Attributes[r])

(* The cursor is the "last item id" (shop.query.dto.ts) to "pass as cursor   *)
(* for next page" (shop.response.dto.ts): a client that does so sees every   *)
(* row of a table at rest.                                                  *)
NothingMissed == Finished("service") /\ ~moved => stood \subseteq seen

(* A client that goes on while there is a next page gets to the end, as long *)
(* as the table does not grow for ever.  The builder needs pages of two rows *)
(* for that: the cursor of a page with one row leads to the same page.      *)
WalkEnds ==
    (walk # None /\ ~(walk.ask.scheme = "builder" /\ BuilderLimit(walk.ask.limit) = 1)) ~> (walk # None /\ walk.state = "done")
=============================================================================
