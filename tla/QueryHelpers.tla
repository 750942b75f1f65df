---------------------------- MODULE QueryHelpers ----------------------------
(***************************************************************************)
(* The common query helpers as functions of what a client asks for:        *)
(* HelperPrismaQueryBuilderService (builder), the fluent QueryBuilder of   *)
(* HelperQueryService (fluent) and HelperPaginationService (paginate).     *)
(*                                                                         *)
(* A condition of a where clause is <<"in", field, values>>,               *)
(* <<"contains", fields, term>> or <<"between", field, low, high>>; a      *)
(* condition that compares with one value is "in" a set of one.            *)
(***************************************************************************)
EXTENDS Integers, FiniteSets

CONSTANTS
    None,       \* undefined or null
    Malformed   \* a text that does not parse as JSON

ASSUME HelpersAssumption == None \notin Int

DefaultLimit == 10
MaxLimit == 100

AtLeast(a, b) == IF a >= b THEN a ELSE b
AtMost(a, b) == IF a <= b THEN a ELSE b

-----------------------------------------------------------------------------
(* Objects and arrays of a query string arrive as JSON text; one that does    *)
(* not parse counts as empty, and so restricts nothing.                      *)
Parsed(text, empty) == IF text = Malformed THEN empty ELSE text

(* What BasePrismaQueryDto makes of a query; a range is of dates or numbers. *)
Received(q) ==
    [filters |-> Parsed(q.filters, <<>>),
     term |-> q.term, searchFields |-> q.searchFields,
     ranges |-> Parsed(q.ranges, {}), enums |-> Parsed(q.enums, {})]

(* A value of a filter as it is received: absent, the empty string, one      *)
(* value, or several of them (an array, or a string with commas).           *)
FilterKinds == {"absent", "empty", "one", "several"}

Allowed(field, allowed) == allowed = {} \/ field \in allowed

BasicFilters(filters, allowed) ==
    {<<"in", f, filters[f].values>> :
        f \in {g \in DOMAIN filters :
                 Allowed(g, allowed) /\ filters[g].kind \notin {"absent", "empty"}}}

(* A search over fields none of which is allowed is no condition at all. *)
SearchConditions(term, fields, allowed) ==
    LET searched == {f \in fields : Allowed(f, allowed)}
    IN IF term = None \/ searched = {} THEN {} ELSE {<<"contains", searched, term>>}

(* Date and range filters.  A date is an ISO string, so that one which is    *)
(* given is also truthy; a range may be given a bound of zero.  None is a    *)
(* bound left out; a null bound of a range would reach Prisma, which is not  *)
(* modelled.                                                               *)
(* Fault: a bound is used only together with the other one. *)
BetweenConditionsBoth(ends) ==
    {<<"between", e.field, e.low, e.high>> : e \in {x \in ends : x.low # None /\ x.high # None}}

BetweenConditions(ends) ==
    {<<"between", e.field, e.low, e.high>> : e \in {x \in ends : x.low # None \/ x.high # None}}

EnumConditions(enums) == {<<"in", e.field, e.values>> : e \in enums}

(* The elements of AND. *)
WhereClause(asked, config) ==
    UNION {BasicFilters(asked.filters, config.filterFields),
           SearchConditions(asked.term, asked.searchFields, config.searchFields),
           BetweenConditions(asked.ranges),
           EnumConditions(asked.enums)}

(* Prisma's reading of a condition. *)
Satisfies(row, c) ==
    CASE c[1] = "in" -> row[c[2]] \in c[3]
      [] c[1] = "contains" -> \E f \in c[2] : c[3] \in row[f]
      [] c[1] = "between" -> /\ c[3] # None => row[c[2]] >= c[3]
                             /\ c[4] # None => row[c[2]] <= c[4]

Selects(asked, config, row) == \A c \in WhereClause(asked, config) : Satisfies(row, c)

-----------------------------------------------------------------------------
(* "page || 1" turns a page of zero into the first one. *)
PageNumber(page) == AtLeast(1, IF page \in {None, 0} THEN 1 ELSE page)

BuilderLimit(limit) == AtMost(IF limit \in {None, 0} THEN DefaultLimit ELSE limit, MaxLimit)

FluentLimit(limit) ==
    AtMost(AtLeast(1, IF limit \in {None, 0} THEN DefaultLimit ELSE limit), MaxLimit)

(* A default parameter replaces undefined only, so that a limit of zero is 1. *)
PaginateLimit(limit) == AtMost(AtLeast(1, IF limit = None THEN DefaultLimit ELSE limit), MaxLimit)

(* Math.ceil(total / limit) *)
TotalPages(total, limit) == (total + limit - 1) \div limit

(* Fault: pages are counted from zero. *)
SkipFromZero(page, limit) == page * limit

Skip(page, limit) == (page - 1) * limit

Metadata(total, page, limit) ==
    [total |-> total, page |-> page, limit |-> limit, totalPages |-> TotalPages(total, limit),
     hasNextPage |-> page < TotalPages(total, limit), hasPrevPage |-> page > 1]
=============================================================================
