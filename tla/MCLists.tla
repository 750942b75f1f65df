------------------------------ MODULE MCLists ------------------------------
(* Instances of Lists for TLC: small tables, and what clients ask for. *)
EXTENDS Lists

(* Row r is of day r; the roles alternate.  A text is the set of its parts. *)
MCAttributes == [r \in Rows |-> [role |-> IF r % 2 = 1 THEN "RESIDENT" ELSE "MERCHANT", day |-> r,
                                 name |-> IF r = 2 THEN {"mona"} ELSE {"amr", "mona"},
                                 email |-> {"amr"}]]

MCConfig == [filterFields |-> {"role"}, searchFields |-> {"name"}]

Absent == [kind |-> "absent", values |-> {}]
Role(v) == [kind |-> "one", values |-> {v}]
Plain == [filters |-> [role |-> Absent], term |-> None, searchFields |-> {}, ranges |-> {}, enums |-> {}]

(* Everything; a role, with a filter that is not allowed, from day 2 on and  *)
(* with a search; a filter that is no JSON, with a role; a search in no      *)
(* allowed field, with a set of roles.                                      *)
MCAsks ==
    {Plain,
     [Plain EXCEPT !.filters = [role |-> Role("RESIDENT"), day |-> [kind |-> "one", values |-> {1}]],
                   !.ranges = {[field |-> "day", low |-> 2, high |-> None], [field |-> "day", low |-> None, high |-> None]},
                   !.term = "mona", !.searchFields = {"name", "email"}],
     [Plain EXCEPT !.filters = Malformed, !.enums = {[field |-> "role", values |-> {"MERCHANT"}]}],
     [Plain EXCEPT !.term = "amr", !.searchFields = {"email"},
                   !.filters = [role |-> [kind |-> "several", values |-> {"RESIDENT", "MERCHANT"}]],
                   !.enums = {[field |-> "role", values |-> {"MERCHANT"}]}]}

NoAsks == {}
=============================================================================
