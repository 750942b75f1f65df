----------------------------- MODULE MCContent -----------------------------
(* Instances of Content for TLC: two merchants, a resident and an admin. *)
EXTENDS Content

CONSTANTS r1, m1, m2, a1

(* Of each row, its kind and what it refers to. *)
MCTable ==
    [s1 |-> <<"shop", {m1}>>, s2 |-> <<"shop", {m2}>>, h1 |-> <<"photo", {"s1"}>>,
     p1 |-> <<"product", {"s1"}>>, p2 |-> <<"product", {"s2"}>>,
     o1 |-> <<"order", {r1, "s1"}>>, i1 |-> <<"item", {"o1", "p1"}>>,
     w1 |-> <<"review", {r1, "s1"}>>, k1 |-> <<"saved", {r1, "s1"}>>,
     f1 |-> <<"feedback", {r1}>>, y1 |-> <<"reply", {a1, "f1"}>>,
     n1 |-> <<"announcement", {}>>, c1 |-> <<"comment", {r1, "n1"}>>,
     b1 |-> <<"notification", {r1}>>, e1 |-> <<"preference", {r1}>>,
     v1 |-> <<"vote", {r1}>>, v2 |-> <<"electionVote", {r1}>>,
     d1 |-> <<"audit", {m1}>>, j1 |-> <<"invitation", {m1}>>]

MCRows == DOMAIN MCTable
MCKind == [r \in MCRows |-> MCTable[r][1]]
MCRefs == [r \in MCRows |-> MCTable[r][2]]
MCSeeds == {"s1", "p1"}

MCScopes ==
    {{"shop", "photo"}, {"shop", "product", "order", "item"}, {"shop", "review"}, {"saved", "order", "item"},
     {"feedback", "reply", "announcement", "comment"}, {"notification", "preference"},
     {"vote", "electionVote", "audit", "invitation"}}
=============================================================================
