----------------------------- MODULE BallotBox -----------------------------
(***************************************************************************)
(* What polls and elections promise alike: every resident has one vote on  *)
(* an issue, for an answer that stood on its slate, and none is taken back *)
(* unless the voter's account is erased; every issue is closed in the end, *)
(* and from then on no vote is added.                                      *)
(***************************************************************************)
CONSTANTS Electorate, Issues, Answers

VARIABLES
    announced,  \* issues put to the vote
    slate,      \* <<issue, answer>>
    box,        \* <<voter, issue, answer>>
    closed,     \* issues that take no further votes
    erased      \* voters whose accounts are gone

boxVars == <<announced, slate, box, closed, erased>>

BoxInit == announced = {} /\ slate = {} /\ box = {} /\ closed = {} /\ erased = {}

(* An issue may be announced after its deadline, and is then closed at once. *)
Announce(b, cs) ==
    /\ b \notin announced
    /\ \A p \in slate : p[2] \notin cs
    /\ announced' = announced \union {b}
    /\ slate' = slate \union ({b} \X cs)
    /\ closed' \in {closed, closed \union {b}}
    /\ UNCHANGED <<box, erased>>

Nominate(b, c) ==
    /\ b \in announced
    /\ \A p \in slate : p[2] # c
    /\ slate' = slate \union {<<b, c>>}
    /\ UNCHANGED <<announced, box, closed, erased>>

Cast(u, b, c) ==
    /\ <<b, c>> \in slate
    /\ b \notin closed
    /\ u \notin erased
    /\ \A v \in box : ~(v[1] = u /\ v[2] = b)
    /\ box' = box \union {<<u, b, c>>}
    /\ UNCHANGED <<announced, slate, closed, erased>>

Close(bs) ==
    /\ bs \subseteq announced
    /\ closed' = closed \union bs
    /\ UNCHANGED <<announced, slate, box, erased>>

Erase(u) ==
    /\ erased' = erased \union {u}
    /\ box' = {v \in box : v[1] # u}
    /\ UNCHANGED <<announced, slate, closed>>

BoxNext ==
    \/ \E b \in Issues, cs \in SUBSET Answers : Announce(b, cs)
    \/ \E b \in Issues, c \in Answers : Nominate(b, c) \/ \E u \in Electorate : Cast(u, b, c)
    \/ \E bs \in SUBSET Issues : Close(bs)
    \/ \E u \in Electorate : Erase(u)

BoxSafety == BoxInit /\ [][BoxNext]_boxVars

ClosesIssue(b) == \E bs \in SUBSET Issues : b \in bs /\ Close(bs)

BoxSpec == BoxSafety /\ \A b \in Issues : WF_boxVars(ClosesIssue(b))
=============================================================================
