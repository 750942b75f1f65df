------------------------------- MODULE Polls -------------------------------
(***************************************************************************)
(* PollsService on top of Voting: a poll is created together with its      *)
(* options; findOne and findAll read polls with the counts of their        *)
(* options, and look at the clock only after that.  Their routes are       *)
(* public.                                                                 *)
(***************************************************************************)
EXTENDS Voting

CONSTANTS
    Views       \* slots for findOne and findAll in flight, one poll each

VARIABLES
    view,       \* view[w]: what was read for the view in slot w, None if free
    answer      \* answer[w]: the last view that slot w answered, None at first

pollVars == <<view, answer>>
allVars == <<votingVars, pollVars>>

(* counted: the votes behind the counts, None if counts are not shown; own:  *)
(* the option in myVoteOptionId; settled (history): the poll was closed when *)
(* its votes were counted.                                                   *)
PollView == [poll: Ballots, viewer: Residents,
             counted: (SUBSET (Residents \X Ballots \X Choices)) \union {None},
             own: Choices \union {None}, settled: BOOLEAN]

ASSUME PollsAssumption ==
    /\ IsFiniteSet(Choices)
    /\ \A b \in Ballots, u \in Residents, x \in BOOLEAN :
            None # [poll |-> b, viewer |-> u, counted |-> {}, own |-> None, settled |-> x]

PollInit ==
    /\ VotingInit
    /\ view = [w \in Views |-> None]
    /\ answer = [w \in Views |-> None]

(* @ArrayMinSize(2) of PollCreateDto. *)
EnoughOptions(cs) == Cardinality(cs) >= 2

(* Any expiry is taken, also one in the past. *)
Create(b, e, cs) ==
    /\ ~Stored(b)
    /\ \A p \in choices : p[2] \notin cs
    /\ EnoughOptions(cs)
    /\ deadline' = [deadline EXCEPT ![b] = e]
    /\ choices' = choices \union ({b} \X cs)
    /\ UNCHANGED <<now, votes, gone, req, acked, faults, pollVars>>

(* JwtAccessGuard lets a public route pass before it looks at the token, so  *)
(* that nobody is the user of the request.                                   *)
Actor(u) == None

OwnVote(actor, b) ==
    IF HasVoted(actor, b)
    THEN CHOOSE c \in Choices : <<actor, b, c>> \in votes
    ELSE None

ViewRows(w, u, b) ==
    /\ view[w] = None
    /\ Stored(b)
    /\ view' = [view EXCEPT ![w] =
            [poll |-> b, viewer |-> u, counted |-> {v \in votes : v[2] = b},
             own |-> OwnVote(Actor(u), b), settled |-> b \in ClosedBallots]]
    /\ UNCHANGED <<votingVars, answer>>

CountsShown(b) == Expired(b, now)

ViewAnswer(w) ==
    /\ view[w] # None
    /\ answer' = [answer EXCEPT ![w] =
            [view[w] EXCEPT !.counted = IF CountsShown(view[w].poll) THEN @ ELSE None]]
    /\ view' = [view EXCEPT ![w] = None]
    /\ UNCHANGED votingVars

Crash ==
    /\ VotesForgotten
    /\ view' = [w \in Views |-> None]
    /\ UNCHANGED answer

PollNext ==
    \/ VotingNext /\ UNCHANGED pollVars
    \/ \E b \in Ballots, e \in Times, cs \in SUBSET Choices : Create(b, e, cs)
    \/ \E w \in Views : ViewAnswer(w) \/ \E u \in Residents, b \in Ballots : ViewRows(w, u, b)
    \/ Crash

PollSpec == PollInit /\ [][PollNext]_allVars

-----------------------------------------------------------------------------
(* Types; and that a stored poll has options to choose between. *)
PollTypeOK ==
    /\ VotingTypeOK
    /\ \A b \in StoredBallots : Cardinality({p \in choices : p[1] = b}) >= 2
    /\ view \in [Views -> PollView \union {None}]
    /\ answer \in [Views -> PollView \union {None}]

ShowsCounts(w) == answer[w] # None /\ answer[w].counted # None

(* "Show vote counts only after poll expires" (polls.service.ts), although   *)
(* the votes are counted before the clock is read.                          *)
CountsOnlyAfterExpiry ==
    \A w \in Views : ShowsCounts(w) => Expired(answer[w].poll, now)

(* All who look at a poll once it is closed see the same result, but for the *)
(* votes of accounts deleted in between.                                     *)
ResultsAgree ==
    \A w, x \in Views :
        /\ ShowsCounts(w) /\ ShowsCounts(x)
        /\ answer[w].poll = answer[x].poll
        /\ answer[w].settled /\ answer[x].settled
        => \A v \in answer[w].counted : v \in answer[x].counted \/ v[1] \in gone
=============================================================================
