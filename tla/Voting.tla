------------------------------- MODULE Voting -------------------------------
(***************************************************************************)
(* What PollsService.vote and ElectionsService.vote have in common, line   *)
(* for line: read the ballot with its choices, compare its expiry with the *)
(* clock, look for an earlier vote, insert, answer.  Between any two of    *)
(* these other requests run, the clock moves on, and accounts are deleted. *)
(* A ballot is a poll or an election, a choice an option or a candidate.   *)
(***************************************************************************)
EXTENDS Integers, FiniteSets

CONSTANTS
    None,
    Residents,
    Leavers,     \* residents who may delete their account
    Ballots,     \* ids of polls or elections
    Choices,     \* ids of options or candidates
    Voters,      \* slots for votes in flight
    Horizon,     \* bound: the clock stops here, and no ballot expires later
    MaxFaults    \* bound: failed calls and restarts

VARIABLES
    now,         \* new Date()
    deadline,    \* expiresAt of the stored ballots, None for the others
    choices,     \* stored choices, as <<ballot, choice>>
    votes,       \* rows of votes / election_votes, as <<voter, ballot, choice>>
    gone,        \* deleted accounts
    req,         \* req[r]: the vote in slot r, None when it is free
    acked,       \* history: votes whose request was answered with success
    faults

votingVars == <<now, deadline, choices, votes, gone, req, acked, faults>>

Times == 0..Horizon

ASSUME VotingAssumption ==
    /\ Horizon \in Nat /\ MaxFaults \in Nat
    /\ Leavers \subseteq Residents
    /\ None \notin Times

VoteRequest == [pc: {"find", "insert", "answer"}, voter: Residents, ballot: Ballots, choice: Choices]

(* None is no request either. *)
ASSUME RequestAssumption == None \notin VoteRequest

VotingInit ==
    /\ now = 0
    /\ deadline = [b \in Ballots |-> None]
    /\ choices = {}
    /\ votes = {}
    /\ gone = {}
    /\ req = [r \in Voters |-> None]
    /\ acked = {}
    /\ faults = 0

-----------------------------------------------------------------------------
Stored(b) == deadline[b] # None

Expired(b, t) == Stored(b) /\ deadline[b] <= t

At(r, pc) == req[r] # None /\ req[r].pc = pc

RowOf(r) == <<req[r].voter, req[r].ballot, req[r].choice>>

HasVoted(u, b) == \E v \in votes : v[1] = u /\ v[2] = b

(* Fault: the expiry is not looked at. *)
TakesVotesAlways(b, c) == Stored(b) /\ <<b, c>> \in choices

TakesVotes(b, c) == Stored(b) /\ ~Expired(b, now) /\ <<b, c>> \in choices

VoteRead(r, u, b, c) ==
    /\ req[r] = None
    /\ TakesVotes(b, c)
    /\ req' = [req EXCEPT ![r] = [pc |-> "find", voter |-> u, ballot |-> b, choice |-> c]]
    /\ UNCHANGED <<now, deadline, choices, votes, gone, acked, faults>>

VoteFind(r) ==
    /\ At(r, "find")
    /\ ~HasVoted(req[r].voter, req[r].ballot)
    /\ req' = [req EXCEPT ![r].pc = "insert"]
    /\ UNCHANGED <<now, deadline, choices, votes, gone, acked, faults>>

(* Primary key @@id([userId, pollId]) and the foreign key on the user. *)
KeysHold(r) ==
    /\ ~HasVoted(req[r].voter, req[r].ballot)
    /\ req[r].voter \notin gone

(* Fault: an upsert in place of the insert. *)
VoteUpsert(r) ==
    /\ At(r, "insert")
    /\ req[r].voter \notin gone
    /\ votes' = {v \in votes : ~(v[1] = req[r].voter /\ v[2] = req[r].ballot)} \union {RowOf(r)}
    /\ req' = [req EXCEPT ![r].pc = "answer"]
    /\ UNCHANGED <<now, deadline, choices, gone, acked, faults>>

VoteInsert(r) ==
    /\ At(r, "insert")
    /\ KeysHold(r)
    /\ votes' = votes \union {RowOf(r)}
    /\ req' = [req EXCEPT ![r].pc = "answer"]
    /\ UNCHANGED <<now, deadline, choices, gone, acked, faults>>

(* An earlier vote is found (409), or the insert breaks a key (500). *)
VoteRefused(r) ==
    /\ \/ At(r, "find") /\ HasVoted(req[r].voter, req[r].ballot)
       \/ At(r, "insert") /\ ~KeysHold(r)
    /\ req' = [req EXCEPT ![r] = None]
    /\ UNCHANGED <<now, deadline, choices, votes, gone, acked, faults>>

VoteAnswer(r) ==
    /\ At(r, "answer")
    /\ acked' = acked \union {RowOf(r)}
    /\ req' = [req EXCEPT ![r] = None]
    /\ UNCHANGED <<now, deadline, choices, votes, gone, faults>>

(* A call rejects, or the answer to the client is lost. *)
VoteFail(r) ==
    /\ req[r] # None
    /\ faults < MaxFaults
    /\ faults' = faults + 1
    /\ req' = [req EXCEPT ![r] = None]
    /\ UNCHANGED <<now, deadline, choices, votes, gone, acked>>

VoteStep(r) == VoteFind(r) \/ VoteInsert(r) \/ VoteRefused(r) \/ VoteAnswer(r)

(* deleteUser, as far as votes go: one transaction. *)
DeleteUser(u) ==
    /\ u \in Leavers \ gone
    /\ gone' = gone \union {u}
    /\ votes' = {v \in votes : v[1] # u}
    /\ UNCHANGED <<now, deadline, choices, req, acked, faults>>

Tick ==
    /\ now < Horizon
    /\ now' = now + 1
    /\ UNCHANGED <<deadline, choices, votes, gone, req, acked, faults>>

(* The process restarts and forgets the votes in flight. *)
VotesForgotten ==
    /\ faults < MaxFaults
    /\ faults' = faults + 1
    /\ req' = [r \in Voters |-> None]
    /\ UNCHANGED <<now, deadline, choices, votes, gone, acked>>

VotingNext ==
    \/ Tick
    \/ \E r \in Voters :
        \/ VoteStep(r) \/ VoteFail(r)
        \/ \E u \in Residents, b \in Ballots, c \in Choices : VoteRead(r, u, b, c)
    \/ \E u \in Leavers : DeleteUser(u)

-----------------------------------------------------------------------------
(* Types; and that a stored vote, or one about to be, is for a choice of its *)
(* own ballot, however late the choice was added.                            *)
VotingTypeOK ==
    /\ now \in Times
    /\ deadline \in [Ballots -> Times \union {None}]
    /\ choices \subseteq Ballots \X Choices
    /\ votes \subseteq Residents \X Ballots \X Choices
    /\ gone \subseteq Leavers
    /\ req \in [Voters -> VoteRequest \union {None}]
    /\ acked \subseteq Residents \X Ballots \X Choices
    /\ faults \in 0..MaxFaults
    /\ \A p \in choices : Stored(p[1])
    /\ \A v \in votes : <<v[2], v[3]>> \in choices
    /\ \A r \in Voters : req[r] # None => <<req[r].ballot, req[r].choice>> \in choices

(* One vote per resident and ballot, although two requests may both find     *)
(* none and then both insert.                                               *)
OneVoteEach ==
    \A v, w \in votes : v[1] = w[1] /\ v[2] = w[2] => v = w

(* A resident who was told that the vote counts has that very vote stored,   *)
(* whatever a second request of the same resident did, until the account is  *)
(* deleted.                                                                 *)
AckedIsStored ==
    \A v \in acked : v \in votes \/ v[1] \in gone

(* A vote in flight that was let in before the deadline still counts: a      *)
(* ballot is closed once it expired and the last of them has ended.          *)
ClosedBallots == {b \in Ballots : Expired(b, now) /\ \A r \in Voters : req[r] # None => req[r].ballot # b}

StoredBallots == {b \in Ballots : Stored(b)}

Urn == INSTANCE BallotBox WITH
           Electorate <- Residents, Issues <- Ballots, Answers <- Choices,
           announced <- StoredBallots, slate <- choices, box <- votes,
           closed <- ClosedBallots, erased <- gone

(* The vote handlers with clock, races, failures and deletions implement     *)
(* BallotBox: in particular no closed ballot ever gains a vote, and every    *)
(* ballot closes.                                                           *)
ImplementsBallotBox == Urn!BoxSpec
=============================================================================
