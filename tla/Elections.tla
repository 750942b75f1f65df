----------------------------- MODULE Elections -----------------------------
(***************************************************************************)
(* ElectionsService on top of Voting: creation, candidates, the timer that *)
(* opens the results of expired elections, and what findOne and findAll    *)
(* show.  The cutoff of the timer is taken when its call is built, and is  *)
(* applied to the rows when the database runs it; a slow call may overlap  *)
(* the next.  A view reads the rows of elections first and counts the      *)
(* votes of their candidates with a second query.                          *)
(***************************************************************************)
EXTENDS Voting

CONSTANTS
    Modes,      \* visibility modes the administrator chooses from
    Sweeps,     \* bound: calls of openExpiredResults in flight together
    Views       \* slots for findOne and findAll in flight

VARIABLES
    mode,       \* visibilityMode of the stored elections
    open,       \* elections with resultsOpen
    sweep,      \* sweep[s]: the cutoff of the call in slot s, None if free
    view,       \* view[w]: elections whose counts the view will show, None if free
    shown       \* history: elections whose counts were shown to anybody

electionVars == <<mode, open, sweep, view, shown>>
allVars == <<votingVars, electionVars>>

Mode == {"SEALED_UNTIL_DEADLINE", "LIVE_COUNT", "ADMIN_CONTROLLED"}

ASSUME ElectionsAssumption ==
    /\ Modes \subseteq Mode
    /\ None \notin Mode
    /\ \A bs \in SUBSET Ballots : None # bs

ElectionInit ==
    /\ VotingInit
    /\ mode = [b \in Ballots |-> None]
    /\ open = {}
    /\ sweep = [s \in Sweeps |-> None]
    /\ view = [w \in Views |-> None]
    /\ shown = {}

(* showResults of buildElectionDto. *)
ShowsResults(b) == b \in open \/ mode[b] = "LIVE_COUNT"

(* The answer to create shows the (zero) counts of a live election. *)
Create(b, e, m) ==
    /\ ~Stored(b)
    /\ deadline' = [deadline EXCEPT ![b] = e]
    /\ mode' = [mode EXCEPT ![b] = m]
    /\ shown' = IF m = "LIVE_COUNT" THEN shown \union {b} ELSE shown
    /\ UNCHANGED <<now, choices, votes, gone, req, acked, faults, open, sweep, view>>

(* At any time, also while votes are cast or after the deadline. *)
AddCandidate(b, c) ==
    /\ Stored(b)
    /\ \A p \in choices : p[2] # c
    /\ choices' = choices \union {<<b, c>>}
    /\ UNCHANGED <<now, deadline, votes, gone, req, acked, faults, electionVars>>

SweepStart(s) ==
    /\ sweep[s] = None
    /\ sweep' = [sweep EXCEPT ![s] = now]
    /\ UNCHANGED <<votingVars, mode, open, view, shown>>

(* Fault: the modes are not told apart. *)
DueAnyMode(cutoff) == {b \in Ballots : Expired(b, cutoff)}

Due(cutoff) == {b \in Ballots : Expired(b, cutoff) /\ mode[b] # "ADMIN_CONTROLLED"}

(* Fault: only what was due at the previous turn is opened. *)
SweepApplyStale(s) ==
    /\ sweep[s] # None
    /\ open' = open \union Due(sweep[s] - 1)
    /\ sweep' = [sweep EXCEPT ![s] = None]
    /\ UNCHANGED <<votingVars, mode, view, shown>>

SweepApply(s) ==
    /\ sweep[s] # None
    /\ open' = open \union Due(sweep[s])
    /\ sweep' = [sweep EXCEPT ![s] = None]
    /\ UNCHANGED <<votingVars, mode, view, shown>>

SweepFail(s) ==
    /\ sweep[s] # None
    /\ faults < MaxFaults
    /\ faults' = faults + 1
    /\ sweep' = [sweep EXCEPT ![s] = None]
    /\ UNCHANGED <<now, deadline, choices, votes, gone, req, acked, mode, open, view, shown>>

ViewRows(w, bs) ==
    /\ view[w] = None
    /\ \A b \in bs : Stored(b)
    /\ view' = [view EXCEPT ![w] = {b \in bs : ShowsResults(b)}]
    /\ UNCHANGED <<votingVars, mode, open, sweep, shown>>

ViewCounts(w) ==
    /\ view[w] # None
    /\ shown' = shown \union view[w]
    /\ view' = [view EXCEPT ![w] = None]
    /\ UNCHANGED <<votingVars, mode, open, sweep>>

Crash ==
    /\ VotesForgotten
    /\ sweep' = [s \in Sweeps |-> None]
    /\ view' = [w \in Views |-> None]
    /\ UNCHANGED <<mode, open, shown>>

ElectionNext ==
    \/ VotingNext /\ UNCHANGED electionVars
    \/ \E b \in Ballots, e \in Times, m \in Modes : Create(b, e, m)
    \/ \E b \in Ballots, c \in Choices : AddCandidate(b, c)
    \/ \E s \in Sweeps : SweepStart(s) \/ SweepApply(s) \/ SweepFail(s)
    \/ \E w \in Views : ViewCounts(w) \/ \E bs \in SUBSET Ballots : ViewRows(w, bs)
    \/ Crash

ElectionSafety == ElectionInit /\ [][ElectionNext]_allVars

(* Time passes, awaited calls settle, and the timer keeps firing. *)
ElectionFairness ==
    /\ WF_allVars(Tick /\ UNCHANGED electionVars)
    /\ \A r \in Voters : WF_allVars(VoteStep(r) /\ UNCHANGED electionVars)
    /\ \A s \in Sweeps : WF_allVars(SweepStart(s)) /\ WF_allVars(SweepApply(s))

ElectionSpec == ElectionSafety /\ ElectionFairness

-----------------------------------------------------------------------------
(* Types; modes are known for exactly the stored elections. *)
ElectionTypeOK ==
    /\ VotingTypeOK
    /\ mode \in [Ballots -> Modes \union {None}]
    /\ open \subseteq Ballots
    /\ sweep \in [Sweeps -> Times \union {None}]
    /\ view \in [Views -> (SUBSET Ballots) \union {None}]
    /\ shown \subseteq Ballots
    /\ \A b \in Ballots : Stored(b) <=> mode[b] # None

(* Counts of a sealed election are shown to nobody before its deadline, and  *)
(* those of one under the administrators' control never: neither through the *)
(* timer, nor through a view that read the row before and the votes after.   *)
SealKept ==
    \A b \in shown :
        \/ mode[b] = "LIVE_COUNT"
        \/ mode[b] = "SEALED_UNTIL_DEADLINE" /\ Expired(b, now)

(* Every election but those under the administrators' control has its        *)
(* results opened in the end, though turns of the timer may be lost.         *)
ResultsOpened ==
    \A b \in Ballots :
        Stored(b) /\ mode[b] # "ADMIN_CONTROLLED" ~> b \in open
=============================================================================
