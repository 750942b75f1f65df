-------------------------- MODULE ElectionsProofs --------------------------
(***************************************************************************)
(* Theorems about Elections, for any residents, ballots, candidates,       *)
(* deadlines and number of requests, timers and views in flight.           *)
(***************************************************************************)
EXTENDS Elections, VotingProofs

(* Opened elections are due, and what is under way opens or shows only what  *)
(* is due: cutoffs lie in the past, and a view shows what it may.            *)
OpenIsDue ==
    \A b \in open : Expired(b, now) /\ mode[b] # "ADMIN_CONTROLLED"

CutoffIsPast ==
    \A s \in Sweeps : sweep[s] # None => sweep[s] <= now

ViewMayShow ==
    \A w \in Views : view[w] # None => \A b \in view[w] : b \in open \/ mode[b] = "LIVE_COUNT"

SealInv == OpenIsDue /\ CutoffIsPast /\ ViewMayShow /\ SealKept

ElectionInv == VotingInv /\ SealInv

-----------------------------------------------------------------------------
LEMMA ElectionInitially == ElectionInit => ElectionTypeOK /\ ElectionInv
<1> SUFFICES ASSUME ElectionInit PROVE ElectionTypeOK /\ ElectionInv
    OBVIOUS
<1>1. ElectionTypeOK
    BY VotingInitially DEF ElectionInit, ElectionTypeOK, VotingInit, Stored
<1>2. SealInv
    BY DEF ElectionInit, SealInv, OpenIsDue, CutoffIsPast, ViewMayShow, SealKept
<1> QED BY <1>1, <1>2, VotingInitially DEF ElectionInit, ElectionInv

(* The clock moves forward, deadlines stay. *)
LEMMA VotingOnwards ==
    ASSUME VotingTypeOK, VotingNext
    PROVE now' >= now /\ deadline' = deadline
<1>1. now \in Int
    BY VotingAssumption DEF VotingTypeOK, Times
<1> QED BY <1>1 DEF VotingNext, Tick, VoteStep, VoteFind, VoteInsert, VoteRefused, VoteAnswer,
        VoteFail, VoteRead, DeleteUser

(* The steps that create rows keep the types of Voting. *)
LEMMA CreateTyped ==
    ASSUME ElectionTypeOK, NEW b \in Ballots, NEW e \in Times, NEW m \in Modes, Create(b, e, m)
    PROVE ElectionTypeOK'
<1>1. deadline' = [deadline EXCEPT ![b] = e] /\ e # None
    BY VotingAssumption DEF Create
<1>2. \A x \in Ballots : Stored(x) => Stored(x)'
    BY <1>1 DEF Stored, ElectionTypeOK, VotingTypeOK
<1>3. VotingTypeOK'
    <2>1. deadline' \in [Ballots -> Times \union {None}]
        BY <1>1 DEF ElectionTypeOK, VotingTypeOK
    <2>2. \A p \in choices' : Stored(p[1])'
        <3>1. choices' = choices /\ \A p \in choices : Stored(p[1]) /\ p[1] \in Ballots
            BY DEF Create, ElectionTypeOK, VotingTypeOK
        <3> QED BY <3>1, <1>2
    <2> QED BY <2>1, <2>2 DEF Create, ElectionTypeOK, VotingTypeOK
<1>4. mode' = [mode EXCEPT ![b] = m] /\ m # None
    BY ElectionsAssumption DEF Create
<1>5. \A x \in Ballots : Stored(x)' <=> mode'[x] # None
    BY <1>1, <1>4 DEF ElectionTypeOK, VotingTypeOK, Stored
<1>6. mode' \in [Ballots -> Modes \union {None}] /\ shown' \subseteq Ballots
    BY <1>4 DEF ElectionTypeOK, Create
<1> QED BY <1>3, <1>5, <1>6 DEF Create, ElectionTypeOK

LEMMA AddCandidateTyped ==
    ASSUME ElectionTypeOK, NEW b \in Ballots, NEW c \in Choices, AddCandidate(b, c)
    PROVE ElectionTypeOK'
<1>1. VotingTypeOK'
    BY DEF AddCandidate, ElectionTypeOK, VotingTypeOK, Stored
<1> QED BY <1>1 DEF AddCandidate, electionVars, ElectionTypeOK, Stored

(* Every step keeps the types. *)
LEMMA ElectionStepTyped ==
    ASSUME ElectionTypeOK, [ElectionNext]_allVars
    PROVE ElectionTypeOK'
<1> USE DEF electionVars
<1>1. CASE VotingNext /\ UNCHANGED electionVars
    BY <1>1, VotingStepTyped, VotingOnwards DEF ElectionTypeOK, Stored
<1>2. ASSUME NEW b \in Ballots, NEW e \in Times, NEW m \in Modes, Create(b, e, m) PROVE ElectionTypeOK'
    BY <1>2, CreateTyped
<1>3. ASSUME NEW b \in Ballots, NEW c \in Choices, AddCandidate(b, c) PROVE ElectionTypeOK'
    BY <1>3, AddCandidateTyped
<1>4. ASSUME NEW s \in Sweeps, SweepStart(s) PROVE ElectionTypeOK'
    BY <1>4 DEF SweepStart, votingVars, ElectionTypeOK, VotingTypeOK, Stored
<1>5. ASSUME NEW s \in Sweeps, SweepApply(s) PROVE ElectionTypeOK'
    BY <1>5 DEF SweepApply, Due, votingVars, ElectionTypeOK, VotingTypeOK, Stored
<1>6. ASSUME NEW s \in Sweeps, SweepFail(s) PROVE ElectionTypeOK'
    <2>1. faults' \in 0..MaxFaults
        BY <1>6, VotingAssumption DEF SweepFail, ElectionTypeOK, VotingTypeOK
    <2> QED BY <1>6, <2>1 DEF SweepFail, ElectionTypeOK, VotingTypeOK, Stored
<1>7. ASSUME NEW w \in Views, NEW bs \in SUBSET Ballots, ViewRows(w, bs) PROVE ElectionTypeOK'
    BY <1>7 DEF ViewRows, votingVars, ElectionTypeOK, VotingTypeOK, Stored
<1>8. ASSUME NEW w \in Views, ViewCounts(w) PROVE ElectionTypeOK'
    BY <1>8 DEF ViewCounts, votingVars, ElectionTypeOK, VotingTypeOK, Stored
<1>9. CASE Crash
    BY <1>9, ForgettingTyped DEF Crash, VotesForgotten, ElectionTypeOK, Stored
<1>10. CASE UNCHANGED allVars
    BY <1>10, VotingStutters DEF allVars, votingVars, ElectionTypeOK, VotingTypeOK, Stored
<1> QED BY <1>1, <1>2, <1>3, <1>4, <1>5, <1>6, <1>7, <1>8, <1>9, <1>10 DEF ElectionNext

(* The state always has its types, and every vote, stored or in flight, is   *)
(* for a candidate of its election (findOne, vote, addCandidate).            *)
THEOREM ElectionsTyped == ElectionSafety => []ElectionTypeOK
<1>1. ElectionTypeOK /\ [ElectionNext]_allVars => ElectionTypeOK'
    BY ElectionStepTyped
<1> QED BY <1>1, ElectionInitially, PTL DEF ElectionSafety

-----------------------------------------------------------------------------
(* The steps of the timer, of views and of administrators leave the votes    *)
(* as they are.                                                             *)
LEMMA VotesKept ==
    ASSUME ElectionTypeOK, VotingInv, [ElectionNext]_allVars
    PROVE VotingInv'
<1>1. CASE VotingNext
    BY <1>1, VotingStepKeeps DEF ElectionTypeOK
<1>2. CASE Crash
    BY <1>2, ForgettingKeeps DEF Crash, ElectionTypeOK
<1>3. ASSUME UNCHANGED <<votes, acked, req, gone>> PROVE VotingInv'
    BY <1>3 DEF VotingInv, OneVoteEach, AckedIsStored, AnswerIsStored, At, RowOf
<1> QED BY <1>1, <1>2, <1>3 DEF ElectionNext, Create, AddCandidate, SweepStart, SweepApply,
        SweepFail, ViewRows, ViewCounts, allVars, votingVars

(* What has expired stays expired. *)
LEMMA ExpiredStays ==
    ASSUME ElectionTypeOK, [ElectionNext]_allVars, NEW b \in Ballots, Expired(b, now)
    PROVE Expired(b, now)'
<1>1. now' >= now
    <2>1. now \in Int
        BY VotingAssumption DEF ElectionTypeOK, VotingTypeOK, Times
    <2> QED BY <2>1, VotingOnwards DEF ElectionTypeOK, ElectionNext, Create, AddCandidate, SweepStart,
            SweepApply, SweepFail, ViewRows, ViewCounts, Crash, VotesForgotten, allVars, votingVars
<1>2. deadline'[b] = deadline[b]
    BY VotingOnwards DEF Expired, Stored, ElectionTypeOK, VotingTypeOK, ElectionNext, Create, AddCandidate,
        SweepStart, SweepApply, SweepFail, ViewRows, ViewCounts, Crash, VotesForgotten, allVars, votingVars
<1>3. now \in Int /\ now' \in Int /\ (deadline[b] # None => deadline[b] \in Int)
    BY ElectionStepTyped, VotingAssumption DEF ElectionTypeOK, VotingTypeOK, Times
<1> QED BY <1>1, <1>2, <1>3 DEF Expired, Stored

(* The mode of a stored election stays. *)
LEMMA ModeStays ==
    ASSUME ElectionTypeOK, [ElectionNext]_allVars, NEW b \in Ballots, Stored(b)
    PROVE mode'[b] = mode[b]
    BY DEF ElectionTypeOK, ElectionNext, Create, AddCandidate, SweepStart, SweepApply, SweepFail,
        ViewRows, ViewCounts, Crash, allVars, electionVars

(* Every step keeps the seal. *)
LEMMA SealStep ==
    ASSUME ElectionTypeOK, SealInv, [ElectionNext]_allVars
    PROVE SealInv'
<1> USE DEF SealInv
<1>1. ElectionTypeOK'
    BY ElectionStepTyped
<1>2. now \in Int /\ now' \in Int /\ \A b \in Ballots : deadline[b] # None => deadline[b] \in Int
    BY <1>1, VotingAssumption DEF ElectionTypeOK, VotingTypeOK, Times
<1>3. now' >= now
    BY <1>2, VotingOnwards DEF ElectionTypeOK, ElectionNext, Create, AddCandidate, SweepStart,
        SweepApply, SweepFail, ViewRows, ViewCounts, Crash, VotesForgotten, allVars, votingVars
<1>4. \A b \in open' : b \in open \/ (Expired(b, now) /\ mode[b] # "ADMIN_CONTROLLED")
    <2>1. ASSUME NEW s \in Sweeps, SweepApply(s), NEW b \in open', b \notin open
          PROVE Expired(b, now) /\ mode[b] # "ADMIN_CONTROLLED"
        <3>1. b \in Due(sweep[s]) /\ sweep[s] # None
            BY <2>1 DEF SweepApply
        <3>2. sweep[s] <= now /\ sweep[s] \in Int
            BY <3>1, VotingAssumption DEF CutoffIsPast, ElectionTypeOK, Times
        <3> QED BY <3>1, <3>2, <1>2 DEF Due, Expired, Stored
    <2> QED BY <2>1 DEF ElectionNext, Create, AddCandidate, SweepStart,
        SweepFail, ViewRows, ViewCounts, Crash, allVars, electionVars
<1>5. OpenIsDue'
    <2> SUFFICES ASSUME NEW b \in open' PROVE Expired(b, now)' /\ mode'[b] # "ADMIN_CONTROLLED"
        BY DEF OpenIsDue
    <2>1. b \in Ballots /\ Expired(b, now) /\ mode[b] # "ADMIN_CONTROLLED"
        BY <1>1, <1>4 DEF OpenIsDue, ElectionTypeOK
    <2> QED BY <2>1, ExpiredStays, ModeStays DEF Expired
<1>6. CutoffIsPast'
    <2> SUFFICES ASSUME NEW s \in Sweeps, sweep'[s] # None PROVE sweep'[s] <= now'
        BY DEF CutoffIsPast
    <2>1. sweep'[s] = now \/ (sweep'[s] = sweep[s] /\ sweep[s] # None)
        BY DEF ElectionTypeOK, ElectionNext, Create, AddCandidate, SweepStart, SweepApply, SweepFail,
            ViewRows, ViewCounts, Crash, allVars, electionVars
    <2>2. CASE sweep'[s] = now
        BY <2>2, <1>2, <1>3
    <2>3. CASE sweep'[s] = sweep[s] /\ sweep[s] # None
        <3>1. sweep[s] <= now /\ sweep[s] \in Int
            BY <2>3, VotingAssumption DEF CutoffIsPast, ElectionTypeOK, Times
        <3> QED BY <2>3, <3>1, <1>2, <1>3
    <2> QED BY <2>1, <2>2, <2>3
<1>7. \A b \in Ballots : (b \in open \/ mode[b] = "LIVE_COUNT") => (b \in open' \/ mode'[b] = "LIVE_COUNT")
    <2>1. open \subseteq open'
        BY DEF ElectionNext, Create, AddCandidate, SweepStart, SweepApply, SweepFail,
            ViewRows, ViewCounts, Crash, allVars, electionVars
    <2>2. \A b \in Ballots : mode[b] = "LIVE_COUNT" => Stored(b)
        BY ElectionsAssumption DEF ElectionTypeOK, Mode
    <2> QED BY <2>1, <2>2, ModeStays
<1>8. ViewMayShow'
    <2> SUFFICES ASSUME NEW w \in Views, view'[w] # None, NEW b \in view'[w]
                 PROVE b \in open' \/ mode'[b] = "LIVE_COUNT"
        BY DEF ViewMayShow
    <2>1. b \in Ballots
        BY <1>1 DEF ElectionTypeOK
    <2>2. b \in open \/ mode[b] = "LIVE_COUNT"
        <3>1. CASE view'[w] = view[w]
            BY <3>1 DEF ViewMayShow
        <3>2. ASSUME NEW v \in Views, NEW bs \in SUBSET Ballots, ViewRows(v, bs), view'[w] # view[w]
              PROVE b \in open \/ mode[b] = "LIVE_COUNT"
            BY <3>2 DEF ViewRows, ShowsResults, ElectionTypeOK
        <3>3. (\E v \in Views, bs \in SUBSET Ballots : ViewRows(v, bs)) \/ view'[w] = view[w]
            BY DEF ElectionTypeOK, ElectionNext, Create, AddCandidate, SweepStart, SweepApply, SweepFail,
                ViewCounts, Crash, allVars, electionVars
        <3> QED BY <3>1, <3>2, <3>3
    <2> QED BY <2>1, <2>2, <1>7
<1>9. SealKept'
    <2> SUFFICES ASSUME NEW b \in shown'
                 PROVE mode'[b] = "LIVE_COUNT" \/ (mode'[b] = "SEALED_UNTIL_DEADLINE" /\ Expired(b, now)')
        BY DEF SealKept, Expired, Stored
    <2>1. b \in Ballots
        BY <1>1 DEF ElectionTypeOK
    <2>2. CASE b \in shown
        BY <2>1, <2>2, ExpiredStays, ModeStays, ElectionsAssumption DEF SealKept, Expired, ElectionTypeOK, Mode
    <2>3. ASSUME NEW w \in Views, ViewCounts(w), b \notin shown
          PROVE mode'[b] = "LIVE_COUNT" \/ (mode'[b] = "SEALED_UNTIL_DEADLINE" /\ Expired(b, now)')
        <3>1. mode' = mode /\ (b \in open' \/ mode[b] = "LIVE_COUNT")
            BY <2>3 DEF ViewCounts, ViewMayShow
        <3>2. b \in open' => Expired(b, now)' /\ mode'[b] # "ADMIN_CONTROLLED"
            BY <1>5 DEF OpenIsDue
        <3>3. Expired(b, now)' => mode'[b] \in Mode
            BY <1>1, <2>1, ElectionsAssumption DEF ElectionTypeOK, Expired
        <3> QED BY <3>1, <3>2, <3>3 DEF Mode
    <2>4. ASSUME NEW c \in Ballots, NEW e \in Times, NEW m \in Modes, Create(c, e, m), b \notin shown
          PROVE mode'[b] = "LIVE_COUNT"
        BY <2>4 DEF Create, ElectionTypeOK
    <2>5. \/ b \in shown
          \/ \E w \in Views : ViewCounts(w)
          \/ \E c \in Ballots, e \in Times, m \in Modes : Create(c, e, m)
        BY DEF ElectionNext, AddCandidate, SweepStart, SweepApply, SweepFail,
            ViewRows, Crash, allVars, electionVars
    <2> QED BY <2>2, <2>3, <2>4, <2>5
<1> QED BY <1>5, <1>6, <1>8, <1>9

LEMMA ElectionInvariant == ElectionSafety => []ElectionInv
<1>1. ElectionTypeOK /\ ElectionInv /\ [ElectionNext]_allVars => ElectionInv'
    BY VotesKept, SealStep DEF ElectionInv
<1> QED BY <1>1, ElectionInitially, ElectionsTyped, PTL DEF ElectionSafety

(* No resident has two votes in one election, however many requests race. *)
THEOREM ElectionOneVote == ElectionSafety => []OneVoteEach
<1>1. ElectionInv => OneVoteEach
    BY DEF ElectionInv, VotingInv
<1> QED BY <1>1, ElectionInvariant, PTL

(* A vote whose request succeeded stays until its voter's account is deleted. *)
THEOREM ElectionVotesKept == ElectionSafety => []AckedIsStored
<1>1. ElectionInv => AckedIsStored
    BY DEF ElectionInv, VotingInv
<1> QED BY <1>1, ElectionInvariant, PTL

(* Counts are shown only of live elections, and of sealed ones after their   *)
(* deadline (buildElectionDto with openExpiredResults).                      *)
THEOREM ElectionSeals == ElectionSafety => []SealKept
<1>1. ElectionInv => SealKept
    BY DEF ElectionInv, SealInv
<1> QED BY <1>1, ElectionInvariant, PTL

-----------------------------------------------------------------------------
(* An election that is closed stays closed: no request on it begins.         *)
LEMMA ClosedStays ==
    ASSUME ElectionTypeOK, [ElectionNext]_allVars
    PROVE ClosedBallots \subseteq ClosedBallots'
<1> SUFFICES ASSUME NEW b \in ClosedBallots PROVE b \in ClosedBallots'
    OBVIOUS
<1>1. b \in Ballots /\ Expired(b, now) /\ \A r \in Voters : req[r] # None => req[r].ballot # b
    BY DEF ClosedBallots
<1>2. Expired(b, now)'
    BY <1>1, ExpiredStays
<1>3. ASSUME NEW r \in Voters, req'[r] # None PROVE req'[r].ballot # b
    <2>1. CASE VotingNext
        BY <1>3, <2>1, NoneBegins DEF ElectionTypeOK
    <2>2. CASE Crash
        BY <1>3, <2>2 DEF Crash, VotesForgotten
    <2> QED BY <1>1, <1>3, <2>1, <2>2 DEF ElectionNext, Create, AddCandidate, SweepStart, SweepApply,
            SweepFail, ViewRows, ViewCounts, allVars, votingVars
<1> QED BY <1>1, <1>2, <1>3 DEF ClosedBallots

(* Every step is a step of BallotBox, or none. *)
LEMMA ElectionStepImplements ==
    ASSUME ElectionTypeOK, [ElectionNext]_allVars
    PROVE [Urn!BoxNext]_(Urn!boxVars)
<1>0. VotingTypeOK /\ VotingTypeOK'
    BY ElectionStepTyped DEF ElectionTypeOK
<1>1. CASE VotingNext
    BY <1>0, <1>1, VotingStepImplements
<1>2. CASE Crash
    BY <1>0, <1>2, ForgettingImplements DEF Crash
<1>3. CASE UNCHANGED <<deadline, choices, votes, gone>>
    BY <1>3, ClosedStays, OnlyCloses
<1>4. ASSUME NEW b \in Ballots, NEW e \in Times, NEW m \in Modes, Create(b, e, m) PROVE Urn!BoxNext
    <2>1. {} \in SUBSET Choices /\ choices' = choices \union ({b} \X {})
        BY <1>4 DEF Create
    <2> QED BY <1>0, <1>4, <2>1, StoringAnnounces DEF Create
<1>5. ASSUME NEW b \in Ballots, NEW c \in Choices, AddCandidate(b, c) PROVE Urn!BoxNext
    <2>1. StoredBallots' = StoredBallots /\ ClosedBallots' = ClosedBallots /\ b \in StoredBallots
        BY <1>5 DEF AddCandidate, StoredBallots, ClosedBallots, Expired, Stored
    <2>2. Urn!Nominate(b, c)
        BY <1>5, <2>1 DEF AddCandidate, Urn!Nominate
    <2> QED BY <2>2 DEF Urn!BoxNext
<1> QED BY <1>1, <1>2, <1>3, <1>4, <1>5 DEF ElectionNext, SweepStart, SweepApply, SweepFail, ViewRows, ViewCounts,
        allVars, votingVars

(* ElectionsService implements BallotBox, as far as safety goes: in          *)
(* particular no election gains a vote once it expired and the votes that    *)
(* were in flight have ended.                                               *)
THEOREM ElectionsImplementBallotBox == ElectionSafety => Urn!BoxSafety
<1>1. ElectionInit => Urn!BoxInit
    BY DEF ElectionInit, VotingInit, Urn!BoxInit, StoredBallots, ClosedBallots, Expired, Stored
<1>2. ElectionTypeOK /\ [ElectionNext]_allVars => [Urn!BoxNext]_(Urn!boxVars)
    BY ElectionStepImplements
<1> QED BY <1>1, <1>2, ElectionsTyped, PTL DEF ElectionSafety, Urn!BoxSafety
=============================================================================
