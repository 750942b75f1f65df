---------------------------- MODULE PollsProofs ----------------------------
(***************************************************************************)
(* Theorems about Polls, for any residents, polls, options, deadlines and  *)
(* number of requests and views in flight.                                 *)
(***************************************************************************)
EXTENDS Polls, VotingProofs, FiniteSetTheorems

(* A count of a closed poll: all its votes, and no others but of accounts    *)
(* that were deleted since.                                                 *)
IsFinal(r) ==
    /\ r.poll \in ClosedBallots
    /\ \A v \in votes : v[2] = r.poll => v \in r.counted
    /\ \A v \in r.counted : v[2] = r.poll /\ (v \in votes \/ v[1] \in gone)

SettledIsFinal ==
    \A w \in Views :
        /\ view[w] # None /\ view[w].settled => IsFinal(view[w])
        /\ ShowsCounts(w) /\ answer[w].settled => IsFinal(answer[w])

PollInv == CountsOnlyAfterExpiry /\ SettledIsFinal

-----------------------------------------------------------------------------
LEMMA PollInitially == PollInit => PollTypeOK /\ PollInv
<1> SUFFICES ASSUME PollInit PROVE PollTypeOK /\ PollInv
    OBVIOUS
<1>1. StoredBallots = {}
    BY DEF PollInit, VotingInit, StoredBallots, Stored
<1>2. PollTypeOK
    BY <1>1, VotingInitially DEF PollInit, PollTypeOK
<1>3. PollInv
    BY DEF PollInit, PollInv, CountsOnlyAfterExpiry, SettledIsFinal, ShowsCounts
<1> QED BY <1>2, <1>3

-----------------------------------------------------------------------------
(* A view has its parts. *)
LEMMA ViewParts ==
    ASSUME PollTypeOK, NEW w \in Views, NEW u \in Residents, NEW b \in Ballots, NEW x \in BOOLEAN
    PROVE [poll |-> b, viewer |-> u, counted |-> {v \in votes : v[2] = b},
           own |-> OwnVote(Actor(u), b), settled |-> x] \in PollView
<1>1. {v \in votes : v[2] = b} \in SUBSET (Residents \X Ballots \X Choices)
    BY DEF PollTypeOK, VotingTypeOK
<1>2. OwnVote(Actor(u), b) \in Choices \union {None}
    <2>1. CASE HasVoted(Actor(u), b)
        <3>1. PICK v \in votes : v[1] = Actor(u) /\ v[2] = b
            BY <2>1 DEF HasVoted
        <3>2. v \in Residents \X Ballots \X Choices
            BY <3>1 DEF PollTypeOK, VotingTypeOK
        <3>3. v = <<Actor(u), b, v[3]>> /\ v[3] \in Choices
            BY <3>1, <3>2
        <3>4. \E c \in Choices : <<Actor(u), b, c>> \in votes
            BY <3>1, <3>3
        <3> QED BY <2>1, <3>4 DEF OwnVote
    <2>2. CASE ~HasVoted(Actor(u), b)
        BY <2>2 DEF OwnVote
    <2> QED BY <2>1, <2>2
<1> HIDE DEF OwnVote
<1> QED BY <1>1, <1>2 DEF PollView

(* A poll is created with all its options, which no later step takes away.  *)
LEMMA CreateTyped ==
    ASSUME PollTypeOK, NEW b \in Ballots, NEW e \in Times, NEW cs \in SUBSET Choices, Create(b, e, cs)
    PROVE PollTypeOK'
<1>1. deadline' = [deadline EXCEPT ![b] = e] /\ e # None /\ ~Stored(b) /\ deadline \in [Ballots -> Times \union {None}]
    BY VotingAssumption DEF Create, PollTypeOK, VotingTypeOK
<1>2. choices' = choices \union ({b} \X cs) /\ \A p \in choices : p \in Ballots \X Choices /\ Stored(p[1])
    BY DEF Create, PollTypeOK, VotingTypeOK
<1>3. \A x \in Ballots : Stored(x)' <=> Stored(x) \/ x = b
    BY <1>1 DEF Stored
<1>4. VotingTypeOK'
    <2>1. deadline' \in [Ballots -> Times \union {None}] /\ choices' \subseteq Ballots \X Choices
        BY <1>1, <1>2
    <2>2. \A p \in choices' : Stored(p[1])'
        BY <1>2, <1>3
    <2> QED BY <1>2, <2>1, <2>2 DEF Create, PollTypeOK, VotingTypeOK
<1>5. ASSUME NEW x \in StoredBallots' PROVE Cardinality({p \in choices' : p[1] = x}) >= 2
    <2>1. CASE x = b
        <3>1. {p \in choices' : p[1] = x} = {b} \X cs
            BY <1>1, <1>2, <2>1
        <3>2. IsFiniteSet(cs)
            BY FS_Subset, PollsAssumption
        <3>3. Cardinality({b} \X cs) = Cardinality({b}) * Cardinality(cs) /\ Cardinality({b}) = 1
            BY <3>2, FS_Product, FS_Singleton
        <3>4. Cardinality(cs) \in Nat /\ Cardinality(cs) >= 2
            BY <3>2, FS_CardinalityType DEF Create, EnoughOptions
        <3>5. 1 * Cardinality(cs) = Cardinality(cs)
            BY <3>4
        <3>6. Cardinality({b} \X cs) = Cardinality(cs)
            BY <3>3, <3>5
        <3> QED BY <3>1, <3>4, <3>6
    <2>2. CASE x # b
        <3>1. {p \in choices' : p[1] = x} = {p \in choices : p[1] = x}
            BY <1>2, <2>2
        <3>2. x \in StoredBallots
            BY <1>3, <2>2 DEF StoredBallots
        <3> QED BY <3>1, <3>2 DEF PollTypeOK
    <2> QED BY <2>1, <2>2
<1> QED BY <1>4, <1>5 DEF Create, pollVars, PollTypeOK

(* Every step keeps the types. *)
LEMMA PollStepTyped ==
    ASSUME PollTypeOK, [PollNext]_allVars
    PROVE PollTypeOK'
<1>1. CASE VotingNext /\ UNCHANGED pollVars
    <2>1. UNCHANGED <<deadline, choices>>
        BY <1>1 DEF VotingNext, Tick, VoteStep, VoteFind, VoteInsert, VoteRefused, VoteAnswer,
            VoteFail, VoteRead, DeleteUser
    <2>2. StoredBallots' = StoredBallots
        BY <2>1 DEF StoredBallots, Stored
    <2> QED BY <1>1, <2>1, <2>2, VotingStepTyped DEF PollTypeOK, pollVars
<1>2. ASSUME NEW b \in Ballots, NEW e \in Times, NEW cs \in SUBSET Choices, Create(b, e, cs) PROVE PollTypeOK'
    BY <1>2, CreateTyped
<1>3. ASSUME UNCHANGED votingVars,
             view' \in [Views -> PollView \union {None}], answer' \in [Views -> PollView \union {None}]
      PROVE PollTypeOK'
    BY <1>3 DEF votingVars, PollTypeOK, VotingTypeOK, StoredBallots, Stored
<1>4. ASSUME NEW w \in Views, ViewAnswer(w) PROVE PollTypeOK'
    <2> DEFINE row == [view[w] EXCEPT !.counted = IF CountsShown(view[w].poll) THEN @ ELSE None]
    <2>1. view[w] \in PollView
        BY <1>4 DEF ViewAnswer, PollTypeOK
    <2>2. row \in PollView
        BY <2>1 DEF PollView
    <2>3. answer' = [answer EXCEPT ![w] = row] /\ view' = [view EXCEPT ![w] = None] /\ UNCHANGED votingVars
        BY <1>4 DEF ViewAnswer
    <2> HIDE DEF row
    <2> QED BY <1>3, <2>2, <2>3 DEF PollTypeOK
<1>5. ASSUME NEW w \in Views, NEW u \in Residents, NEW b \in Ballots, ViewRows(w, u, b) PROVE PollTypeOK'
    <2> DEFINE row == [poll |-> b, viewer |-> u, counted |-> {v \in votes : v[2] = b},
                       own |-> OwnVote(Actor(u), b), settled |-> b \in ClosedBallots]
    <2>1. row \in PollView
        <3>1. (b \in ClosedBallots) \in BOOLEAN
            OBVIOUS
        <3> QED BY <3>1, ViewParts
    <2>2. view' = [view EXCEPT ![w] = row] /\ answer' = answer /\ UNCHANGED votingVars
        BY <1>5 DEF ViewRows
    <2> HIDE DEF row
    <2> QED BY <1>3, <2>1, <2>2 DEF PollTypeOK
<1>6. CASE Crash
    BY <1>6, ForgettingTyped DEF Crash, VotesForgotten, PollTypeOK, StoredBallots, Stored
<1>7. CASE UNCHANGED allVars
    BY <1>3, <1>7 DEF allVars, pollVars, PollTypeOK
<1> QED BY <1>1, <1>2, <1>4, <1>5, <1>6, <1>7 DEF PollNext

(* Polls always have their types, and every stored poll at least two options. *)
THEOREM PollsTyped == PollSpec => []PollTypeOK
<1>1. PollTypeOK /\ [PollNext]_allVars => PollTypeOK'
    BY PollStepTyped
<1> QED BY <1>1, PollInitially, PTL DEF PollSpec

-----------------------------------------------------------------------------
(* What has expired stays expired. *)
LEMMA ExpiredStays ==
    ASSUME PollTypeOK, PollTypeOK', [PollNext]_allVars, NEW b \in Ballots, Expired(b, now)
    PROVE Expired(b, now)'
<1>1. now \in Int /\ now' \in Int /\ deadline[b] \in Int
    BY VotingAssumption DEF PollTypeOK, VotingTypeOK, Times, Expired, Stored
<1>2. now' >= now
    BY <1>1 DEF PollNext, VotingNext, Tick, VoteStep, VoteFind, VoteInsert, VoteRefused, VoteAnswer, VoteFail,
        VoteRead, DeleteUser, Create, ViewRows, ViewAnswer, Crash, VotesForgotten, allVars, votingVars
<1>3. deadline'[b] = deadline[b]
    BY DEF Expired, PollTypeOK, VotingTypeOK, PollNext, VotingNext, Tick, VoteStep, VoteFind, VoteInsert,
        VoteRefused, VoteAnswer, VoteFail, VoteRead, DeleteUser, Create, ViewRows, ViewAnswer, Crash,
        VotesForgotten, allVars, votingVars
<1> QED BY <1>1, <1>2, <1>3 DEF Expired, Stored

(* A final count stays final. *)
LEMMA FinalStays ==
    ASSUME PollTypeOK, PollTypeOK', [PollNext]_allVars, NEW r, IsFinal(r)
    PROVE IsFinal(r)'
<1>1. r.poll \in ClosedBallots /\ r.poll \in Ballots /\ Expired(r.poll, now)
    BY DEF IsFinal, ClosedBallots
<1>2. CASE VotingNext
    <2>1. r.poll \in ClosedBallots'
        BY <1>1, <1>2, VotingCloses DEF PollTypeOK
    <2>2. /\ \A v \in votes' : v[2] = r.poll => v \in votes
          /\ \A v \in votes : v \in votes' \/ v[1] \in gone'
          /\ gone \subseteq gone'
        BY <1>1, <1>2, ClosedKeepsVotes DEF PollTypeOK
    <2> QED BY <2>1, <2>2 DEF IsFinal
<1>3. CASE ~VotingNext
    <2>1. UNCHANGED <<votes, gone>> /\ (req' = req \/ \A q \in Voters : req'[q] = None)
        BY <1>3 DEF PollNext, Create, ViewRows, ViewAnswer, Crash, VotesForgotten, allVars, votingVars
    <2>2. r.poll \in ClosedBallots'
        BY <1>1, <2>1, ExpiredStays DEF ClosedBallots
    <2> QED BY <2>1, <2>2 DEF IsFinal
<1> QED BY <1>2, <1>3

(* Every step keeps what views and answers rely on. *)
LEMMA PollStepKeeps ==
    ASSUME PollTypeOK, PollTypeOK', PollInv, [PollNext]_allVars
    PROVE PollInv'
<1>1. ASSUME NEW r, IsFinal(r) PROVE IsFinal(r)'
    BY <1>1, FinalStays
<1>2. ASSUME NEW w \in Views, ShowsCounts(w)
      PROVE Expired(answer[w].poll, now)' \/ answer'[w] # answer[w]
    <2>1. answer[w].poll \in Ballots /\ Expired(answer[w].poll, now)
        BY <1>2 DEF PollInv, CountsOnlyAfterExpiry, ShowsCounts, PollTypeOK, PollView
    <2>2. \A b \in Ballots : Expired(b, now) => deadline'[b] # None /\ deadline'[b] <= now'
        BY ExpiredStays DEF Expired, Stored
    <2> QED BY <2>1, <2>2 DEF Expired, Stored
<1>3. CASE UNCHANGED pollVars
    BY <1>1, <1>2, <1>3 DEF pollVars, PollInv, CountsOnlyAfterExpiry, SettledIsFinal, IsFinal, ShowsCounts
<1>4. ASSUME NEW w \in Views, NEW u \in Residents, NEW b \in Ballots, ViewRows(w, u, b) PROVE PollInv'
    <2> DEFINE row == [poll |-> b, viewer |-> u, counted |-> {v \in votes : v[2] = b},
                       own |-> OwnVote(Actor(u), b), settled |-> b \in ClosedBallots]
    <2>1. row.settled => IsFinal(row)
        BY DEF IsFinal
    <2>2. view' = [view EXCEPT ![w] = row] /\ answer' = answer
        BY <1>4 DEF ViewRows
    <2> HIDE DEF row
    <2>3. SettledIsFinal'
        BY <1>1, <2>1, <2>2 DEF PollInv, SettledIsFinal, IsFinal, ShowsCounts, PollTypeOK
    <2>4. CountsOnlyAfterExpiry'
        BY <1>2, <2>2 DEF PollInv, CountsOnlyAfterExpiry, ShowsCounts
    <2> QED BY <2>3, <2>4 DEF PollInv
<1>5. ASSUME NEW w \in Views, ViewAnswer(w) PROVE PollInv'
    <2> DEFINE row == [view[w] EXCEPT !.counted = IF CountsShown(view[w].poll) THEN @ ELSE None]
    <2>1. view[w] \in PollView
        BY <1>5 DEF ViewAnswer, PollTypeOK
    <2>2. /\ row.poll = view[w].poll /\ row.settled = view[w].settled
          /\ row.counted # None => row.counted = view[w].counted /\ Expired(row.poll, now)
        BY <2>1 DEF PollView, CountsShown
    <2>3. answer' = [answer EXCEPT ![w] = row] /\ view' = [view EXCEPT ![w] = None] /\ UNCHANGED votingVars
        BY <1>5 DEF ViewAnswer
    <2> HIDE DEF row
    <2>4. SettledIsFinal'
        <3>1. row.counted # None /\ row.settled => IsFinal(row)
            BY <1>5, <2>2 DEF PollInv, SettledIsFinal, IsFinal, ViewAnswer
        <3> QED BY <1>1, <2>3, <3>1 DEF PollInv, SettledIsFinal, IsFinal, ShowsCounts, PollTypeOK
    <2>5. CountsOnlyAfterExpiry'
        BY <2>2, <2>3 DEF PollInv, CountsOnlyAfterExpiry, ShowsCounts, PollTypeOK, Expired, Stored, votingVars
    <2> QED BY <2>4, <2>5 DEF PollInv
<1>6. CASE Crash
    BY <1>1, <1>2, <1>6 DEF Crash, PollInv, CountsOnlyAfterExpiry, SettledIsFinal, IsFinal, ShowsCounts
<1> QED BY <1>3, <1>4, <1>5, <1>6 DEF PollNext, Create, allVars

LEMMA PollInvariant == PollSpec => []PollInv
<1>1. PollTypeOK /\ PollTypeOK' /\ PollInv /\ [PollNext]_allVars => PollInv'
    BY PollStepKeeps
<1> QED BY <1>1, PollInitially, PollsTyped, PTL DEF PollSpec

(* Counts are shown of expired polls only, although they were read before.   *)
THEOREM PollsHideCounts == PollSpec => []CountsOnlyAfterExpiry
<1>1. PollInv => CountsOnlyAfterExpiry
    BY DEF PollInv
<1> QED BY <1>1, PollInvariant, PTL

(* Whoever looks at a closed poll sees the same result: a closed poll gains  *)
(* no vote, and loses those of deleted accounts only.                        *)
THEOREM PollResultsAgree == PollSpec => []ResultsAgree
<1>1. PollInv => ResultsAgree
    BY DEF PollInv, SettledIsFinal, IsFinal, ResultsAgree
<1> QED BY <1>1, PollInvariant, PTL

-----------------------------------------------------------------------------
LEMMA PollVotesInOrder == PollSpec => []VotingInv
<1>1. PollInit => VotingInv
    BY VotingInitially DEF PollInit
<1>2. PollTypeOK /\ VotingInv /\ [PollNext]_allVars => VotingInv'
    <2> SUFFICES ASSUME PollTypeOK, VotingInv, [PollNext]_allVars PROVE VotingInv'
        OBVIOUS
    <2>1. CASE VotingNext
        BY <2>1, VotingStepKeeps DEF PollTypeOK
    <2>2. CASE Crash
        BY <2>2, ForgettingKeeps DEF Crash, PollTypeOK
    <2>3. ASSUME UNCHANGED <<votes, acked, req, gone>> PROVE VotingInv'
        BY <2>3 DEF VotingInv, OneVoteEach, AckedIsStored, AnswerIsStored, At, RowOf
    <2> QED BY <2>1, <2>2, <2>3 DEF PollNext, Create, ViewRows, ViewAnswer, allVars, votingVars
<1> QED BY <1>1, <1>2, PollsTyped, PTL DEF PollSpec

(* No resident has two votes in one poll, however many requests race: the    *)
(* test for an earlier vote does not do it, the primary key does.            *)
THEOREM PollOneVote == PollSpec => []OneVoteEach
<1>1. VotingInv => OneVoteEach
    BY DEF VotingInv
<1> QED BY <1>1, PollVotesInOrder, PTL

(* A vote whose request succeeded stays until its voter's account is deleted. *)
THEOREM PollVotesKept == PollSpec => []AckedIsStored
<1>1. VotingInv => AckedIsStored
    BY DEF VotingInv
<1> QED BY <1>1, PollVotesInOrder, PTL

(* PollsService implements BallotBox, as far as safety goes: polls differ    *)
(* from elections in that they are announced with all their options.         *)
THEOREM PollsImplementBallotBox == PollSpec => Urn!BoxSafety
<1>1. PollInit => Urn!BoxInit
    BY DEF PollInit, VotingInit, Urn!BoxInit, StoredBallots, ClosedBallots, Expired, Stored
<1>2. PollTypeOK /\ PollTypeOK' /\ [PollNext]_allVars => [Urn!BoxNext]_(Urn!boxVars)
    <2> SUFFICES ASSUME PollTypeOK, PollTypeOK', [PollNext]_allVars PROVE [Urn!BoxNext]_(Urn!boxVars)
        OBVIOUS
    <2>1. VotingTypeOK /\ VotingTypeOK'
        BY DEF PollTypeOK
    <2>2. CASE VotingNext
        BY <2>1, <2>2, VotingStepImplements
    <2>3. CASE Crash
        BY <2>1, <2>3, ForgettingImplements DEF Crash
    <2>4. ASSUME NEW b \in Ballots, NEW e \in Times, NEW cs \in SUBSET Choices, Create(b, e, cs) PROVE Urn!BoxNext
        BY <2>1, <2>4, StoringAnnounces DEF Create
    <2>5. CASE UNCHANGED votingVars
        BY <2>5 DEF votingVars, Urn!boxVars, StoredBallots, ClosedBallots, Expired, Stored
    <2> QED BY <2>2, <2>3, <2>4, <2>5 DEF PollNext, ViewRows, ViewAnswer, allVars
<1> QED BY <1>1, <1>2, PollsTyped, PTL DEF PollSpec, Urn!BoxSafety
=============================================================================
