--------------------------- MODULE VotingProofs ---------------------------
(***************************************************************************)
(* What the steps of Voting preserve, whatever extends them: the types,    *)
(* one vote per resident and ballot, and votes that were acknowledged.     *)
(***************************************************************************)
EXTENDS Voting, TLAPS

(* A request about to be answered has its vote stored, or its voter is gone. *)
AnswerIsStored ==
    \A r \in Voters : At(r, "answer") => RowOf(r) \in votes \/ req[r].voter \in gone

VotingInv == OneVoteEach /\ AckedIsStored /\ AnswerIsStored

-----------------------------------------------------------------------------
(* Initially there is nothing to be wrong. *)
LEMMA VotingInitially == VotingInit => VotingTypeOK /\ VotingInv
<1> SUFFICES ASSUME VotingInit PROVE VotingTypeOK /\ VotingInv
    OBVIOUS
<1>1. VotingTypeOK
    BY VotingAssumption DEF VotingInit, VotingTypeOK, Times
<1>2. VotingInv
    BY DEF VotingInit, VotingInv, OneVoteEach, AckedIsStored, AnswerIsStored, At
<1> QED BY <1>1, <1>2

(* A step that leaves Voting alone preserves its invariants. *)
LEMMA VotingStutters ==
    VotingTypeOK /\ VotingInv /\ UNCHANGED votingVars => VotingTypeOK' /\ VotingInv'
    BY DEF votingVars, VotingTypeOK, VotingInv, OneVoteEach, AckedIsStored, AnswerIsStored,
           At, RowOf, Stored

(* Requests in flight have their parts. *)
LEMMA RequestParts ==
    ASSUME VotingTypeOK, NEW r \in Voters, req[r] # None
    PROVE /\ req[r] \in VoteRequest
          /\ req[r].voter \in Residents /\ req[r].ballot \in Ballots /\ req[r].choice \in Choices
          /\ RowOf(r) \in Residents \X Ballots \X Choices
    BY DEF VotingTypeOK, VoteRequest, RowOf

-----------------------------------------------------------------------------
(* Every step of Voting keeps the types. *)
LEMMA VotingStepTyped ==
    ASSUME VotingTypeOK, VotingNext
    PROVE VotingTypeOK'
<1> USE VotingAssumption, RequestAssumption
<1>1. CASE Tick
    BY <1>1 DEF Tick, VotingTypeOK, Times, Stored
<1>2. ASSUME NEW r \in Voters, VoteFind(r) PROVE VotingTypeOK'
    <2> DEFINE row == [req[r] EXCEPT !.pc = "insert"]
    <2>1. row \in VoteRequest
        BY <1>2, RequestParts DEF VoteFind, At, VoteRequest
    <2> QED BY <1>2, <2>1 DEF VoteFind, At, VotingTypeOK, Stored
<1>3. ASSUME NEW r \in Voters, VoteInsert(r) PROVE VotingTypeOK'
    <2>1. req[r] # None /\ [req[r] EXCEPT !.pc = "answer"] \in VoteRequest
        BY <1>3, RequestParts DEF VoteInsert, At, VoteRequest
    <2>2. req' \in [Voters -> VoteRequest \union {None}]
        BY <1>3, <2>1 DEF VoteInsert, VotingTypeOK
    <2>3. votes' = votes \union {RowOf(r)} /\ RowOf(r) \in Residents \X Ballots \X Choices
        BY <1>3, <2>1, RequestParts DEF VoteInsert
    <2>4. \A v \in votes' : <<v[2], v[3]>> \in choices'
        <3>1. <<req[r].ballot, req[r].choice>> \in choices
            BY <2>1 DEF VotingTypeOK
        <3>2. RowOf(r)[2] = req[r].ballot /\ RowOf(r)[3] = req[r].choice
            BY DEF RowOf
        <3>3. choices' = choices /\ \A v \in votes : <<v[2], v[3]>> \in choices
            BY <1>3 DEF VoteInsert, VotingTypeOK
        <3> QED BY <2>3, <3>1, <3>2, <3>3
    <2>5. \A q \in Voters : req'[q] # None =>
              req[q] # None /\ req'[q].ballot = req[q].ballot /\ req'[q].choice = req[q].choice
        BY <1>3, <2>1 DEF VoteInsert, VotingTypeOK, VoteRequest
    <2> QED BY <1>3, <2>2, <2>3, <2>4, <2>5 DEF VoteInsert, VotingTypeOK, Stored
<1>4. ASSUME NEW r \in Voters, VoteRefused(r) PROVE VotingTypeOK'
    BY <1>4 DEF VoteRefused, VotingTypeOK, Stored
<1>5. ASSUME NEW r \in Voters, VoteAnswer(r) PROVE VotingTypeOK'
    <2>1. RowOf(r) \in Residents \X Ballots \X Choices
        BY <1>5, RequestParts DEF VoteAnswer, At
    <2> QED BY <1>5, <2>1 DEF VoteAnswer, VotingTypeOK, Stored
<1>6. ASSUME NEW r \in Voters, VoteFail(r) PROVE VotingTypeOK'
    BY <1>6 DEF VoteFail, VotingTypeOK, Stored
<1>7. ASSUME NEW r \in Voters, NEW u \in Residents, NEW b \in Ballots, NEW c \in Choices, VoteRead(r, u, b, c)
      PROVE VotingTypeOK'
    <2> DEFINE row == [pc |-> "find", voter |-> u, ballot |-> b, choice |-> c]
    <2>1. row \in VoteRequest /\ row.ballot = b /\ row.choice = c /\ <<b, c>> \in choices
        BY <1>7 DEF VoteRequest, VoteRead, TakesVotes
    <2>2. req' = [req EXCEPT ![r] = row]
        BY <1>7 DEF VoteRead
    <2> HIDE DEF row
    <2> QED BY <1>7, <2>1, <2>2 DEF VoteRead, VotingTypeOK, Stored
<1>8. ASSUME NEW u \in Leavers, DeleteUser(u) PROVE VotingTypeOK'
    BY <1>8 DEF DeleteUser, VotingTypeOK, Stored
<1> QED BY <1>1, <1>2, <1>3, <1>4, <1>5, <1>6, <1>7, <1>8 DEF VotingNext, VoteStep

(* So does a restart. *)
LEMMA ForgettingTyped ==
    ASSUME VotingTypeOK, VotesForgotten
    PROVE VotingTypeOK'
    BY VotingAssumption DEF VotesForgotten, VotingTypeOK, Stored

-----------------------------------------------------------------------------
(* Whether an acknowledgement, given or about to be, is kept depends only on *)
(* the rows of votes growing but for deleted accounts.                       *)
LEMMA RowsKept ==
    ASSUME VotingTypeOK, AckedIsStored, AnswerIsStored,
           gone \subseteq gone',
           \A v \in votes : v \in votes' \/ v[1] \in gone',
           acked' = acked,
           \A r \in Voters : At(r, "answer")' =>
               (At(r, "answer") /\ req'[r] = req[r]) \/ RowOf(r)' \in votes'
    PROVE AckedIsStored' /\ AnswerIsStored'
<1>1. AckedIsStored'
    BY DEF AckedIsStored
<1>2. ASSUME NEW r \in Voters, At(r, "answer")' PROVE RowOf(r)' \in votes' \/ (req[r].voter)' \in gone'
    BY <1>2 DEF AnswerIsStored, At, RowOf
<1> QED BY <1>1, <1>2 DEF AnswerIsStored

(* Every step of Voting keeps the votes in order. *)
LEMMA VotingStepKeeps ==
    ASSUME VotingTypeOK, VotingInv, VotingNext
    PROVE VotingInv'
<1> USE DEF VotingInv
<1>1. CASE Tick
    BY <1>1, RowsKept DEF Tick, OneVoteEach, At, RowOf
<1>2. ASSUME NEW r \in Voters, VoteFind(r) PROVE VotingInv'
    <2>1. ASSUME NEW q \in Voters, At(q, "answer")' PROVE At(q, "answer") /\ req'[q] = req[q]
        BY <1>2, <2>1 DEF VoteFind, At, VotingTypeOK, VoteRequest
    <2> QED BY <1>2, <2>1, RowsKept DEF VoteFind, OneVoteEach
<1>3. ASSUME NEW r \in Voters, VoteInsert(r) PROVE VotingInv'
    <2>1. ASSUME NEW q \in Voters, At(q, "answer")'
          PROVE (At(q, "answer") /\ req'[q] = req[q]) \/ RowOf(q)' \in votes'
        BY <1>3, <2>1, RequestParts DEF VoteInsert, At, RowOf, VotingTypeOK, VoteRequest
    <2>2. OneVoteEach'
        BY <1>3 DEF VoteInsert, KeysHold, HasVoted, OneVoteEach, RowOf
    <2> QED BY <1>3, <2>1, <2>2, RowsKept DEF VoteInsert
<1>4. ASSUME NEW r \in Voters, VoteRefused(r) \/ VoteFail(r) PROVE VotingInv'
    <2>1. ASSUME NEW q \in Voters, At(q, "answer")' PROVE At(q, "answer") /\ req'[q] = req[q]
        BY <1>4, <2>1 DEF VoteRefused, VoteFail, At, VotingTypeOK
    <2> QED BY <1>4, <2>1, RowsKept DEF VoteRefused, VoteFail, OneVoteEach
<1>5. ASSUME NEW r \in Voters, VoteAnswer(r) PROVE VotingInv'
    <2>1. RowOf(r) \in votes \/ RowOf(r)[1] \in gone
        BY <1>5 DEF VoteAnswer, AnswerIsStored, RowOf
    <2>2. AckedIsStored'
        BY <1>5, <2>1 DEF VoteAnswer, AckedIsStored
    <2>3. AnswerIsStored'
        BY <1>5 DEF VoteAnswer, AnswerIsStored, At, RowOf, VotingTypeOK
    <2> QED BY <1>5, <2>2, <2>3 DEF VoteAnswer, OneVoteEach
<1>6. ASSUME NEW r \in Voters, NEW u \in Residents, NEW b \in Ballots, NEW c \in Choices, VoteRead(r, u, b, c)
      PROVE VotingInv'
    <2>1. ASSUME NEW q \in Voters, At(q, "answer")' PROVE At(q, "answer") /\ req'[q] = req[q]
        BY <1>6, <2>1 DEF VoteRead, At, VotingTypeOK
    <2> QED BY <1>6, <2>1, RowsKept DEF VoteRead, OneVoteEach
<1>7. ASSUME NEW u \in Leavers, DeleteUser(u) PROVE VotingInv'
    BY <1>7, RowsKept DEF DeleteUser, OneVoteEach, At, RowOf
<1> QED BY <1>1, <1>2, <1>3, <1>4, <1>5, <1>6, <1>7 DEF VotingNext, VoteStep

(* So does a restart. *)
LEMMA ForgettingKeeps ==
    ASSUME VotingTypeOK, VotingInv, VotesForgotten
    PROVE VotingInv'
<1>1. \A r \in Voters : req'[r] = None
    BY DEF VotesForgotten
<1> QED BY <1>1, RowsKept DEF VotingInv, VotesForgotten, OneVoteEach, At

-----------------------------------------------------------------------------
(* No request on a closed ballot begins.                                     *)
LEMMA NoneBegins ==
    ASSUME VotingTypeOK, VotingNext, NEW b \in ClosedBallots, NEW r \in Voters, req'[r] # None
    PROVE req'[r].ballot # b
<1>1. b \in Ballots /\ Expired(b, now) /\ \A q \in Voters : req[q] # None => req[q].ballot # b
    BY DEF ClosedBallots
<1>2. CASE req'[r] = req[r]
    BY <1>1, <1>2
<1>3. ASSUME NEW q \in Voters, VoteFind(q) \/ VoteInsert(q) PROVE req'[r].ballot # b
    <2>1. req[q] # None /\ req[q] \in VoteRequest
        BY <1>3, RequestParts DEF VoteFind, VoteInsert, At
    <2> QED BY <1>1, <1>3, <2>1 DEF VoteFind, VoteInsert, VotingTypeOK, VoteRequest
<1>4. ASSUME NEW q \in Voters, NEW u \in Residents, NEW d \in Ballots, NEW c \in Choices, VoteRead(q, u, d, c)
      PROVE req'[r].ballot # b
    <2>1. d # b
        BY <1>1, <1>4 DEF VoteRead, TakesVotes
    <2> DEFINE row == [pc |-> "find", voter |-> u, ballot |-> d, choice |-> c]
    <2>2. row.ballot = d /\ req' = [req EXCEPT ![q] = row]
        BY <1>4 DEF VoteRead
    <2> HIDE DEF row
    <2> QED BY <1>1, <2>1, <2>2 DEF VotingTypeOK
<1>5. ASSUME NEW q \in Voters, VoteRefused(q) \/ VoteAnswer(q) \/ VoteFail(q) PROVE req'[r].ballot # b
    BY <1>1, <1>5 DEF VoteRefused, VoteAnswer, VoteFail, VotingTypeOK
<1> QED BY <1>2, <1>3, <1>4, <1>5 DEF VotingNext, VoteStep, Tick, DeleteUser

(* A ballot that is closed stays closed. *)
LEMMA VotingCloses ==
    ASSUME VotingTypeOK, VotingTypeOK', VotingNext, NEW b \in ClosedBallots
    PROVE b \in ClosedBallots'
<1>1. b \in Ballots /\ Expired(b, now)
    BY DEF ClosedBallots
<1>2. now \in Int /\ now' \in Int /\ (deadline[b] # None => deadline[b] \in Int)
    BY <1>1, VotingAssumption DEF VotingTypeOK, Times
<1>3. now' >= now /\ deadline' = deadline
    BY <1>2 DEF VotingNext, Tick, VoteStep, VoteFind, VoteInsert, VoteRefused, VoteAnswer,
        VoteFail, VoteRead, DeleteUser
<1>4. Expired(b, now)'
    BY <1>1, <1>2, <1>3 DEF Expired, Stored
<1> QED BY <1>1, <1>4, NoneBegins DEF ClosedBallots

(* Nor does it gain a vote; it loses those of deleted accounts only.         *)
LEMMA ClosedKeepsVotes ==
    ASSUME VotingTypeOK, VotingNext, NEW b \in ClosedBallots
    PROVE /\ \A v \in votes' : v[2] = b => v \in votes
          /\ \A v \in votes : v \in votes' \/ v[1] \in gone'
          /\ gone \subseteq gone'
<1>1. ASSUME NEW r \in Voters, VoteInsert(r) PROVE votes' = votes \union {RowOf(r)} /\ RowOf(r)[2] # b
    BY <1>1 DEF VoteInsert, At, ClosedBallots, RowOf
<1> QED BY <1>1 DEF VotingNext, VoteStep, Tick, VoteFind, VoteInsert, VoteRefused, VoteAnswer, VoteFail,
        VoteRead, DeleteUser

-----------------------------------------------------------------------------
(* The mapping to BallotBox.  A step that leaves slate, votes and accounts   *)
(* alone can only close ballots.                                            *)
LEMMA OnlyCloses ==
    ASSUME ClosedBallots \subseteq ClosedBallots', UNCHANGED <<deadline, choices, votes, gone>>
    PROVE Urn!BoxNext
<1>1. ClosedBallots' \in SUBSET Ballots /\ ClosedBallots' \subseteq StoredBallots
    BY DEF ClosedBallots, StoredBallots, Expired, Stored
<1>2. ClosedBallots' = ClosedBallots \union ClosedBallots'
    OBVIOUS
<1>3. StoredBallots' = StoredBallots
    BY DEF StoredBallots, Stored
<1>4. Urn!Close(ClosedBallots')
    BY <1>1, <1>2, <1>3 DEF Urn!Close
<1> QED BY <1>1, <1>4 DEF Urn!BoxNext

(* The insert of a vote casts it: the ballot is not closed, as its own       *)
(* request is still in flight.                                              *)
LEMMA InsertCasts ==
    ASSUME VotingTypeOK, NEW r \in Voters, VoteInsert(r)
    PROVE Urn!BoxNext
<1> DEFINE u == req[r].voter  b == req[r].ballot  c == req[r].choice
<1>1. req[r] # None /\ u \in Residents /\ b \in Ballots /\ c \in Choices
    BY RequestParts DEF VoteInsert, At
<1>2. <<b, c>> \in choices /\ b \notin ClosedBallots
    BY <1>1 DEF VotingTypeOK, ClosedBallots
<1>3. u \notin gone /\ (\A v \in votes : ~(v[1] = u /\ v[2] = b)) /\ votes' = votes \union {<<u, b, c>>}
    BY DEF VoteInsert, KeysHold, HasVoted, RowOf
<1>4. StoredBallots' = StoredBallots
    BY DEF VoteInsert, StoredBallots, Stored
<1>5. \A q \in Voters : (req'[q] # None <=> req[q] # None) /\ (req[q] # None => req'[q].ballot = req[q].ballot)
    <2>1. req[r] \in VoteRequest
        BY <1>1, RequestParts
    <2>2. [req[r] EXCEPT !.pc = "answer"] \in VoteRequest /\ [req[r] EXCEPT !.pc = "answer"].ballot = b
        BY <2>1 DEF VoteRequest
    <2> QED BY <1>1, <2>2, RequestAssumption DEF VoteInsert, VotingTypeOK
<1>6. ClosedBallots' = ClosedBallots
    BY <1>5 DEF VoteInsert, ClosedBallots, Expired, Stored
<1>7. Urn!Cast(u, b, c)
    BY <1>2, <1>3, <1>4, <1>6 DEF Urn!Cast, VoteInsert
<1> QED BY <1>1, <1>7 DEF Urn!BoxNext

(* Every step of Voting is one of BallotBox. *)
LEMMA VotingStepImplements ==
    ASSUME VotingTypeOK, VotingTypeOK', VotingNext
    PROVE Urn!BoxNext
<1>1. CASE UNCHANGED <<deadline, choices, votes, gone>>
    BY <1>1, VotingCloses, OnlyCloses
<1>2. ASSUME NEW r \in Voters, VoteInsert(r) PROVE Urn!BoxNext
    BY <1>2, InsertCasts
<1>3. ASSUME NEW u \in Leavers, DeleteUser(u) PROVE Urn!BoxNext
    <2>1. StoredBallots' = StoredBallots /\ ClosedBallots' = ClosedBallots
        BY <1>3 DEF DeleteUser, StoredBallots, ClosedBallots, Expired, Stored
    <2>2. Urn!Erase(u)
        BY <1>3, <2>1 DEF DeleteUser, Urn!Erase
    <2> QED BY <2>2, VotingAssumption DEF Urn!BoxNext
<1> QED BY <1>1, <1>2, <1>3 DEF VotingNext, VoteStep, Tick, VoteFind, VoteRefused, VoteAnswer, VoteFail, VoteRead

(* A restart ends the votes in flight, which may close ballots. *)
LEMMA ForgettingImplements ==
    ASSUME VotingTypeOK, VotesForgotten
    PROVE Urn!BoxNext
<1>1. ClosedBallots \subseteq ClosedBallots'
    BY DEF VotesForgotten, ClosedBallots, Expired, Stored
<1> QED BY <1>1, OnlyCloses DEF VotesForgotten

(* A ballot that is stored with some choices is announced with them, and     *)
(* closed at once if it has expired already.                                *)
LEMMA StoringAnnounces ==
    ASSUME VotingTypeOK, NEW b \in Ballots, NEW e \in Times, NEW cs \in SUBSET Choices,
           ~Stored(b), \A p \in choices : p[2] \notin cs,
           deadline' = [deadline EXCEPT ![b] = e], choices' = choices \union ({b} \X cs),
           UNCHANGED <<now, req, votes, gone>>
    PROVE Urn!BoxNext
<1>1. e # None /\ deadline \in [Ballots -> Times \union {None}]
    BY VotingAssumption DEF VotingTypeOK
<1>2. StoredBallots' = StoredBallots \union {b} /\ b \notin StoredBallots
    BY <1>1 DEF StoredBallots, Stored
<1>3. ClosedBallots' \in {ClosedBallots, ClosedBallots \union {b}}
    <2>1. b \notin ClosedBallots
        BY DEF ClosedBallots, Expired
    <2>2. \A x \in Ballots \ {b} : x \in ClosedBallots' <=> x \in ClosedBallots
        BY <1>1 DEF ClosedBallots, Expired, Stored
    <2>3. ClosedBallots \subseteq Ballots /\ ClosedBallots' \subseteq Ballots
        BY DEF ClosedBallots
    <2>4. CASE b \in ClosedBallots'
        <3>1. ClosedBallots' = ClosedBallots \union {b}
            BY <2>2, <2>3, <2>4
        <3> QED BY <3>1
    <2>5. CASE b \notin ClosedBallots'
        <3>1. \A x : x \in ClosedBallots' <=> x \in ClosedBallots
            BY <2>1, <2>2, <2>3, <2>5
        <3>2. ClosedBallots' = ClosedBallots
            BY <3>1
        <3> QED BY <3>2
    <2> QED BY <2>4, <2>5
<1>4. Urn!Announce(b, cs)
    BY <1>2, <1>3 DEF Urn!Announce
<1> QED BY <1>4 DEF Urn!BoxNext
=============================================================================
