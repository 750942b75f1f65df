-------------------------- MODULE OnboardingProofs --------------------------
(* Theorems about Onboarding, for any addresses, submissions, admins, leads, *)
(* invitations and requests at a time.                                       *)
EXTENDS Onboarding, TLAPS

(* What a request carries at the steps that use it. *)
Carries(r) ==
    /\ r.pc \in {"submit", "refind"} => r.sub \in Submissions
    /\ r.pc \in {"user", "link", "check", "insert", "mail", "mark", "upsert", "use"} => r.email \in Emails
    /\ r.pc \in {"user", "check", "insert", "mail", "mark", "upsert"} => r.role \in AllRoles
    /\ r.pc \in {"user", "check", "insert"} => r.by \in Staff
    /\ r.pc \in {"mail", "upsert", "use"} => r.inv \in Invitations
    /\ r.pc \in {"user", "link", "mark"} => r.lead \in Leads
    /\ r.pc = "link" => r.user \in UserId /\ r.user[1] = r.email
    /\ r.pc \in {"user", "check", "insert", "mail", "mark"} /\ r.lead # None => r.role = "RESIDENT"
    /\ r.pc \in {"user", "link", "check", "insert", "mail", "mark"} /\ r.lead # None =>
          leads[r.lead] # None /\ leads[r.lead].email = r.email

IdsAreOwn == \A e \in Emails : users[e] # None => users[e].id[1] = e

Typed == TypeOK /\ IdsAreOwn /\ \A q \in Slots : Carries(req[q])

-----------------------------------------------------------------------------
LEMMA IdleTyped == Idle \in Request /\ Carries(Idle) /\ Idle.pc = "idle"
BY DEF Idle, Request, Carries

LEMMA Initially == Init => Typed
<1> SUFFICES ASSUME Init PROVE Typed
    OBVIOUS
<1>1. upsets \in 0..MaxUpsets /\ deleted \in 0..upsets
    BY OnboardingAssumption DEF Init
<1>2. req \in [Slots -> Request] /\ \A q \in Slots : Carries(req[q])
    BY IdleTyped DEF Init
<1> QED BY <1>1, <1>2 DEF Init, Typed, TypeOK, IdsAreOwn

-----------------------------------------------------------------------------
(* Every request moves to one that carries what it needs.                    *)
LEMMA BeginMoves ==
    ASSUME Typed, NEW q \in Slots, Begin(q)
    PROVE  \E x \in Request : Carries(x) /\ req' = [req EXCEPT ![q] = x]
<1>1. ASSUME NEW s \in Submissions, SubmitFindNone(q, s) \/ SubmitFind(q, s)
      PROVE  \E x \in Request : Carries(x) /\ req' = [req EXCEPT ![q] = x]
    <2> DEFINE x == [Idle EXCEPT !.pc = "submit", !.sub = s]
    <2>1. x \in Request /\ Carries(x)
        BY DEF Idle, Request, Carries
    <2> HIDE DEF x
    <2>2. req' = [req EXCEPT ![q] = x] \/ req' = [req EXCEPT ![q] = Idle]
        BY <1>1 DEF SubmitFindNone, SubmitFind, AnswerHolder, AnswerLead, Refuse, Finish, Goto, x
    <2> QED BY <2>1, <2>2, IdleTyped
<1>2. ASSUME NEW l \in Leads, NEW a \in Staff, InviteStart(q, l, a)
      PROVE  \E x \in Request : Carries(x) /\ req' = [req EXCEPT ![q] = x]
    <2> DEFINE e == leads[l].email  had == users[e] # None
               x == [Idle EXCEPT !.pc = "user", !.lead = l, !.email = e, !.role = "RESIDENT", !.by = a, !.had = had]
    <2>0. leads[l] # None
        BY <1>2 DEF InviteStart
    <2>1. e \in Emails /\ had \in BOOLEAN
        BY <1>2 DEF InviteStart, Typed, TypeOK, LeadRow
    <2>2. req' = [req EXCEPT ![q] = x]
        BY <1>2 DEF InviteStart, Goto
    <2>3. x \in Request /\ x.lead = l /\ x.email = leads[l].email
        BY <2>1 DEF Idle, Request, AllRoles
    <2> HIDE DEF e, had
    <2>4. Carries(x)
        BY <2>0, <2>1, <2>3 DEF Idle, Request, Carries, AllRoles
    <2> QED BY <2>2, <2>3, <2>4
<1>3. ASSUME NEW e \in DirectEmails, NEW r \in Roles, NEW a \in Staff, DirectCheck(q, e, r, a)
      PROVE  \E x \in Request : Carries(x) /\ req' = [req EXCEPT ![q] = x]
    <2> DEFINE y == [Idle EXCEPT !.email = e, !.role = r, !.by = a]  x == [y EXCEPT !.pc = "insert"]
    <2>1. e \in Emails /\ r \in AllRoles
        BY OnboardingAssumption DEF AllRoles
    <2>2. x \in Request /\ Carries(x)
        BY <2>1 DEF Idle, Request, Carries
    <2>3. req' = [req EXCEPT ![q] = x] \/ req' = [req EXCEPT ![q] = Idle]
        BY <1>3 DEF DirectCheck, CheckPending, Goto
    <2> HIDE DEF x
    <2> QED BY <2>2, <2>3, IdleTyped
<1>4. ASSUME NEW i \in Invitations, AcceptRead(q, i)
      PROVE  \E x \in Request : Carries(x) /\ req' = [req EXCEPT ![q] = x]
    <2> DEFINE e == invitations[i].email  r == invitations[i].role  z == i \in answered
               x == [Idle EXCEPT !.pc = "upsert", !.inv = i, !.email = e, !.role = r, !.late = z]
    <2>1. e \in Emails /\ r \in AllRoles /\ z \in BOOLEAN
        BY <1>4 DEF AcceptRead, MayAccept, Typed, TypeOK, InvitationRow
    <2>2. req' = [req EXCEPT ![q] = x]
        BY <1>4 DEF AcceptRead, Goto
    <2> HIDE DEF e, r, z
    <2>3. x \in Request /\ Carries(x)
        BY <2>1 DEF Idle, Request, Carries
    <2> QED BY <2>2, <2>3
<1> QED BY <1>1, <1>2, <1>3, <1>4 DEF Begin

LEMMA StepMoves ==
    ASSUME Typed, NEW q \in Slots, Step(q) \/ MailError(q) \/ Fail(q)
    PROVE  \E x \in Request : Carries(x) /\ req' = [req EXCEPT ![q] = x]
<1>1. req[q] \in Request /\ Carries(req[q])
    BY DEF Typed, TypeOK
<1>2. CASE req' = [req EXCEPT ![q] = Idle]
    BY <1>2, IdleTyped
<1>3. CASE SubmitTaken(q)
    <2>1. [req[q] EXCEPT !.pc = "refind"] \in Request /\ Carries([req[q] EXCEPT !.pc = "refind"])
        BY <1>1, <1>3 DEF Request, Carries, SubmitTaken
    <2> QED BY <1>3, <2>1 DEF SubmitTaken, Goto
<1>4. CASE InviteUser(q)
    <2> DEFINE e == req[q].email  u == users[e].id
    <2>1. CASE users[e] # None
        <3>1. e \in Emails /\ u \in UserId /\ u[1] = e
            BY <1>1, <1>4, <2>1 DEF InviteUser, Carries, Typed, TypeOK, IdsAreOwn, User
        <3>2. req' = [req EXCEPT ![q] = [req[q] EXCEPT !.pc = "link", !.user = u]]
            BY <1>4, <2>1 DEF InviteUser, Goto
        <3> HIDE DEF u
        <3>3. [req[q] EXCEPT !.pc = "link", !.user = u] \in Request /\ Carries([req[q] EXCEPT !.pc = "link", !.user = u])
            BY <1>1, <1>4, <3>1 DEF Request, Carries, InviteUser
        <3> QED BY <3>2, <3>3
    <2>2. CASE users[e] = None
        <3>1. [req[q] EXCEPT !.pc = "check"] \in Request /\ Carries([req[q] EXCEPT !.pc = "check"])
            BY <1>1, <1>4 DEF Request, Carries, InviteUser
        <3> QED BY <1>4, <2>2, <3>1 DEF InviteUser, Goto
    <2> QED BY <2>1, <2>2
<1>5. CASE InvitationCheck(q)
    <2>1. [req[q] EXCEPT !.pc = "insert"] \in Request /\ Carries([req[q] EXCEPT !.pc = "insert"])
        BY <1>1, <1>5 DEF Request, Carries, InvitationCheck
    <2> QED BY <1>2, <1>5, <2>1 DEF InvitationCheck, CheckPending, Goto
<1>6. CASE InvitationInsert(q)
    <2>1. PICK i \in Invitations : req' = [req EXCEPT ![q] = [req[q] EXCEPT !.pc = "mail", !.inv = i]]
        BY <1>6 DEF InvitationInsert, Goto
    <2>2. [req[q] EXCEPT !.pc = "mail", !.inv = i] \in Request /\ Carries([req[q] EXCEPT !.pc = "mail", !.inv = i])
        BY <1>1, <1>6 DEF Request, Carries, InvitationInsert
    <2> QED BY <2>1, <2>2
<1>7. CASE InvitationMail(q)
    <2>1. CASE req[q].lead = None
        BY <1>2, <1>7, <2>1 DEF InvitationMail, AfterMail, Goto
    <2>2. CASE req[q].lead # None
        <3>1. /\ [req[q] EXCEPT !.pc = "mark", !.inv = None] \in Request
              /\ Carries([req[q] EXCEPT !.pc = "mark", !.inv = None])
            BY <1>1, <1>7, <2>2 DEF Request, Carries, InvitationMail
        <3> QED BY <1>7, <2>2, <3>1 DEF InvitationMail, AfterMail, Goto
    <2> QED BY <2>1, <2>2
<1>8. CASE AcceptUpsert(q)
    <2>1. [req[q] EXCEPT !.pc = "use"] \in Request /\ Carries([req[q] EXCEPT !.pc = "use"])
        BY <1>1, <1>8 DEF Request, Carries, AcceptUpsert
    <2> QED BY <1>8, <2>1 DEF AcceptUpsert, Goto
<1> QED BY <1>2, <1>3, <1>4, <1>5, <1>6, <1>7, <1>8 DEF Step, MailError, Fail, SubmitInsert, SubmitRefind, AnswerHolder,
        AnswerLead, Refuse, InviteLink, InviteMark, UpdateLead, InvitationOrphan, AcceptUse, Finish, Goto

LEMMA RequestsTyped ==
    ASSUME Typed, [Next]_vars
    PROVE  req' \in [Slots -> Request] /\ \A q \in Slots : Carries(req'[q])
<1>1. req \in [Slots -> Request] /\ \A q \in Slots : Carries(req[q])
    BY DEF Typed, TypeOK
<1>2. ASSUME NEW q \in Slots, \E x \in Request : Carries(x) /\ req' = [req EXCEPT ![q] = x]
      PROVE  req' \in [Slots -> Request] /\ \A s \in Slots : Carries(req'[s])
    BY <1>1, <1>2
<1>3. ASSUME NEW e \in Emails, DeleteUser(e)
      PROVE  req' \in [Slots -> Request] /\ \A s \in Slots : Carries(req'[s])
    <2>1. ASSUME NEW x \in Request, Carries(x)
          PROVE  [x EXCEPT !.had = FALSE] \in Request /\ Carries([x EXCEPT !.had = FALSE])
        <3> DEFINE y == [x EXCEPT !.had = FALSE]
        <3>1. /\ y \in Request /\ y.pc = x.pc /\ y.sub = x.sub /\ y.lead = x.lead /\ y.email = x.email
              /\ y.role = x.role /\ y.by = x.by /\ y.inv = x.inv /\ y.user = x.user
            BY DEF Request
        <3> HIDE DEF y
        <3>2. Carries(y)
            BY <2>1, <3>1 DEF Carries
        <3> QED BY <3>1, <3>2 DEF y
    <2> QED BY <1>1, <1>3, <2>1 DEF DeleteUser
<1>4. CASE Crash
    BY <1>4, IdleTyped DEF Crash
<1>5. (\E l \in Leads : Reject(l)) \/ (\E i \in Invitations : Expire(i)) \/ (\E e \in Emails : Register(e))
      \/ (\E a \in Staff : StaffLeaves(a)) \/ UNCHANGED vars => req' = req
    BY DEF Reject, Expire, Register, StaffLeaves, vars
<1> QED BY <1>1, <1>2, <1>3, <1>4, <1>5, BeginMoves, StepMoves DEF Next

-----------------------------------------------------------------------------
(* What each step does to the leads.                                         *)
Stored(l, s) ==
    /\ leads[l] = None /\ Holding(s.unit) = {}
    /\ leads' = [leads EXCEPT ![l] = [sub |-> s, email |-> Lower[s.email], status |-> "PENDING", user |-> None]]
    /\ told' = told \union {<<l, s>>}

LEMMA StoreMoves ==
    ASSUME Typed, NEW q \in Slots, SubmitInsert(q)
    PROVE  \E l \in Leads, s \in Submissions : Stored(l, s)
<1>1. req[q].sub \in Submissions
    BY DEF SubmitInsert, Typed, Carries
<1> QED BY <1>1 DEF SubmitInsert, Stored, StoredEmail, AnswerLead

LEMMA LeadMoves ==
    ASSUME Typed, [Next]_vars
    PROVE  \/ UNCHANGED leads
           \/ \E l \in Leads, s \in Submissions : Stored(l, s)
           \/ \E l \in Leads : Reject(l)
           \/ \E q \in Slots : /\ InviteLink(q) \/ InviteMark(q)
                               /\ leads[req[q].lead] # None /\ req[q].lead \in Leads
           \/ \E e \in Emails : DeleteUser(e)
<1>1. ASSUME NEW q \in Slots, Step(q)
      PROVE  \/ UNCHANGED leads
             \/ \E l \in Leads, s \in Submissions : Stored(l, s)
             \/ /\ InviteLink(q) \/ InviteMark(q)
                /\ leads[req[q].lead] # None /\ req[q].lead \in Leads
    <2>1. InviteLink(q) \/ InviteMark(q) => leads[req[q].lead] # None /\ req[q].lead \in Leads
        BY OnboardingAssumption DEF InviteLink, InviteMark, Typed, Carries
    <2> QED BY <1>1, <2>1, StoreMoves DEF Step, SubmitTaken, SubmitRefind, AnswerHolder, InviteUser, InvitationCheck,
            CheckPending, InvitationInsert, InvitationOrphan, InvitationMail, AcceptUpsert, AcceptUse, tables
<1>2. ASSUME NEW q \in Slots, Begin(q) \/ MailError(q) \/ Fail(q) PROVE UNCHANGED leads
    BY <1>2 DEF Begin, MailError, Fail, SubmitFindNone, SubmitFind, AnswerHolder, InviteStart, DirectCheck, CheckPending,
        AcceptRead, tables
<1>3. (\E i \in Invitations : Expire(i)) \/ (\E e \in Emails : Register(e)) \/ (\E a \in Staff : StaffLeaves(a))
      \/ Crash \/ UNCHANGED vars => UNCHANGED leads
    BY DEF Expire, Register, StaffLeaves, Crash, vars, tables
<1> QED BY <1>1, <1>2, <1>3 DEF Next

(* A lead that is stored keeps what was submitted. *)
LEMMA LeadsKeep ==
    ASSUME Typed, [Next]_vars
    PROVE  /\ leads' \in [Leads -> LeadRow \union {None}]
           /\ \A l \in Leads : leads[l] # None =>
                 leads'[l] # None /\ leads'[l].sub = leads[l].sub /\ leads'[l].email = leads[l].email
           /\ \A l \in Leads : leads'[l] # None => leads'[l].email = Lower[leads'[l].sub.email]
<1> DEFINE Right == /\ leads' \in [Leads -> LeadRow \union {None}]
                    /\ \A l \in Leads : leads[l] # None =>
                          leads'[l] # None /\ leads'[l].sub = leads[l].sub /\ leads'[l].email = leads[l].email
                    /\ \A l \in Leads : leads'[l] # None => leads'[l].email = Lower[leads'[l].sub.email]
<1>0. /\ leads \in [Leads -> LeadRow \union {None}]
      /\ \A l \in Leads : leads[l] # None => leads[l].email = Lower[leads[l].sub.email]
    BY DEF Typed, TypeOK
<1>1. ASSUME NEW l \in Leads, NEW x \in LeadRow, leads[l] # None, leads' = [leads EXCEPT ![l] = x],
             x.sub = leads[l].sub, x.email = leads[l].email
      PROVE  Right
    BY <1>0, <1>1, RowAssumption
<1>2. CASE UNCHANGED leads
    BY <1>0, <1>2
<1>3. ASSUME NEW l \in Leads, NEW s \in Submissions, Stored(l, s) PROVE Right
    <2> DEFINE x == [sub |-> s, email |-> Lower[s.email], status |-> "PENDING", user |-> None]
    <2>1. x \in LeadRow /\ x.email = Lower[x.sub.email]
        BY OnboardingAssumption DEF LeadRow, LeadStatus
    <2>2. leads[l] = None /\ leads' = [leads EXCEPT ![l] = x]
        BY <1>3 DEF Stored
    <2> HIDE DEF x
    <2> QED BY <1>0, <2>1, <2>2
<1>4. ASSUME NEW l \in Leads, Reject(l) PROVE Right
    <2> DEFINE x == [leads[l] EXCEPT !.status = "REJECTED"]
    <2>1. leads[l] # None /\ leads[l] \in LeadRow
        BY <1>0, <1>4 DEF Reject, Active
    <2>2. x \in LeadRow /\ x.sub = leads[l].sub /\ x.email = leads[l].email
        BY <2>1 DEF LeadRow, LeadStatus
    <2>3. leads' = [leads EXCEPT ![l] = x]
        BY <1>4 DEF Reject
    <2> HIDE DEF x
    <2> QED BY <1>1, <2>1, <2>2, <2>3
<1>5. ASSUME NEW q \in Slots, InviteLink(q) \/ InviteMark(q), leads[req[q].lead] # None, req[q].lead \in Leads
      PROVE  Right
    <2> DEFINE l == req[q].lead  u == req[q].user
               x == [leads[l] EXCEPT !.user = u, !.status = "CONVERTED"]
               y == [leads[l] EXCEPT !.status = "INVITED"]
    <2>1. leads[l] \in LeadRow
        BY <1>0, <1>5
    <2>2. u \in UserId \union {None}
        BY DEF Typed, TypeOK, Request
    <2>3. /\ x \in LeadRow /\ x.sub = leads[l].sub /\ x.email = leads[l].email
          /\ y \in LeadRow /\ y.sub = leads[l].sub /\ y.email = leads[l].email
        BY <2>1, <2>2 DEF LeadRow, LeadStatus
    <2>4. leads' = leads \/ leads' = [leads EXCEPT ![l] = x] \/ leads' = [leads EXCEPT ![l] = y]
        BY <1>5 DEF InviteLink, InviteMark, UpdateLead
    <2> HIDE DEF x, y
    <2> QED BY <1>1, <1>2, <1>5, <2>3, <2>4
<1>6. ASSUME NEW e \in Emails, DeleteUser(e) PROVE Right
    <2>1. ASSUME NEW x \in LeadRow
          PROVE  /\ [x EXCEPT !.user = None] \in LeadRow
                 /\ [x EXCEPT !.user = None].sub = x.sub /\ [x EXCEPT !.user = None].email = x.email
        BY DEF LeadRow
    <2>2. leads' = [l \in Leads |-> IF leads[l] # None /\ leads[l].user = users[e].id
                                    THEN [leads[l] EXCEPT !.user = None] ELSE leads[l]]
        BY <1>6 DEF DeleteUser
    <2> QED BY <1>0, <2>1, <2>2, RowAssumption
<1>7. ASSUME NEW q \in Slots, InviteLink(q) \/ InviteMark(q), leads[req[q].lead] # None /\ req[q].lead \in Leads
      PROVE  Right
    BY <1>5, <1>7
<1>8. CASE \E l \in Leads, s \in Submissions : Stored(l, s)
    BY <1>3, <1>8
<1>9. CASE \E l \in Leads : Reject(l)
    BY <1>4, <1>9
<1>10. CASE \E e \in Emails : DeleteUser(e)
    BY <1>6, <1>10
<1>11. CASE \E q \in Slots : /\ InviteLink(q) \/ InviteMark(q)
                             /\ leads[req[q].lead] # None /\ req[q].lead \in Leads
    BY <1>7, <1>11
<1>12. Right
    BY <1>2, <1>8, <1>9, <1>10, <1>11, LeadMoves
<1> QED BY <1>12 DEF Right

(* Accounts and invitations. *)
LEMMA UsersTyped ==
    ASSUME Typed, [Next]_vars
    PROVE  users' \in [Emails -> User \union {None}] /\ \A e \in Emails : users'[e] # None => users'[e].id[1] = e
<1> DEFINE Right == users' \in [Emails -> User \union {None}]
                    /\ \A e \in Emails : users'[e] # None => users'[e].id[1] = e
<1>0. users \in [Emails -> User \union {None}] /\ \A e \in Emails : users[e] # None => users[e].id[1] = e
    BY DEF Typed, TypeOK, IdsAreOwn
<1>1. ASSUME NEW e \in Emails, NEW i \in UserId, i[1] = e, NEW r \in AllRoles,
             users' = [users EXCEPT ![e] = [id |-> i, role |-> r]]
      PROVE  Right
    <2>1. [id |-> i, role |-> r] \in User
        BY DEF User
    <2> QED BY <1>0, <1>1, <2>1
<1>2. ASSUME NEW e \in Emails PROVE NewId(e) \in UserId /\ NewId(e)[1] = e /\ <<e, deleted>> \in UserId
    <2>1. deleted \in 0..MaxUpsets
        BY OnboardingAssumption DEF Typed, TypeOK
    <2> QED BY <1>0, <2>1 DEF NewId, UserId, User
<1>3. ASSUME NEW q \in Slots, AcceptUpsert(q) PROVE Right
    <2>1. req[q].email \in Emails /\ req[q].role \in AllRoles
        BY <1>3 DEF AcceptUpsert, Typed, Carries
    <2> QED BY <1>1, <1>2, <1>3, <2>1 DEF AcceptUpsert
<1>4. ASSUME NEW e \in Emails, Register(e) PROVE Right
    <2>1. Lower[e] \in Emails /\ "RESIDENT" \in AllRoles
        BY OnboardingAssumption DEF AllRoles
    <2>2. <<Lower[e], deleted>> \in UserId /\ <<Lower[e], deleted>>[1] = Lower[e]
        BY <1>2, <2>1
    <2> QED BY <1>1, <1>4, <2>1, <2>2 DEF Register, RegisteredEmail
<1>5. ASSUME NEW e \in Emails, DeleteUser(e) PROVE Right
    BY <1>0, <1>5 DEF DeleteUser
<1>6. ASSUME NEW q \in Slots, Step(q) PROVE AcceptUpsert(q) \/ UNCHANGED users
    BY <1>6 DEF Step, SubmitInsert, SubmitTaken, SubmitRefind, AnswerHolder, InviteUser, InviteLink, InviteMark,
        UpdateLead, InvitationCheck, CheckPending, InvitationInsert, InvitationOrphan, InvitationMail, AcceptUse, tables
<1>7. ASSUME NEW q \in Slots, Begin(q) \/ MailError(q) \/ Fail(q) PROVE UNCHANGED users
    BY <1>7 DEF Begin, MailError, Fail, SubmitFindNone, SubmitFind, AnswerHolder, InviteStart, DirectCheck, CheckPending,
        AcceptRead, tables
<1>8. (\E l \in Leads : Reject(l)) \/ (\E i \in Invitations : Expire(i)) \/ (\E a \in Staff : StaffLeaves(a))
      \/ Crash \/ UNCHANGED vars => UNCHANGED users
    BY DEF Reject, Expire, StaffLeaves, Crash, vars, tables
<1>9. UNCHANGED users => Right
    BY <1>0
<1> QED BY <1>3, <1>4, <1>5, <1>6, <1>7, <1>8, <1>9 DEF Next

(* What each step does to the invitations.                                  *)
LEMMA InvitationMoves ==
    ASSUME Typed, [Next]_vars
    PROVE  \/ UNCHANGED <<invitations, mailed, offered, answered>>
           \/ \E q \in Slots : InvitationInsert(q) \/ AcceptUse(q)
           \/ \E q \in Slots : (InvitationMail(q) \/ MailError(q)) /\ Sent(q)
           \/ \E i \in Invitations : Expire(i)
           \/ \E a \in Staff : StaffLeaves(a)
<1>1. ASSUME NEW q \in Slots, Step(q) \/ MailError(q)
      PROVE  \/ UNCHANGED <<invitations, mailed, offered, answered>>
             \/ InvitationInsert(q) \/ AcceptUse(q)
             \/ (InvitationMail(q) \/ MailError(q)) /\ Sent(q)
    BY <1>1 DEF Step, MailError, SubmitInsert, SubmitTaken, SubmitRefind, AnswerHolder, InviteUser, InviteLink, InviteMark,
        UpdateLead, InvitationCheck, CheckPending, InvitationOrphan, InvitationMail, AcceptUpsert, tables, history
<1>2. ASSUME NEW q \in Slots, Begin(q) \/ Fail(q) PROVE UNCHANGED <<invitations, mailed, offered, answered>>
    BY <1>2 DEF Begin, Fail, SubmitFindNone, SubmitFind, AnswerHolder, InviteStart, DirectCheck, CheckPending,
        AcceptRead, tables, history
<1>3. (\E l \in Leads : Reject(l)) \/ (\E e \in Emails : Register(e) \/ DeleteUser(e)) \/ Crash \/ UNCHANGED vars
          => UNCHANGED <<invitations, mailed, offered, answered>>
    BY DEF Reject, Register, DeleteUser, Crash, vars, tables, history
<1> QED BY <1>1, <1>2, <1>3 DEF Next

LEMMA InvitationsTyped ==
    ASSUME Typed, [Next]_vars
    PROVE  /\ invitations' \in [Invitations -> InvitationRow \union {None}]
           /\ mailed' \subseteq Invitations /\ answered' \subseteq Invitations
           /\ offered' \subseteq Emails \X AllRoles /\ offered \subseteq offered'
<1> DEFINE Right == /\ invitations' \in [Invitations -> InvitationRow \union {None}]
                    /\ mailed' \subseteq Invitations /\ answered' \subseteq Invitations
                    /\ offered' \subseteq Emails \X AllRoles /\ offered \subseteq offered'
<1>0. /\ invitations \in [Invitations -> InvitationRow \union {None}]
      /\ mailed \subseteq Invitations /\ answered \subseteq Invitations
      /\ offered \subseteq Emails \X AllRoles
    BY DEF Typed, TypeOK
<1>1. CASE UNCHANGED <<invitations, mailed, offered, answered>>
    BY <1>0, <1>1
<1>2. ASSUME NEW q \in Slots, InvitationInsert(q) PROVE Right
    <2> DEFINE x == [email |-> req[q].email, role |-> req[q].role, by |-> req[q].by, used |-> FALSE, expired |-> FALSE]
    <2>1. x \in InvitationRow
        BY <1>2 DEF InvitationInsert, Typed, Carries, InvitationRow
    <2>2. PICK i \in Invitations : /\ invitations' = [invitations EXCEPT ![i] = x]
                                   /\ mailed' = mailed \ {i} /\ answered' = answered \ {i}
        BY <1>2 DEF InvitationInsert
    <2>3. offered' = offered
        BY <1>2 DEF InvitationInsert
    <2> HIDE DEF x
    <2> QED BY <1>0, <2>1, <2>2, <2>3
<1>3. ASSUME NEW i \in Invitations, NEW x \in InvitationRow, invitations' = [invitations EXCEPT ![i] = x],
             mailed' = mailed, offered' = offered, answered' \in {answered, answered \union {i}}
      PROVE  Right
    BY <1>0, <1>3
<1>4. ASSUME NEW i \in Invitations, invitations[i] # None
      PROVE  [invitations[i] EXCEPT !.used = TRUE] \in InvitationRow
             /\ [invitations[i] EXCEPT !.expired = TRUE] \in InvitationRow
    <2>1. invitations[i] \in InvitationRow
        BY <1>0, <1>4
    <2> QED BY <2>1 DEF InvitationRow
<1>5. ASSUME NEW q \in Slots, AcceptUse(q) PROVE Right
    <2> DEFINE i == req[q].inv
    <2>1. i \in Invitations
        BY <1>5 DEF AcceptUse, Typed, Carries
    <2>2. CASE invitations[i] = None
        BY <1>0, <1>5, <2>2 DEF AcceptUse
    <2>3. CASE invitations[i] # None
        <3>1. /\ invitations' = [invitations EXCEPT ![i] = [invitations[i] EXCEPT !.used = TRUE]]
              /\ mailed' = mailed /\ offered' = offered /\ answered' = answered \union {i}
            BY <1>5, <2>3 DEF AcceptUse
        <3> QED BY <1>3, <1>4, <2>1, <2>3, <3>1
    <2> QED BY <2>2, <2>3
<1>6. ASSUME NEW i \in Invitations, Expire(i) PROVE Right
    <2>1. /\ invitations[i] # None
          /\ invitations' = [invitations EXCEPT ![i] = [invitations[i] EXCEPT !.expired = TRUE]]
          /\ mailed' = mailed /\ offered' = offered /\ answered' = answered
        BY <1>6 DEF Expire, history
    <2> QED BY <1>3, <1>4, <2>1
<1>7. ASSUME NEW q \in Slots, InvitationMail(q) \/ MailError(q), Sent(q) PROVE Right
    <2>1. req[q].inv \in Invitations /\ req[q].email \in Emails /\ req[q].role \in AllRoles
        BY <1>7 DEF InvitationMail, MailError, Typed, Carries
    <2>2. invitations' = invitations /\ answered' = answered
        BY <1>7 DEF InvitationMail, MailError, tables
    <2> QED BY <1>0, <1>7, <2>1, <2>2 DEF Sent
<1>8. ASSUME NEW a \in Staff, StaffLeaves(a) PROVE Right
    BY <1>0, <1>8 DEF StaffLeaves
<1> QED BY <1>1, <1>2, <1>5, <1>6, <1>7, <1>8, InvitationMoves

LEMMA StepTyped ==
    ASSUME Typed, [Next]_vars
    PROVE  Typed'
<1>1. told' \subseteq Leads \X Submissions /\ turnedAway' \subseteq Submissions
    <2>0. told \subseteq Leads \X Submissions /\ turnedAway \subseteq Submissions
        BY DEF Typed, TypeOK
    <2>1. ASSUME NEW q \in Slots, NEW s \in Submissions, AnswerHolder(q, s)
          PROVE  told' \subseteq Leads \X Submissions /\ turnedAway' \subseteq Submissions
        BY <2>0, <2>1 DEF AnswerHolder, AnswerLead, Refuse, Holding
    <2>2. ASSUME NEW q \in Slots, Step(q)
          PROVE  told' \subseteq Leads \X Submissions /\ turnedAway' \subseteq Submissions
        <3>1. CASE SubmitRefind(q)
            BY <2>1, <3>1 DEF SubmitRefind, Typed, Carries
        <3>2. CASE SubmitInsert(q)
            <4>1. req[q].sub \in Submissions
                BY <3>2 DEF SubmitInsert, Typed, Carries
            <4> QED BY <2>0, <3>2, <4>1 DEF SubmitInsert, AnswerLead
        <3>3. CASE ~SubmitRefind(q) /\ ~SubmitInsert(q)
            BY <2>0, <2>2, <3>3 DEF Step, SubmitTaken, InviteUser, InviteLink, InviteMark, UpdateLead, InvitationCheck,
                CheckPending, InvitationInsert, InvitationOrphan, InvitationMail, AcceptUpsert, AcceptUse, history
        <3> QED BY <3>1, <3>2, <3>3
    <2>3. ASSUME NEW q \in Slots, NEW s \in Submissions, SubmitFind(q, s)
          PROVE  told' \subseteq Leads \X Submissions /\ turnedAway' \subseteq Submissions
        BY <2>1, <2>3 DEF SubmitFind
    <2>4. ASSUME NEW q \in Slots,
                 \/ MailError(q) \/ Fail(q)
                 \/ \E s \in Submissions : SubmitFindNone(q, s)
                 \/ \E l \in Leads, a \in Staff : InviteStart(q, l, a)
                 \/ \E e \in DirectEmails, r \in Roles, a \in Staff : DirectCheck(q, e, r, a)
                 \/ \E i \in Invitations : AcceptRead(q, i)
          PROVE  UNCHANGED <<told, turnedAway>>
        BY <2>4 DEF MailError, Fail, SubmitFindNone, InviteStart, DirectCheck, CheckPending, AcceptRead, history
    <2>5. (\E l \in Leads : Reject(l)) \/ (\E i \in Invitations : Expire(i))
          \/ (\E e \in Emails : Register(e) \/ DeleteUser(e)) \/ (\E a \in Staff : StaffLeaves(a))
          \/ Crash \/ UNCHANGED vars => UNCHANGED <<told, turnedAway>>
        BY DEF Reject, Expire, Register, DeleteUser, StaffLeaves, Crash, vars, history
    <2> QED BY <2>0, <2>2, <2>3, <2>4, <2>5 DEF Next, Begin
<1>2. staff' \subseteq Staff /\ upsets' \in 0..MaxUpsets /\ deleted' \in 0..upsets'
    <2>0. staff \subseteq Staff /\ upsets \in 0..MaxUpsets /\ deleted \in 0..upsets /\ MaxUpsets \in Nat
        BY OnboardingAssumption DEF Typed, TypeOK
    <2>1. \/ UNCHANGED <<staff, upsets, deleted>>
          \/ Upset /\ staff' = staff /\ (deleted' = deleted \/ deleted' = deleted + 1)
          \/ Upset /\ staff' \subseteq staff /\ deleted' = deleted
        <3>1. ASSUME NEW q \in Slots, Step(q) PROVE UNCHANGED <<staff, upsets, deleted>>
            BY <3>1 DEF Step, SubmitInsert, SubmitTaken, SubmitRefind, AnswerHolder, InviteUser, InviteLink, InviteMark,
                UpdateLead, InvitationCheck, CheckPending, InvitationInsert, InvitationOrphan, InvitationMail,
                AcceptUpsert, AcceptUse, tables
        <3>2. ASSUME NEW q \in Slots, Begin(q) \/ MailError(q) \/ Fail(q)
              PROVE  UNCHANGED <<staff, deleted>> /\ (Upset \/ UNCHANGED upsets)
            BY <3>2 DEF Begin, MailError, Fail, SubmitFindNone, SubmitFind, AnswerHolder, InviteStart, DirectCheck,
                CheckPending, AcceptRead, tables
        <3>3. (\E i \in Invitations : Expire(i)) \/ (\E e \in Emails : Register(e)) \/ UNCHANGED vars
                  => UNCHANGED <<staff, upsets, deleted>>
            BY DEF Expire, Register, vars, tables
        <3>4. (\E l \in Leads : Reject(l)) \/ (\E e \in Emails : DeleteUser(e)) \/ Crash
                  => Upset /\ staff' = staff /\ (deleted' = deleted \/ deleted' = deleted + 1)
            BY DEF Reject, DeleteUser, Crash, tables
        <3>5. (\E a \in Staff : StaffLeaves(a)) => Upset /\ staff' \subseteq staff /\ deleted' = deleted
            BY DEF StaffLeaves
        <3> QED BY <3>1, <3>2, <3>3, <3>4, <3>5 DEF Next
    <2> QED BY <2>0, <2>1 DEF Upset
<1>3. \A q \in Slots : Carries(req[q])'
    <2> SUFFICES ASSUME NEW q \in Slots PROVE Carries(req[q])'
        OBVIOUS
    <2>1. Carries(req'[q]) /\ req'[q] \in Request
        BY RequestsTyped
    <2>2. req'[q].lead # None => req'[q].lead \in Leads
        BY <2>1 DEF Request
    <2> QED BY <2>1, <2>2, LeadsKeep DEF Carries
<1>4. IdsAreOwn'
    BY UsersTyped DEF IdsAreOwn
<1>5. TypeOK'
    BY <1>1, <1>2, RequestsTyped, LeadsKeep, UsersTyped, InvitationsTyped DEF TypeOK
<1> QED BY <1>3, <1>4, <1>5 DEF Typed

LEMMA TypedAlways == Safety => []Typed
BY Initially, StepTyped, PTL DEF Safety

(* Accounts, leads, invitations and requests always have their types; the    *)
(* address of a lead is in lower case.                                       *)
THEOREM OnboardingTyped == Safety => []TypeOK
<1>1. Typed => TypeOK
    BY DEF Typed
<1> QED BY <1>1, TypedAlways, PTL

-----------------------------------------------------------------------------
(* How a request gets where it waits.                                        *)
LEMMA Motion ==
    ASSUME Typed, [Next]_vars, NEW s \in Slots, req'[s] # req[s]
    PROVE  \/ req'[s] = Idle
           \/ Step(s) \/ Begin(s)
           \/ (\E e \in Emails : DeleteUser(e)) /\ req'[s] = [req[s] EXCEPT !.had = FALSE] /\ req[s].had
<1>0. req \in [Slots -> Request]
    BY DEF Typed, TypeOK
<1>1. ASSUME NEW q \in Slots, Step(q) \/ Begin(q) PROVE Step(s) \/ Begin(s)
    <2>1. \E x \in Request : req' = [req EXCEPT ![q] = x]
        BY <1>1, StepMoves, BeginMoves
    <2>2. q = s
        BY <1>0, <2>1
    <2> QED BY <1>1, <2>2
<1>2. ASSUME NEW q \in Slots, MailError(q) \/ Fail(q) PROVE req'[s] = Idle
    <2>1. req' = [req EXCEPT ![q] = Idle]
        BY <1>2 DEF MailError, Fail, Finish, Goto
    <2> QED BY <1>0, <2>1
<1>3. CASE Crash
    BY <1>3 DEF Crash
<1>4. ASSUME NEW e \in Emails, DeleteUser(e)
      PROVE  req'[s] = [req[s] EXCEPT !.had = FALSE] /\ req[s].had
    <2>1. req'[s] = [req[s] EXCEPT !.had = FALSE]
        BY <1>4 DEF DeleteUser
    <2>2. req[s] \in Request
        BY <1>0
    <2>3. ASSUME NEW x \in Request, ~x.had PROVE [x EXCEPT !.had = FALSE] = x
        <3>1. x.had = FALSE
            BY <2>3 DEF Request
        <3> QED BY <3>1 DEF Request
    <2>4. req[s].had
        BY <2>1, <2>2, <2>3
    <2> QED BY <2>1, <2>4
<1>5. (\E l \in Leads : Reject(l)) \/ (\E i \in Invitations : Expire(i)) \/ (\E e \in Emails : Register(e))
      \/ (\E a \in Staff : StaffLeaves(a)) \/ UNCHANGED vars => req' = req
    BY DEF Reject, Expire, Register, StaffLeaves, vars
<1>6. ASSUME NEW q \in Slots, Step(q) \/ Begin(q) \/ MailError(q) \/ Fail(q)
      PROVE  req'[s] = Idle \/ Step(s) \/ Begin(s)
    BY <1>1, <1>2, <1>6
<1>7. (\E q \in Slots : Step(q) \/ Begin(q) \/ MailError(q) \/ Fail(q)) \/ (\E e \in Emails : DeleteUser(e)) \/ Crash
    BY <1>5 DEF Next
<1> QED BY <1>3, <1>4, <1>6, <1>7

LEMMA Entered ==
    ASSUME Typed, NEW s \in Slots, Step(s) \/ Begin(s)
    PROVE  /\ req'[s].pc = "user" => \E l \in Leads, a \in Staff : InviteStart(s, l, a)
           /\ req'[s].pc \in {"link", "check"} => InviteUser(s)
           /\ req'[s].pc = "insert" => InvitationCheck(s)
                  \/ \E e \in DirectEmails, r \in Roles, a \in Staff : DirectCheck(s, e, r, a)
           /\ req'[s].pc = "mail" => InvitationInsert(s)
           /\ req'[s].pc = "mark" => InvitationMail(s)
           /\ req'[s].pc = "upsert" => \E i \in Invitations : AcceptRead(s, i)
           /\ req'[s].pc = "use" => AcceptUpsert(s)
<1>0. req \in [Slots -> Request] /\ req[s] \in Request /\ Idle \in Request /\ Idle.pc = "idle"
    BY IdleTyped DEF Typed, TypeOK
<1>1. SubmitInsert(s) \/ SubmitRefind(s) \/ InviteLink(s) \/ InviteMark(s) \/ InvitationOrphan(s) \/ AcceptUse(s)
          => req'[s].pc = "idle"
    BY <1>0 DEF SubmitInsert, SubmitRefind, AnswerHolder, AnswerLead, Refuse, InviteLink, InviteMark, UpdateLead,
        InvitationOrphan, AcceptUse, Finish, Goto
<1>2. ASSUME NEW x \in Submissions, SubmitFindNone(s, x) \/ SubmitFind(s, x) PROVE req'[s].pc \in {"idle", "submit"}
    BY <1>0, <1>2 DEF SubmitFindNone, SubmitFind, AnswerHolder, AnswerLead, Refuse, Finish, Goto, Idle
<1>3. SubmitTaken(s) => req'[s].pc = "refind"
    BY <1>0 DEF SubmitTaken, Goto, Request
<1>4. InviteUser(s) => req'[s].pc \in {"link", "check"}
    BY <1>0 DEF InviteUser, Goto, Request
<1>5. InvitationCheck(s) => req'[s].pc \in {"idle", "insert"}
    BY <1>0 DEF InvitationCheck, CheckPending, Goto, Request
<1>6. InvitationInsert(s) => req'[s].pc = "mail"
    BY <1>0 DEF InvitationInsert, Goto, Request
<1>7. InvitationMail(s) => req'[s].pc \in {"idle", "mark"}
    BY <1>0 DEF InvitationMail, AfterMail, Goto, Request
<1>8. AcceptUpsert(s) => req'[s].pc = "use"
    BY <1>0 DEF AcceptUpsert, Goto, Request
<1>9. ASSUME NEW l \in Leads, NEW a \in Staff, InviteStart(s, l, a) PROVE req'[s].pc = "user"
    BY <1>0, <1>9 DEF InviteStart, Goto, Idle
<1>10. ASSUME NEW e \in DirectEmails, NEW r \in Roles, NEW a \in Staff, DirectCheck(s, e, r, a)
       PROVE  req'[s].pc \in {"idle", "insert"}
    BY <1>0, <1>10 DEF DirectCheck, CheckPending, Goto, Idle
<1>11. ASSUME NEW i \in Invitations, AcceptRead(s, i) PROVE req'[s].pc = "upsert"
    BY <1>0, <1>11 DEF AcceptRead, Goto, Idle
<1> QED BY <1>1, <1>2, <1>3, <1>4, <1>5, <1>6, <1>7, <1>8, <1>9, <1>10, <1>11 DEF Step, Begin

LEMMA UserMoves ==
    ASSUME Typed, [Next]_vars
    PROVE  \/ UNCHANGED users
           \/ \E q \in Slots : AcceptUpsert(q)
           \/ \E e \in Emails : Register(e) \/ DeleteUser(e)
<1>1. ASSUME NEW q \in Slots, Step(q) PROVE AcceptUpsert(q) \/ UNCHANGED users
    BY <1>1 DEF Step, SubmitInsert, SubmitTaken, SubmitRefind, AnswerHolder, InviteUser, InviteLink, InviteMark,
        UpdateLead, InvitationCheck, CheckPending, InvitationInsert, InvitationOrphan, InvitationMail, AcceptUse, tables
<1>2. ASSUME NEW q \in Slots, Begin(q) \/ MailError(q) \/ Fail(q) PROVE UNCHANGED users
    BY <1>2 DEF Begin, MailError, Fail, SubmitFindNone, SubmitFind, AnswerHolder, InviteStart, DirectCheck, CheckPending,
        AcceptRead, tables
<1>3. (\E l \in Leads : Reject(l)) \/ (\E i \in Invitations : Expire(i)) \/ (\E a \in Staff : StaffLeaves(a))
      \/ Crash \/ UNCHANGED vars => UNCHANGED users
    BY DEF Reject, Expire, StaffLeaves, Crash, vars, tables
<1> QED BY <1>1, <1>2, <1>3 DEF Next

-----------------------------------------------------------------------------
(* An account that a call found when it began is found again by its look-up, *)
(* unless it was deleted in between.                                         *)
HadInv ==
    \A q \in Slots :
        /\ req[q].pc = "user" /\ req[q].had => users[req[q].email] # None
        /\ req[q].pc \in {"check", "insert", "mail", "mark"} /\ req[q].lead # None => ~req[q].had

LEMMA HadStep ==
    ASSUME Typed, Typed', HadInv, [Next]_vars
    PROVE  HadInv'
<1>0. /\ req \in [Slots -> Request] /\ users \in [Emails -> User \union {None}]
      /\ \A s \in Slots : Carries(req[s])
    BY DEF Typed, TypeOK
<1> SUFFICES ASSUME NEW s \in Slots
             PROVE  /\ req'[s].pc = "user" /\ req'[s].had => users'[req'[s].email] # None
                    /\ req'[s].pc \in {"check", "insert", "mail", "mark"} /\ req'[s].lead # None => ~req'[s].had
    BY DEF HadInv
<1>1. /\ req[s].pc = "user" /\ req[s].had => users[req[s].email] # None
      /\ req[s].pc \in {"check", "insert", "mail", "mark"} /\ req[s].lead # None => ~req[s].had
    BY DEF HadInv
<1>2. ASSUME NEW e \in Emails, users[e] # None, users'[e] = None
      PROVE  \A q \in Slots : req'[q].email = e => ~req'[q].had
    <2>1. ASSUME NEW q \in Slots, AcceptUpsert(q) PROVE FALSE
        <3>1. req[q].email \in Emails /\ req[q].role \in AllRoles /\ [id |-> NewId(req[q].email), role |-> req[q].role] # None
            <4>1. req[q].email \in Emails /\ req[q].role \in AllRoles
                BY <1>0, <2>1 DEF AcceptUpsert, Carries
            <4>2. NewId(req[q].email) \in UserId
                <5>1. deleted \in 0..MaxUpsets
                    BY OnboardingAssumption DEF Typed, TypeOK
                <5> QED BY <1>0, <4>1, <5>1 DEF NewId, UserId, User
            <4> QED BY <4>1, <4>2, RowAssumption DEF User
        <3> QED BY <1>0, <1>2, <2>1, <3>1 DEF AcceptUpsert
    <2>2. ASSUME NEW x \in Emails, Register(x) PROVE FALSE
        <3>1. users[Lower[x]] = None
            BY <2>2 DEF Register, RegisteredEmail
        <3>2. Lower[x] # e /\ Lower[x] \in Emails
            BY <1>2, <3>1, OnboardingAssumption
        <3> QED BY <1>0, <1>2, <2>2, <3>2 DEF Register, RegisteredEmail
    <2>3. PICK x \in Emails : DeleteUser(x)
        BY <1>2, <2>1, <2>2, UserMoves
    <2>4. x = e
        BY <1>0, <1>2, <2>3 DEF DeleteUser
    <2>5. ASSUME NEW q \in Slots, req'[q].email = e PROVE ~req'[q].had
        <3>1. req'[q] = IF req[q].email = e THEN [req[q] EXCEPT !.had = FALSE] ELSE req[q]
            BY <2>3, <2>4 DEF DeleteUser
        <3>2. req[q] \in Request
            BY <1>0
        <3> QED BY <2>5, <3>1, <3>2 DEF Request
    <2> QED BY <2>5
<1>3. CASE req'[s] = req[s]
    <2>1. req[s].pc = "user" => req[s].email \in Emails
        BY <1>0 DEF Carries
    <2> QED BY <1>1, <1>2, <1>3, <2>1
<1>4. CASE req'[s] = Idle
    BY <1>4 DEF Idle
<1>5. CASE req'[s] = [req[s] EXCEPT !.had = FALSE]
    <2>1. req[s] \in Request
        BY <1>0
    <2>2. ~req'[s].had
        BY <1>5, <2>1 DEF Request
    <2> QED BY <2>2
<1>6. CASE Step(s) \/ Begin(s)
    <2>1. ASSUME NEW l \in Leads, NEW a \in Staff, InviteStart(s, l, a)
          PROVE  req'[s].pc = "user" /\ (req'[s].had => users'[req'[s].email] # None)
        <3>1. req'[s] = [Idle EXCEPT !.pc = "user", !.lead = l, !.email = leads[l].email, !.role = "RESIDENT",
                            !.by = a, !.had = users[leads[l].email] # None]
              /\ users' = users
            BY <1>0, <2>1 DEF InviteStart, Goto, tables
        <3> DEFINE e == leads[l].email  had == users[e] # None
                   x == [Idle EXCEPT !.pc = "user", !.lead = l, !.email = e, !.role = "RESIDENT", !.by = a, !.had = had]
        <3>2. x.pc = "user" /\ x.email = e /\ x.had = had
            BY DEF Idle
        <3>3. req'[s] = x /\ users' = users
            BY <3>1
        <3> HIDE DEF x
        <3> QED BY <3>2, <3>3
    <2>2. ASSUME InviteUser(s), req'[s].pc = "check" PROVE ~req'[s].had
        <3>1. req[s].pc = "user" /\ req[s] \in Request
            BY <1>0, <2>2 DEF InviteUser
        <3>2. users[req[s].email] = None /\ req'[s] = [req[s] EXCEPT !.pc = "check"]
            BY <1>0, <2>2, <3>1 DEF InviteUser, Goto, Request
        <3>3. req'[s].had = req[s].had /\ req[s].had \in BOOLEAN
            BY <3>1, <3>2 DEF Request
        <3> QED BY <1>1, <3>1, <3>2, <3>3
    <2>3. ASSUME InvitationCheck(s), req'[s].pc = "insert"
          PROVE  req[s].pc = "check" /\ req'[s].lead = req[s].lead /\ req'[s].had = req[s].had
        <3>1. req[s].pc = "check" /\ req[s] \in Request
            BY <1>0, <2>3 DEF InvitationCheck
        <3> QED BY <1>0, <2>3, <3>1 DEF InvitationCheck, CheckPending, Goto, Request, Idle
    <2>4. ASSUME NEW e \in DirectEmails, NEW r \in Roles, NEW a \in Staff, DirectCheck(s, e, r, a)
          PROVE  req'[s].lead = None
        BY <1>0, <2>4 DEF DirectCheck, CheckPending, Goto, Idle
    <2>5. ASSUME InvitationInsert(s)
          PROVE  req[s].pc = "insert" /\ req'[s].lead = req[s].lead /\ req'[s].had = req[s].had
        BY <1>0, <2>5 DEF InvitationInsert, Goto, Request
    <2>6. ASSUME InvitationMail(s), req'[s].pc = "mark"
          PROVE  req[s].pc = "mail" /\ req'[s].lead = req[s].lead /\ req'[s].had = req[s].had
        <3>1. req[s].pc = "mail" /\ req[s] \in Request
            BY <1>0, <2>6 DEF InvitationMail
        <3> QED BY <1>0, <2>6, <3>1 DEF InvitationMail, AfterMail, Goto, Request, Idle
    <2> QED BY <1>1, <1>6, <2>1, <2>2, <2>3, <2>4, <2>5, <2>6, Entered
<1> QED BY <1>3, <1>4, <1>5, <1>6, Motion

(* A lead whose address had an account when the call began, and still has,   *)
(* is not invited by that call.                                              *)
THEOREM NeverInvitedTwice == Safety => []NoSecondInvitation
<1>1. Init => HadInv
    BY DEF Init, HadInv, Idle
<1>2. Typed /\ Typed' /\ HadInv /\ [Next]_vars => HadInv'
    BY HadStep
<1>3. HadInv => NoSecondInvitation
    BY DEF HadInv, NoSecondInvitation
<1> QED BY <1>1, <1>2, <1>3, TypedAlways, PTL DEF Safety

-----------------------------------------------------------------------------
LEMMA LinkedStep ==
    ASSUME Typed, LinkedIsOwn, [Next]_vars
    PROVE  LinkedIsOwn'
<1>0. /\ leads \in [Leads -> LeadRow \union {None}] /\ users \in [Emails -> User \union {None}]
      /\ \A l \in Leads : leads[l] # None => leads[l].email \in Emails /\ leads[l].email = Lower[leads[l].sub.email]
    BY DEF Typed, TypeOK, LeadRow
<1>1. ASSUME NEW e \in Emails, NEW u \in User, users' = [users EXCEPT ![e] = u], leads' = leads,
             users[e] # None => u.id = users[e].id
      PROVE  LinkedIsOwn'
    BY <1>0, <1>1, RowAssumption DEF LinkedIsOwn
<1>2. ASSUME NEW q \in Slots, AcceptUpsert(q) PROVE LinkedIsOwn'
    <2> DEFINE e == req[q].email  u == [id |-> NewId(e), role |-> req[q].role]
    <2>1. e \in Emails /\ req[q].role \in AllRoles /\ users' = [users EXCEPT ![e] = u] /\ leads' = leads
        BY <1>2 DEF AcceptUpsert, Typed, Carries
    <2>2. deleted \in 0..MaxUpsets
        BY OnboardingAssumption DEF Typed, TypeOK
    <2>3. u \in User /\ (users[e] # None => u.id = users[e].id)
        BY <1>0, <2>1, <2>2 DEF NewId, UserId, User
    <2> HIDE DEF u
    <2> QED BY <1>1, <2>1, <2>3
<1>3. ASSUME NEW x \in Emails, Register(x) PROVE LinkedIsOwn'
    <2> DEFINE e == Lower[x]  u == [id |-> <<e, deleted>>, role |-> "RESIDENT"]
    <2>1. e \in Emails /\ users' = [users EXCEPT ![e] = u] /\ leads' = leads /\ users[e] = None
        BY <1>3, OnboardingAssumption DEF Register, RegisteredEmail
    <2>2. deleted \in 0..MaxUpsets
        BY OnboardingAssumption DEF Typed, TypeOK
    <2>3. u \in User
        BY <2>1, <2>2 DEF UserId, User, AllRoles
    <2> HIDE DEF u
    <2> QED BY <1>1, <2>1, <2>3
<1>4. ASSUME NEW e \in Emails, DeleteUser(e) PROVE LinkedIsOwn'
    <2>1. /\ users[e] # None /\ users' = [users EXCEPT ![e] = None]
          /\ leads' = [l \in Leads |-> IF leads[l] # None /\ leads[l].user = users[e].id
                                       THEN [leads[l] EXCEPT !.user = None] ELSE leads[l]]
        BY <1>4 DEF DeleteUser
    <2>2. ASSUME NEW l \in Leads, leads'[l] # None, leads'[l].user # None
          PROVE  leads[l] # None /\ leads'[l] = leads[l] /\ leads[l].user # users[e].id
        <3>1. leads[l] # None => leads[l] \in LeadRow
            BY <1>0
        <3> QED BY <2>1, <2>2, <3>1 DEF LeadRow
    <2>3. ASSUME NEW l \in Leads, leads'[l] # None, leads'[l].user # None
          PROVE  /\ leads'[l].user[1] = leads'[l].email
                 /\ users'[leads'[l].email] # None /\ users'[leads'[l].email].id = leads'[l].user
        <3>1. leads[l] # None /\ leads'[l] = leads[l] /\ leads[l].user # users[e].id
            BY <2>2, <2>3
        <3>2. /\ leads[l].user[1] = leads[l].email
              /\ users[leads[l].email] # None /\ users[leads[l].email].id = leads[l].user
            BY <2>3, <3>1 DEF LinkedIsOwn
        <3>3. leads[l].email # e
            BY <3>1, <3>2
        <3> QED BY <1>0, <2>1, <3>1, <3>2, <3>3
    <2> QED BY <2>3 DEF LinkedIsOwn
<1>5. ASSUME NEW l \in Leads, NEW x \in LeadRow, users' = users, leads' = [leads EXCEPT ![l] = x],
             x.user # None => x.user[1] = x.email /\ users[x.email] # None /\ users[x.email].id = x.user
      PROVE  LinkedIsOwn'
    BY <1>0, <1>5 DEF LinkedIsOwn
<1>6. CASE users' = users
    <2>1. ASSUME NEW l \in Leads, NEW s \in Submissions, Stored(l, s) PROVE LinkedIsOwn'
        <3> DEFINE x == [sub |-> s, email |-> Lower[s.email], status |-> "PENDING", user |-> None]
        <3>1. x \in LeadRow /\ x.user = None /\ leads' = [leads EXCEPT ![l] = x]
            BY <2>1, OnboardingAssumption DEF Stored, LeadRow, LeadStatus
        <3> HIDE DEF x
        <3> QED BY <1>5, <1>6, <3>1
    <2>2. ASSUME NEW l \in Leads, leads[l] # None, NEW t \in LeadStatus, leads' = [leads EXCEPT ![l].status = t]
          PROVE  LinkedIsOwn'
        <3> DEFINE x == [leads[l] EXCEPT !.status = t]
        <3>1. leads[l] \in LeadRow
            BY <1>0, <2>2
        <3>2. x \in LeadRow /\ x.user = leads[l].user /\ x.email = leads[l].email
            BY <3>1 DEF LeadRow
        <3>3. leads' = [leads EXCEPT ![l] = x]
            BY <2>2
        <3> HIDE DEF x
        <3> QED BY <1>5, <1>6, <2>2, <3>2, <3>3 DEF LinkedIsOwn
    <2>3. ASSUME NEW l \in Leads, Reject(l) PROVE LinkedIsOwn'
        BY <2>2, <2>3 DEF Reject, Active, LeadStatus
    <2>4. ASSUME NEW q \in Slots, InviteMark(q), leads[req[q].lead] # None, req[q].lead \in Leads PROVE LinkedIsOwn'
        <3>1. leads' = leads \/ leads' = [leads EXCEPT ![req[q].lead].status = "INVITED"]
            BY <2>4 DEF InviteMark, UpdateLead
        <3> QED BY <1>6, <2>2, <2>4, <3>1 DEF LinkedIsOwn, LeadStatus
    <2>5. ASSUME NEW q \in Slots, InviteLink(q), leads[req[q].lead] # None, req[q].lead \in Leads PROVE LinkedIsOwn'
        <3> DEFINE l == req[q].lead  u == req[q].user  x == [leads[l] EXCEPT !.user = u, !.status = "CONVERTED"]
        <3>1. /\ u \in UserId /\ u[1] = req[q].email /\ leads[l].email = req[q].email
              /\ leads[l] \in LeadRow
            BY <1>0, <2>5, OnboardingAssumption DEF InviteLink, Typed, Carries
        <3>2. x \in LeadRow /\ x.user = u /\ x.email = leads[l].email
            BY <3>1 DEF LeadRow, LeadStatus
        <3>3. leads' = leads \/ (Exists(u) /\ leads' = [leads EXCEPT ![l] = x])
            BY <2>5 DEF InviteLink, UpdateLead
        <3> HIDE DEF x
        <3>4. CASE Exists(u) /\ leads' = [leads EXCEPT ![l] = x]
            BY <1>5, <1>6, <2>5, <3>1, <3>2, <3>4 DEF Exists
        <3> QED BY <1>6, <3>3, <3>4 DEF LinkedIsOwn
    <2> QED BY <1>4, <1>6, <2>1, <2>3, <2>4, <2>5, LeadMoves DEF LinkedIsOwn
<1> QED BY <1>2, <1>3, <1>4, <1>6, UserMoves

(* A lead is linked only to an account that exists now and has its address.  *)
THEOREM LinksAreOwn == Safety => []LinkedIsOwn
<1>1. Init => LinkedIsOwn
    BY DEF Init, LinkedIsOwn
<1>2. Typed /\ LinkedIsOwn /\ [Next]_vars => LinkedIsOwn'
    BY LinkedStep
<1> QED BY <1>1, <1>2, TypedAlways, PTL DEF Safety

-----------------------------------------------------------------------------
(* An invitation keeps its address, role and use, until its row is deleted   *)
(* or another one takes the id of a row that nobody can accept any more.     *)
LEMMA InvitationsKeep ==
    ASSUME Typed, [Next]_vars, NEW i \in Invitations, invitations'[i] # None
    PROVE  \/ /\ invitations[i] # None
              /\ invitations'[i].email = invitations[i].email /\ invitations'[i].role = invitations[i].role
              /\ invitations[i].used => invitations'[i].used
           \/ \E q \in Slots :
                 /\ InvitationInsert(q) /\ FreeId(i)
                 /\ invitations'[i].email = req[q].email /\ invitations'[i].role = req[q].role
                 /\ req'[q].inv = i /\ i \notin mailed' /\ i \notin answered'
                 /\ req'[q].email = req[q].email /\ req'[q].role = req[q].role
<1> DEFINE Kept == /\ invitations[i] # None
                   /\ invitations'[i].email = invitations[i].email /\ invitations'[i].role = invitations[i].role
                   /\ invitations[i].used => invitations'[i].used
<1>0. /\ invitations \in [Invitations -> InvitationRow \union {None}] /\ req \in [Slots -> Request]
    BY DEF Typed, TypeOK
<1>1. CASE UNCHANGED invitations
    BY <1>1
<1>2. ASSUME NEW k \in Invitations, invitations[k] # None, NEW x \in InvitationRow,
             invitations' = [invitations EXCEPT ![k] = x],
             x.email = invitations[k].email, x.role = invitations[k].role, invitations[k].used => x.used
      PROVE  Kept
    BY <1>0, <1>2
<1>3. ASSUME NEW q \in Slots, AcceptUse(q) PROVE Kept
    <2> DEFINE k == req[q].inv  x == [invitations[k] EXCEPT !.used = TRUE]
    <2>1. k \in Invitations
        BY <1>3 DEF AcceptUse, Typed, Carries
    <2>2. CASE invitations[k] = None
        BY <1>1, <1>3, <2>2 DEF AcceptUse
    <2>3. CASE invitations[k] # None
        <3>1. invitations[k] \in InvitationRow
            BY <1>0, <2>1, <2>3
        <3>2. x \in InvitationRow /\ x.email = invitations[k].email /\ x.role = invitations[k].role /\ x.used
            BY <3>1 DEF InvitationRow
        <3>3. invitations' = [invitations EXCEPT ![k] = x]
            BY <1>3, <2>3 DEF AcceptUse
        <3> HIDE DEF x
        <3> QED BY <1>2, <2>1, <2>3, <3>2, <3>3
    <2> QED BY <2>2, <2>3
<1>4. ASSUME NEW k \in Invitations, Expire(k) PROVE Kept
    <2> DEFINE x == [invitations[k] EXCEPT !.expired = TRUE]
    <2>1. invitations[k] # None /\ invitations[k] \in InvitationRow
        BY <1>0, <1>4 DEF Expire
    <2>2. /\ x \in InvitationRow /\ x.email = invitations[k].email /\ x.role = invitations[k].role
          /\ x.used = invitations[k].used
        BY <2>1 DEF InvitationRow
    <2>3. invitations' = [invitations EXCEPT ![k] = x]
        BY <1>4 DEF Expire
    <2> HIDE DEF x
    <2> QED BY <1>2, <2>1, <2>2, <2>3
<1>5. ASSUME NEW a \in Staff, StaffLeaves(a) PROVE Kept
    BY <1>0, <1>5 DEF StaffLeaves
<1>6. ASSUME NEW q \in Slots, InvitationInsert(q)
      PROVE  \/ Kept
             \/ /\ FreeId(i)
                /\ invitations'[i].email = req[q].email /\ invitations'[i].role = req[q].role
                /\ req'[q].inv = i /\ i \notin mailed' /\ i \notin answered'
                /\ req'[q].email = req[q].email /\ req'[q].role = req[q].role
    <2> DEFINE x == [email |-> req[q].email, role |-> req[q].role, by |-> req[q].by, used |-> FALSE, expired |-> FALSE]
    <2>1. PICK k \in Invitations :
            /\ FreeId(k) /\ invitations' = [invitations EXCEPT ![k] = x]
            /\ mailed' = mailed \ {k} /\ answered' = answered \ {k}
            /\ req' = [req EXCEPT ![q] = [req[q] EXCEPT !.pc = "mail", !.inv = k]]
        BY <1>6 DEF InvitationInsert, Goto
    <2>2. CASE k # i
        BY <1>0, <2>1, <2>2
    <2>3. CASE k = i
        <3>1. invitations'[i] = x /\ x.email = req[q].email /\ x.role = req[q].role
            BY <1>0, <2>1, <2>3
        <3>2. req[q] \in Request /\ req'[q] = [req[q] EXCEPT !.pc = "mail", !.inv = k]
            BY <1>0, <2>1
        <3>3. req'[q].inv = i /\ req'[q].email = req[q].email /\ req'[q].role = req[q].role
            BY <2>3, <3>2 DEF Request
        <3> QED BY <2>1, <2>3, <3>1, <3>3
    <2> QED BY <2>2, <2>3
<1>7. ASSUME NEW q \in Slots, InvitationMail(q) \/ MailError(q) PROVE Kept
    BY <1>1, <1>7 DEF InvitationMail, MailError, tables
<1> QED BY <1>1, <1>3, <1>4, <1>5, <1>6, <1>7, InvitationMoves

(* Whoever reads an invitation finds it unused, so that it is none of those  *)
(* whose acceptance was answered.                                            *)
AnsweredInv ==
    /\ \A i \in answered : invitations[i] # None => invitations[i].used
    /\ AnsweredIsFinal

LEMMA AnsweredStep ==
    ASSUME Typed, Typed', AnsweredInv, [Next]_vars
    PROVE  AnsweredInv'
<1>0. /\ req \in [Slots -> Request] /\ answered' \subseteq Invitations /\ answered \subseteq Invitations
      /\ invitations \in [Invitations -> InvitationRow \union {None}]
    BY DEF Typed, TypeOK
<1>1. ASSUME NEW i \in answered', invitations'[i] # None PROVE invitations'[i].used
    <2>1. CASE i \in answered
        BY <1>0, <1>1, <2>1, InvitationsKeep DEF AnsweredInv
    <2>2. CASE i \notin answered
        <3>1. PICK q \in Slots : AcceptUse(q) /\ i = req[q].inv /\ invitations[i] # None
            <4>1. ASSUME NEW q \in Slots, InvitationMail(q) \/ MailError(q) \/ InvitationInsert(q) PROVE FALSE
                BY <2>2, <4>1 DEF InvitationMail, MailError, InvitationInsert
            <4>2. (\E k \in Invitations : Expire(k)) \/ (\E a \in Staff : StaffLeaves(a)) => FALSE
                BY <2>2 DEF Expire, StaffLeaves, history
            <4>3. ASSUME NEW q \in Slots, AcceptUse(q) PROVE i = req[q].inv /\ invitations[i] # None
                BY <2>2, <4>3 DEF AcceptUse
            <4> QED BY <2>2, <4>1, <4>2, <4>3, InvitationMoves
        <3>2. i \in Invitations /\ invitations[i] \in InvitationRow
            BY <1>0, <3>1
        <3>3. invitations' = [invitations EXCEPT ![i] = [invitations[i] EXCEPT !.used = TRUE]]
            BY <3>1 DEF AcceptUse
        <3> QED BY <1>0, <3>2, <3>3 DEF InvitationRow
    <2> QED BY <2>1, <2>2
<1>2. ASSUME NEW s \in Slots, req'[s].pc \in {"upsert", "use"} PROVE ~req'[s].late
    <2>0. req[s] \in Request
        BY <1>0
    <2>1. CASE req'[s] = req[s]
        BY <1>2, <2>1 DEF AnsweredInv, AnsweredIsFinal
    <2>2. CASE req'[s] = Idle
        BY <1>2, <2>2 DEF Idle
    <2>3. CASE req'[s] = [req[s] EXCEPT !.had = FALSE]
        <3>1. req'[s].pc = req[s].pc /\ req'[s].late = req[s].late
            BY <2>0, <2>3 DEF Request
        <3> QED BY <1>2, <3>1 DEF AnsweredInv, AnsweredIsFinal
    <2>4. ASSUME NEW i \in Invitations, AcceptRead(s, i) PROVE ~req'[s].late
        <3> DEFINE e == invitations[i].email  r == invitations[i].role  z == i \in answered
        <3>1. /\ invitations[i] # None /\ ~invitations[i].used
              /\ req'[s] = [Idle EXCEPT !.pc = "upsert", !.inv = i, !.email = e, !.role = r, !.late = z]
            BY <1>0, <2>4 DEF AcceptRead, MayAccept, Goto
        <3>2. ~z
            BY <3>1 DEF AnsweredInv
        <3> HIDE DEF z, e, r
        <3> QED BY <3>1, <3>2 DEF Idle
    <2>5. ASSUME AcceptUpsert(s) PROVE ~req'[s].late
        <3>1. req[s].pc = "upsert" /\ req'[s] = [req[s] EXCEPT !.pc = "use"]
            BY <1>0, <2>5 DEF AcceptUpsert, Goto
        <3>2. req'[s].late = req[s].late
            BY <2>0, <3>1 DEF Request
        <3> QED BY <3>1, <3>2 DEF AnsweredInv, AnsweredIsFinal
    <2> QED BY <1>2, <2>1, <2>2, <2>3, <2>4, <2>5, Motion, Entered
<1> QED BY <1>1, <1>2 DEF AnsweredInv, AnsweredIsFinal

(* An acceptance that begins after another one of the same link was answered *)
(* never writes the account.                                                 *)
THEOREM AcceptanceIsFinal == Safety => []AnsweredIsFinal
<1>1. Init => AnsweredInv
    BY DEF Init, AnsweredInv, AnsweredIsFinal, Idle
<1>2. Typed /\ Typed' /\ AnsweredInv /\ [Next]_vars => AnsweredInv'
    BY AnsweredStep
<1>3. AnsweredInv => AnsweredIsFinal
    BY DEF AnsweredInv
<1> QED BY <1>1, <1>2, <1>3, TypedAlways, PTL DEF Safety

-----------------------------------------------------------------------------
(* A lead is marked only by a request that sent the link to its address.     *)
MarkInv ==
    /\ InvitedWasMailed
    /\ \A q \in Slots : req[q].pc = "mark" => <<req[q].email, "RESIDENT">> \in offered

LEMMA MarkStep ==
    ASSUME Typed, Typed', MarkInv, [Next]_vars
    PROVE  MarkInv'
<1>0. /\ req \in [Slots -> Request] /\ leads \in [Leads -> LeadRow \union {None}] /\ \A q \in Slots : Carries(req[q])
    BY DEF Typed, TypeOK
<1>1. offered \subseteq offered'
    BY InvitationsTyped
<1>2. ASSUME NEW l \in Leads, leads'[l] # None, leads'[l].status = "INVITED"
      PROVE  <<leads'[l].email, "RESIDENT">> \in offered'
    <2>1. CASE leads[l] # None /\ leads[l].status = "INVITED"
        BY <1>1, <2>1, LeadsKeep DEF MarkInv, InvitedWasMailed
    <2>2. CASE ~(leads[l] # None /\ leads[l].status = "INVITED")
        <3>1. ASSUME NEW k \in Leads, NEW s \in Submissions, Stored(k, s) PROVE FALSE
            BY <1>0, <1>2, <2>2, <3>1 DEF Stored
        <3>2. ASSUME NEW k \in Leads, Reject(k) PROVE FALSE
            <4>1. leads' = [leads EXCEPT ![k].status = "REJECTED"] /\ leads[k] # None
                BY <3>2 DEF Reject, Active
            <4>2. leads[k] \in LeadRow
                BY <1>0, <4>1
            <4> QED BY <1>0, <1>2, <2>2, <4>1, <4>2 DEF LeadRow
        <3>3. ASSUME NEW e \in Emails, DeleteUser(e) PROVE FALSE
            <4>1. leads'[l] = leads[l] \/ (leads[l] # None /\ leads'[l] = [leads[l] EXCEPT !.user = None])
                BY <3>3 DEF DeleteUser
            <4>2. leads[l] # None => leads[l] \in LeadRow
                BY <1>0
            <4> QED BY <1>2, <2>2, <4>1, <4>2 DEF LeadRow
        <3>4. ASSUME NEW q \in Slots, InviteLink(q), leads[req[q].lead] # None, req[q].lead \in Leads PROVE FALSE
            <4> DEFINE k == req[q].lead  u == req[q].user  x == [leads[k] EXCEPT !.user = u, !.status = "CONVERTED"]
            <4>1. leads' = leads \/ leads' = [leads EXCEPT ![k] = x]
                BY <3>4 DEF InviteLink, UpdateLead
            <4>2. leads[k] \in LeadRow
                BY <1>0, <3>4
            <4>3. x.status = "CONVERTED"
                BY <4>2 DEF LeadRow
            <4> HIDE DEF x
            <4> QED BY <1>0, <1>2, <2>2, <4>1, <4>3
        <3>5. ASSUME NEW q \in Slots, InviteMark(q), leads[req[q].lead] # None, req[q].lead \in Leads
              PROVE  <<leads'[l].email, "RESIDENT">> \in offered'
            <4> DEFINE k == req[q].lead  x == [leads[k] EXCEPT !.status = "INVITED"]
            <4>1. leads' = leads \/ leads' = [leads EXCEPT ![k] = x]
                BY <3>5 DEF InviteMark, UpdateLead
            <4>2. leads[k] \in LeadRow /\ leads[k].email = req[q].email /\ req[q].pc = "mark"
                BY <1>0, <3>5, OnboardingAssumption DEF Carries, InviteMark
            <4>3. x.email = req[q].email
                BY <4>2 DEF LeadRow
            <4> HIDE DEF x
            <4>4. l = k /\ leads'[l] = x
                BY <1>0, <1>2, <2>2, <4>1
            <4> QED BY <1>1, <4>2, <4>3, <4>4 DEF MarkInv
        <3> QED BY <1>2, <2>2, <3>1, <3>2, <3>3, <3>4, <3>5, LeadMoves
    <2> QED BY <2>1, <2>2
<1>3. ASSUME NEW s \in Slots, req'[s].pc = "mark" PROVE <<req'[s].email, "RESIDENT">> \in offered'
    <2>0. req[s] \in Request
        BY <1>0
    <2>1. CASE req'[s] = req[s]
        BY <1>1, <1>3, <2>1 DEF MarkInv
    <2>2. CASE req'[s] = Idle
        BY <1>3, <2>2 DEF Idle
    <2>3. CASE req'[s] = [req[s] EXCEPT !.had = FALSE]
        <3>1. req'[s].pc = req[s].pc /\ req'[s].email = req[s].email
            BY <2>0, <2>3 DEF Request
        <3> QED BY <1>1, <1>3, <3>1 DEF MarkInv
    <2>4. CASE InvitationMail(s)
        <3>1. /\ req[s].pc = "mail" /\ req[s].lead # None /\ req'[s] = [req[s] EXCEPT !.pc = "mark", !.inv = None]
              /\ <<req[s].email, req[s].role>> \in offered'
            BY <1>0, <1>3, <2>4 DEF InvitationMail, AfterMail, Sent, Goto, Idle
        <3>2. req[s].role = "RESIDENT"
            BY <1>0, <3>1 DEF Carries
        <3>3. req'[s].email = req[s].email
            BY <2>0, <3>1 DEF Request
        <3> QED BY <3>1, <3>2, <3>3
    <2> QED BY <1>3, <2>1, <2>2, <2>3, <2>4, Motion, Entered
<1> QED BY <1>2, <1>3 DEF MarkInv, InvitedWasMailed

(* An INVITED lead was sent a link for its own address as a resident.        *)
THEOREM InvitationsWereMailed == Safety => []InvitedWasMailed
<1>1. Init => MarkInv
    BY DEF Init, MarkInv, InvitedWasMailed, Idle
<1>2. Typed /\ Typed' /\ MarkInv /\ [Next]_vars => MarkInv'
    BY MarkStep
<1>3. MarkInv => InvitedWasMailed
    BY DEF MarkInv
<1> QED BY <1>1, <1>2, <1>3, TypedAlways, PTL DEF Safety

-----------------------------------------------------------------------------
(* What a mail offers is what the invitation says, and what an acceptance    *)
(* writes was offered by a mail.                                             *)
OwedInv ==
    /\ AccountIsOwed
    /\ \A q \in Slots : req[q].pc = "upsert" => <<req[q].email, req[q].role>> \in offered
    /\ \A i \in mailed : invitations[i] # None => <<invitations[i].email, invitations[i].role>> \in offered
    /\ \A q \in Slots : req[q].pc = "mail" /\ invitations[req[q].inv] # None =>
          invitations[req[q].inv].email = req[q].email /\ invitations[req[q].inv].role = req[q].role

LEMMA OwedStep ==
    ASSUME Typed, Typed', OwedInv, [Next]_vars
    PROVE  OwedInv'
<1>0. /\ req \in [Slots -> Request] /\ users \in [Emails -> User \union {None}] /\ \A q \in Slots : Carries(req[q])
      /\ req' \in [Slots -> Request] /\ \A q \in Slots : Carries(req'[q])
      /\ mailed \subseteq Invitations /\ mailed' \subseteq Invitations
    BY RequestsTyped DEF Typed, TypeOK
<1>1. offered \subseteq offered'
    BY InvitationsTyped
<1>2. ASSUME NEW e \in Emails, users'[e] # None
      PROVE  (users'[e].role = "RESIDENT" /\ Lower[e] = e) \/ <<e, users'[e].role>> \in offered'
    <2>1. CASE users' = users
        BY <1>1, <1>2, <2>1 DEF OwedInv, AccountIsOwed
    <2>2. ASSUME NEW q \in Slots, AcceptUpsert(q)
          PROVE  (users'[e].role = "RESIDENT" /\ Lower[e] = e) \/ <<e, users'[e].role>> \in offered'
        BY <1>0, <1>1, <1>2, <2>2 DEF AcceptUpsert, OwedInv, AccountIsOwed
    <2>3. ASSUME NEW x \in Emails, Register(x)
          PROVE  (users'[e].role = "RESIDENT" /\ Lower[e] = e) \/ <<e, users'[e].role>> \in offered'
        <3>1. users' = [users EXCEPT ![Lower[x]] = [id |-> <<Lower[x], deleted>>, role |-> "RESIDENT"]]
            BY <2>3 DEF Register, RegisteredEmail
        <3>2. Lower[x] \in Emails /\ Lower[Lower[x]] = Lower[x]
            BY OnboardingAssumption
        <3>3. CASE e = Lower[x]
            <4>1. users'[e].role = "RESIDENT"
                BY <1>0, <3>1, <3>3
            <4> QED BY <3>2, <3>3, <4>1
        <3>4. CASE e # Lower[x]
            <4>1. users'[e] = users[e]
                BY <1>0, <3>1, <3>4
            <4> QED BY <1>1, <1>2, <4>1 DEF OwedInv, AccountIsOwed
        <3> QED BY <3>3, <3>4
    <2>4. ASSUME NEW x \in Emails, DeleteUser(x)
          PROVE  (users'[e].role = "RESIDENT" /\ Lower[e] = e) \/ <<e, users'[e].role>> \in offered'
        <3>1. users'[e] = users[e]
            BY <1>0, <1>2, <2>4 DEF DeleteUser
        <3> QED BY <1>1, <1>2, <3>1 DEF OwedInv, AccountIsOwed
    <2> QED BY <2>1, <2>2, <2>3, <2>4, UserMoves
<1>3. ASSUME NEW s \in Slots, req'[s].pc = "upsert" PROVE <<req'[s].email, req'[s].role>> \in offered'
    <2>0. req[s] \in Request
        BY <1>0
    <2>1. CASE req'[s] = req[s]
        BY <1>1, <1>3, <2>1 DEF OwedInv
    <2>2. CASE req'[s] = Idle
        BY <1>3, <2>2 DEF Idle
    <2>3. CASE req'[s] = [req[s] EXCEPT !.had = FALSE]
        <3>1. req'[s].pc = req[s].pc /\ req'[s].email = req[s].email /\ req'[s].role = req[s].role
            BY <2>0, <2>3 DEF Request
        <3> QED BY <1>1, <1>3, <3>1 DEF OwedInv
    <2>4. ASSUME NEW i \in Invitations, AcceptRead(s, i) PROVE <<req'[s].email, req'[s].role>> \in offered'
        <3> DEFINE e == invitations[i].email  r == invitations[i].role  z == i \in answered
        <3>1. /\ invitations[i] # None /\ i \in mailed
              /\ req'[s] = [Idle EXCEPT !.pc = "upsert", !.inv = i, !.email = e, !.role = r, !.late = z]
            BY <1>0, <2>4 DEF AcceptRead, MayAccept, Goto
        <3>2. <<e, r>> \in offered
            BY <3>1 DEF OwedInv
        <3> HIDE DEF e, r, z
        <3>3. req'[s].email = e /\ req'[s].role = r
            BY <3>1 DEF Idle
        <3> QED BY <1>1, <3>2, <3>3
    <2> QED BY <1>3, <2>1, <2>2, <2>3, <2>4, Motion, Entered
<1>4. ASSUME NEW i \in mailed', invitations'[i] # None
      PROVE  <<invitations'[i].email, invitations'[i].role>> \in offered'
    <2>1. i \in Invitations
        BY <1>0
    <2>2. /\ invitations[i] # None
          /\ invitations'[i].email = invitations[i].email /\ invitations'[i].role = invitations[i].role
        BY <1>4, <2>1, InvitationsKeep
    <2>3. CASE i \in mailed
        BY <1>1, <2>2, <2>3 DEF OwedInv
    <2>4. CASE i \notin mailed
        <3>1. PICK q \in Slots : (InvitationMail(q) \/ MailError(q)) /\ Sent(q)
            <4>1. ASSUME NEW q \in Slots, InvitationInsert(q) \/ AcceptUse(q) PROVE FALSE
                BY <1>4, <2>4, <4>1 DEF InvitationInsert, AcceptUse
            <4>2. (\E k \in Invitations : Expire(k)) \/ (\E a \in Staff : StaffLeaves(a)) => FALSE
                BY <1>4, <2>4 DEF Expire, StaffLeaves, history
            <4> QED BY <1>4, <2>4, <4>1, <4>2, InvitationMoves
        <3>2. i = req[q].inv /\ req[q].pc = "mail" /\ <<req[q].email, req[q].role>> \in offered'
            BY <1>4, <2>4, <3>1 DEF Sent, InvitationMail, MailError
        <3> QED BY <2>2, <3>2 DEF OwedInv
    <2> QED BY <2>3, <2>4
<1>5. ASSUME NEW s \in Slots, req'[s].pc = "mail", invitations'[req'[s].inv] # None
      PROVE  invitations'[req'[s].inv].email = req'[s].email /\ invitations'[req'[s].inv].role = req'[s].role
    <2> DEFINE i == req'[s].inv
    <2>0. req[s] \in Request /\ i \in Invitations
        BY <1>0, <1>5 DEF Carries
    <2>1. ASSUME req[s].pc = "mail", req[s].inv = i, req'[s].email = req[s].email, req'[s].role = req[s].role
          PROVE  invitations'[i].email = req'[s].email /\ invitations'[i].role = req'[s].role
        <3>1. ~FreeId(i)
            BY <2>1 DEF FreeId
        <3>2. /\ invitations[i] # None
              /\ invitations'[i].email = invitations[i].email /\ invitations'[i].role = invitations[i].role
            BY <1>5, <2>0, <3>1, InvitationsKeep
        <3> QED BY <2>1, <3>2 DEF OwedInv
    <2>2. CASE req'[s] = req[s]
        BY <1>5, <2>1, <2>2
    <2>3. CASE req'[s] = Idle
        BY <1>5, <2>3 DEF Idle
    <2>4. CASE req'[s] = [req[s] EXCEPT !.had = FALSE]
        <3>1. /\ req'[s].pc = req[s].pc /\ req'[s].email = req[s].email /\ req'[s].role = req[s].role
              /\ req'[s].inv = req[s].inv
            BY <2>0, <2>4 DEF Request
        <3> QED BY <1>5, <2>1, <3>1
    <2>5. ASSUME InvitationInsert(s)
          PROVE  invitations'[i].email = req'[s].email /\ invitations'[i].role = req'[s].role
        <3> DEFINE x == [email |-> req[s].email, role |-> req[s].role, by |-> req[s].by, used |-> FALSE, expired |-> FALSE]
        <3>1. PICK k \in Invitations : /\ invitations' = [invitations EXCEPT ![k] = x]
                                       /\ req' = [req EXCEPT ![s] = [req[s] EXCEPT !.pc = "mail", !.inv = k]]
            BY <2>5 DEF InvitationInsert, Goto
        <3>2. req'[s].email = req[s].email /\ req'[s].role = req[s].role /\ i = k
            BY <1>0, <2>0, <3>1 DEF Request
        <3>3. invitations \in [Invitations -> InvitationRow \union {None}]
            BY DEF Typed, TypeOK
        <3> QED BY <3>1, <3>2, <3>3
    <2> QED BY <1>5, <2>2, <2>3, <2>4, <2>5, Motion, Entered
<1> QED BY <1>2, <1>3, <1>4, <1>5 DEF OwedInv, AccountIsOwed

(* Nobody has an account, or a role, that was not owed to that address.      *)
THEOREM AccountsAreOwed == Safety => []AccountIsOwed
<1>1. Init => OwedInv
    BY DEF Init, OwedInv, AccountIsOwed, Idle
<1>2. Typed /\ Typed' /\ OwedInv /\ [Next]_vars => OwedInv'
    BY OwedStep
<1>3. OwedInv => AccountIsOwed
    BY DEF OwedInv
<1> QED BY <1>1, <1>2, <1>3, TypedAlways, PTL DEF Safety

-----------------------------------------------------------------------------
(* One lead counts for each flat, and whoever was answered with a lead is    *)
(* the household it was stored for.                                          *)
UnitsApart ==
    \A l, k \in Leads : Active(l) /\ Active(k) /\ leads[l].sub.unit = leads[k].sub.unit => l = k

Fits(l, s) ==
    /\ leads[l] # None /\ leads[l].sub.unit = s.unit /\ leads[l].sub.person = s.person
    /\ leads[l].email = Lower[s.email]
    /\ s.parking = "null" \/ SameParking(StoredParking(leads[l].sub.parking), s.parking)

HouseInv ==
    /\ UnitsApart /\ RetryIsRecognised
    /\ \A x \in told : Fits(x[1], x[2])

(* The unique index, as each statement on a lead respects it.                *)
LEMMA UnitsStayApart ==
    ASSUME Typed, UnitsApart, [Next]_vars
    PROVE  UnitsApart'
<1>0. leads \in [Leads -> LeadRow \union {None}]
    BY DEF Typed, TypeOK
<1>1. ASSUME NEW l \in Leads, NEW x \in LeadRow, leads' = [leads EXCEPT ![l] = x],
             x.status # "REJECTED" => Holding(x.sub.unit) \ {l} = {}
      PROVE  UnitsApart'
    <2>1. ASSUME NEW k \in Leads, k # l PROVE leads'[k] = leads[k]
        BY <1>0, <1>1, <2>1
    <2>2. leads'[l] = x
        BY <1>0, <1>1
    <2> QED BY <1>1, <2>1, <2>2 DEF UnitsApart, Active, Holding
<1>2. CASE UNCHANGED leads
    BY <1>2 DEF UnitsApart, Active
<1>3. ASSUME NEW l \in Leads, NEW s \in Submissions, Stored(l, s) PROVE UnitsApart'
    <2> DEFINE x == [sub |-> s, email |-> Lower[s.email], status |-> "PENDING", user |-> None]
    <2>1. x \in LeadRow /\ x.sub = s /\ leads' = [leads EXCEPT ![l] = x] /\ Holding(s.unit) = {}
        BY <1>3, OnboardingAssumption DEF Stored, LeadRow, LeadStatus
    <2> HIDE DEF x
    <2> QED BY <1>1, <2>1
<1>4. ASSUME NEW l \in Leads, Reject(l) PROVE UnitsApart'
    <2> DEFINE x == [leads[l] EXCEPT !.status = "REJECTED"]
    <2>1. leads[l] \in LeadRow /\ leads' = [leads EXCEPT ![l] = x]
        BY <1>0, <1>4 DEF Reject, Active
    <2>2. x \in LeadRow /\ x.status = "REJECTED"
        BY <2>1 DEF LeadRow, LeadStatus
    <2> HIDE DEF x
    <2> QED BY <1>1, <2>1, <2>2
<1>5. ASSUME NEW q \in Slots, InviteLink(q) \/ InviteMark(q), leads[req[q].lead] # None /\ req[q].lead \in Leads
      PROVE  UnitsApart'
    <2> DEFINE l == req[q].lead  u == req[q].user
               x == [leads[l] EXCEPT !.user = u, !.status = "CONVERTED"]
               y == [leads[l] EXCEPT !.status = "INVITED"]
    <2>1. leads[l] \in LeadRow /\ u \in UserId \union {None}
        BY <1>0, <1>5 DEF Typed, TypeOK, Request
    <2>2. x \in LeadRow /\ x.sub = leads[l].sub /\ y \in LeadRow /\ y.sub = leads[l].sub
        BY <2>1 DEF LeadRow, LeadStatus
    <2>3. leads' = leads \/ (MayActivate(l) /\ (leads' = [leads EXCEPT ![l] = x] \/ leads' = [leads EXCEPT ![l] = y]))
        BY <1>5 DEF InviteLink, InviteMark, UpdateLead
    <2> HIDE DEF x, y
    <2> QED BY <1>1, <1>2, <1>5, <2>2, <2>3 DEF MayActivate
<1>6. ASSUME NEW e \in Emails, DeleteUser(e) PROVE UnitsApart'
    <2>1. ASSUME NEW l \in Leads, leads'[l] # None
          PROVE  leads[l] # None /\ leads'[l].sub = leads[l].sub /\ leads'[l].status = leads[l].status
        <3>1. leads'[l] = leads[l] \/ (leads[l] # None /\ leads'[l] = [leads[l] EXCEPT !.user = None])
            BY <1>6 DEF DeleteUser
        <3>2. leads[l] # None => leads[l] \in LeadRow
            BY <1>0
        <3> QED BY <2>1, <3>1, <3>2 DEF LeadRow
    <2> QED BY <2>1 DEF UnitsApart, Active
<1> QED BY <1>2, <1>3, <1>4, <1>5, <1>6, LeadMoves

(* Whom each step answers.                                                   *)
LEMMA Answers ==
    ASSUME Typed, [Next]_vars
    PROVE  \/ UNCHANGED <<told, turnedAway>>
           \/ \E l \in Leads, s \in Submissions : Stored(l, s) /\ turnedAway' = turnedAway
           \/ \E q \in Slots, s \in Submissions : AnswerHolder(q, s)
<1>1. ASSUME NEW q \in Slots, SubmitInsert(q)
      PROVE  \E l \in Leads, s \in Submissions : Stored(l, s) /\ turnedAway' = turnedAway
    <2>1. turnedAway' = turnedAway
        BY <1>1 DEF SubmitInsert, AnswerLead
    <2> QED BY <1>1, <2>1, StoreMoves
<1>2. ASSUME NEW q \in Slots, SubmitRefind(q)
      PROVE  \E s \in Submissions : AnswerHolder(q, s)
    BY <1>2 DEF SubmitRefind, Typed, Carries
<1>3. ASSUME NEW q \in Slots, Step(q), ~SubmitInsert(q), ~SubmitRefind(q) PROVE UNCHANGED <<told, turnedAway>>
    BY <1>3 DEF Step, SubmitTaken, InviteUser, InviteLink, InviteMark, UpdateLead, InvitationCheck, CheckPending,
        InvitationInsert, InvitationOrphan, InvitationMail, AcceptUpsert, AcceptUse, history
<1>4. ASSUME NEW q \in Slots, NEW s \in Submissions, SubmitFind(q, s) PROVE AnswerHolder(q, s)
    BY <1>4 DEF SubmitFind
<1>5. ASSUME NEW q \in Slots,
             \/ MailError(q) \/ Fail(q)
             \/ \E s \in Submissions : SubmitFindNone(q, s)
             \/ \E l \in Leads, a \in Staff : InviteStart(q, l, a)
             \/ \E e \in DirectEmails, r \in Roles, a \in Staff : DirectCheck(q, e, r, a)
             \/ \E i \in Invitations : AcceptRead(q, i)
      PROVE  UNCHANGED <<told, turnedAway>>
    BY <1>5 DEF MailError, Fail, SubmitFindNone, InviteStart, DirectCheck, CheckPending, AcceptRead, history
<1>6. (\E l \in Leads : Reject(l)) \/ (\E i \in Invitations : Expire(i))
      \/ (\E e \in Emails : Register(e) \/ DeleteUser(e)) \/ (\E a \in Staff : StaffLeaves(a))
      \/ Crash \/ UNCHANGED vars => UNCHANGED <<told, turnedAway>>
    BY DEF Reject, Expire, Register, DeleteUser, StaffLeaves, Crash, vars, history
<1> QED BY <1>1, <1>2, <1>3, <1>4, <1>5, <1>6 DEF Next, Begin

LEMMA HouseStep ==
    ASSUME Typed, Typed', HouseInv, [Next]_vars
    PROVE  HouseInv'
<1>0. /\ told \subseteq Leads \X Submissions /\ leads \in [Leads -> LeadRow \union {None}]
      /\ \A l \in Leads : leads[l] # None => leads[l].sub \in Submissions
    BY DEF Typed, TypeOK, LeadRow
<1>1. UnitsApart'
    BY UnitsStayApart DEF HouseInv
<1>2. ASSUME NEW l \in Leads, NEW s \in Submissions, Fits(l, s) PROVE Fits(l, s)'
    BY <1>2, LeadsKeep DEF Fits, SameParking, StoredParking
<1>3. ASSUME NEW x \in told PROVE Fits(x[1], x[2])'
    <2>1. x[1] \in Leads /\ x[2] \in Submissions
        BY <1>0
    <2> QED BY <1>2, <2>1 DEF HouseInv
<1>4. CASE UNCHANGED <<told, turnedAway>>
    BY <1>1, <1>3, <1>4 DEF HouseInv, RetryIsRecognised
<1>5. ASSUME NEW l \in Leads, NEW s \in Submissions, Stored(l, s), turnedAway' = turnedAway PROVE HouseInv'
    <2> DEFINE x == [sub |-> s, email |-> Lower[s.email], status |-> "PENDING", user |-> None]
    <2>1. leads'[l] = x /\ told' = told \union {<<l, s>>}
        BY <1>0, <1>5 DEF Stored
    <2>2. x \in LeadRow /\ x.sub = s /\ x.email = Lower[s.email]
        BY OnboardingAssumption DEF LeadRow, LeadStatus
    <2> HIDE DEF x
    <2>3. s.parking = "null" \/ SameParking(StoredParking(s.parking), s.parking)
        BY OnboardingAssumption DEF SameParking, StoredParking, Parking
    <2>4. Fits(l, s)'
        BY <2>1, <2>2, <2>3, RowAssumption DEF Fits, SameParking, StoredParking
    <2> QED BY <1>1, <1>3, <1>5, <2>1, <2>4 DEF HouseInv, RetryIsRecognised
<1>6. ASSUME NEW q \in Slots, NEW s \in Submissions, AnswerHolder(q, s) PROVE HouseInv'
    <2>1. ASSUME NEW l \in Holding(s.unit), IsSameSubmission(l, s), AnswerLead(q, l, s) PROVE HouseInv'
        <3>1. l \in Leads /\ Fits(l, s)
            BY <2>1 DEF Holding, Active, IsSameSubmission, Fits
        <3>2. told' = told \union {<<l, s>>} /\ turnedAway' = turnedAway
            BY <2>1 DEF AnswerLead
        <3> QED BY <1>1, <1>2, <1>3, <3>1, <3>2 DEF HouseInv, RetryIsRecognised
    <2>2. ASSUME \A l \in Holding(s.unit) : ~IsSameSubmission(l, s), Refuse(q, s) PROVE HouseInv'
        <3>1. told' = told /\ turnedAway' = turnedAway \union {t \in {s} : \E l \in Leads : Active(l) /\ <<l, s>> \in told}
            BY <2>2 DEF Refuse
        <3>2. ASSUME NEW l \in Leads, Active(l), <<l, s>> \in told PROVE s.parking = "null"
            <4>1. Fits(l, s)
                BY <3>2 DEF HouseInv
            <4>2. l \in Holding(s.unit)
                BY <3>2, <4>1 DEF Holding, Fits
            <4> QED BY <2>2, <4>1, <4>2 DEF Fits, IsSameSubmission
        <3> QED BY <1>1, <1>3, <3>1, <3>2 DEF HouseInv, RetryIsRecognised
    <2> QED BY <1>6, <2>1, <2>2 DEF AnswerHolder
<1> QED BY <1>4, <1>5, <1>6, Answers

LEMMA HouseAlways == Safety => []HouseInv
<1>1. Init => HouseInv
    BY DEF Init, HouseInv, UnitsApart, Active, RetryIsRecognised
<1>2. Typed /\ Typed' /\ HouseInv /\ [Next]_vars => HouseInv'
    BY HouseStep
<1> QED BY <1>1, <1>2, TypedAlways, PTL DEF Safety

(* Two households that submit one flat are never both answered with a lead   *)
(* while both leads count.                                                   *)
THEOREM FlatsGoToOne == Safety => []OneHouseholdTold
<1>1. Typed /\ HouseInv => OneHouseholdTold
    <2> SUFFICES ASSUME Typed, HouseInv, NEW s \in told, NEW t \in told,
                        Active(s[1]), Active(t[1]), s[2].unit = t[2].unit
                 PROVE  Lower[s[2].email] = Lower[t[2].email] /\ s[2].person = t[2].person
        BY DEF OneHouseholdTold
    <2>1. Fits(s[1], s[2]) /\ Fits(t[1], t[2]) /\ s[1] \in Leads /\ t[1] \in Leads
        BY DEF HouseInv, Typed, TypeOK
    <2>2. s[1] = t[1]
        BY <2>1 DEF HouseInv, UnitsApart, Fits
    <2> QED BY <2>1, <2>2 DEF Fits
<1> QED BY <1>1, HouseAlways, TypedAlways, PTL

(* A household that repeats its submission is answered with its lead again,  *)
(* unless it spells out "parking": null.                                     *)
THEOREM RetriesAreRecognised == Safety => []RetryIsRecognised
<1>1. HouseInv => RetryIsRecognised
    BY DEF HouseInv
<1> QED BY <1>1, HouseAlways, PTL
=============================================================================
