---------------------------- MODULE Onboarding ----------------------------
(***************************************************************************)
(* How people get accounts: households submit leads for their flats, an    *)
(* admin invites a lead or sends an invitation directly, an invitation is  *)
(* accepted, a resident registers.  ResidentsService, InvitationsService   *)
(* and AuthService.acceptInvitation, one action per awaited step.          *)
(***************************************************************************)
EXTENDS Integers, FiniteSets

CONSTANTS
    None,
    Emails,       \* addresses as they are spelled
    Lower,        \* Lower[e]: e in lower case
    Submissions,  \* what households submit: [unit, email, person, parking]
    DirectEmails, \* addresses that admins type when they invite directly
    Roles,        \* of direct invitations
    Staff,        \* admins
    Leads,        \* bound: ids of leads
    Invitations,  \* bound: ids of invitations; one that is dead is used again
    Slots,        \* bound: requests at a time
    MaxUpsets     \* bound: of direct and repeated invitations, deletions, rejections, faults

Parking == {"absent", "null", "spot"}

ASSUME OnboardingAssumption ==
    /\ Lower \in [Emails -> Emails] /\ \A e \in Emails : Lower[Lower[e]] = Lower[e]
    /\ \A s \in Submissions : s.email \in Emails /\ s.parking \in Parking
    /\ DirectEmails \subseteq Emails /\ Roles \subseteq {"RESIDENT", "MERCHANT", "ADMIN"}
    /\ MaxUpsets \in Nat
    /\ None \notin Leads /\ None \notin Invitations /\ None \notin Staff

VARIABLES
    users,        \* users[e]: the account with that e-mail
    staff,        \* admins whose accounts exist
    leads,        \* table resident_leads
    invitations,  \* table invitations
    req,          \* req[q]: the request that slot q works on
    told,         \* history: <<lead, submission>> answered with the lead
    turnedAway,   \* history: submissions refused while their own lead was active
    mailed,       \* history: invitations whose link was sent
    offered,      \* history: <<e-mail, role>> of all links sent
    answered,     \* history: invitations whose acceptance was answered
    deleted,      \* accounts deleted so far
    upsets

tables == <<users, staff, leads, invitations, deleted>>
history == <<told, turnedAway, mailed, offered, answered>>
vars == <<tables, req, history, upsets>>

LeadStatus == {"PENDING", "INVITED", "CONVERTED", "REJECTED"}
AllRoles == {"RESIDENT", "MERCHANT", "ADMIN"}

(* Accounts of one address never share an id: one was deleted in between. *)
UserId == Emails \X (0..MaxUpsets)
User == [id: UserId, role: AllRoles]
LeadRow == [sub: Submissions, email: Emails, status: LeadStatus, user: UserId \union {None}]
InvitationRow == [email: Emails, role: AllRoles, by: Staff, used: BOOLEAN, expired: BOOLEAN]

ASSUME RowAssumption == None \notin User /\ None \notin LeadRow /\ None \notin InvitationRow

(* Where a request waits.  lead is None for a direct invitation; user is the *)
(* account it found; late: its invitation had been accepted and answered     *)
(* before; had: its address had an account since before it began.           *)
Request ==
    [pc: {"idle", "submit", "refind", "user", "link", "check", "insert", "mail", "mark", "upsert", "use"},
     sub: Submissions \union {None}, lead: Leads \union {None}, email: Emails \union {None},
     role: AllRoles \union {None}, by: Staff \union {None}, inv: Invitations \union {None},
     user: UserId \union {None}, late: BOOLEAN, had: BOOLEAN]

Idle ==
    [pc |-> "idle", sub |-> None, lead |-> None, email |-> None, role |-> None, by |-> None,
     inv |-> None, user |-> None, late |-> FALSE, had |-> FALSE]

Init ==
    /\ users = [e \in Emails |-> None] /\ staff = Staff
    /\ leads = [l \in Leads |-> None] /\ invitations = [i \in Invitations |-> None]
    /\ req = [q \in Slots |-> Idle]
    /\ told = {} /\ turnedAway = {} /\ mailed = {} /\ offered = {} /\ answered = {}
    /\ deleted = 0 /\ upsets = 0

Goto(q, r) == req' = [req EXCEPT ![q] = r]
Finish(q) == Goto(q, Idle)

Upset == upsets < MaxUpsets /\ upsets' = upsets + 1

-----------------------------------------------------------------------------
(* Leads of households: POST /residents/leads.                              *)

Active(l) == leads[l] # None /\ leads[l].status # "REJECTED"
Holding(unit) == {l \in Leads : Active(l) /\ leads[l].sub.unit = unit}

(* An absent parking is stored as null; null never equals what was sent. *)
StoredParking(p) == IF p = "absent" THEN "null" ELSE p
SameParking(stored, sent) == (IF stored = "null" THEN "absent" ELSE stored) = sent

(* Fault: whoever holds the flat is taken for the household that asks. *)
IsSameSubmissionAny(l, s) == TRUE

IsSameSubmission(l, s) ==
    /\ leads[l].sub.person = s.person
    /\ leads[l].email = Lower[s.email]
    /\ SameParking(StoredParking(leads[l].sub.parking), s.parking)

AnswerLead(q, l, s) ==
    /\ told' = told \union {<<l, s>>}
    /\ UNCHANGED turnedAway
    /\ Finish(q)

(* unitReserved *)
Refuse(q, s) ==
    /\ turnedAway' = turnedAway \union {t \in {s} : \E l \in Leads : Active(l) /\ <<l, s>> \in told}
    /\ UNCHANGED told
    /\ Finish(q)

AnswerHolder(q, s) ==
    /\ \/ \E l \in Holding(s.unit) : IsSameSubmission(l, s) /\ AnswerLead(q, l, s)
       \/ ~(\E l \in Holding(s.unit) : IsSameSubmission(l, s)) /\ Refuse(q, s)
    /\ UNCHANGED <<tables, mailed, offered, answered, upsets>>

SubmitFindNone(q, s) ==
    /\ req[q] = Idle /\ Holding(s.unit) = {}
    /\ Goto(q, [Idle EXCEPT !.pc = "submit", !.sub = s])
    /\ UNCHANGED <<tables, history, upsets>>

SubmitFind(q, s) ==
    /\ req[q] = Idle /\ Holding(s.unit) # {}
    /\ AnswerHolder(q, s)

(* Fault: the address is stored as it was typed. *)
StoredEmailTyped(e) == e

StoredEmail(e) == Lower[e]

SubmitInsert(q) ==
    /\ req[q].pc = "submit"
    /\ LET s == req[q].sub
       IN /\ Holding(s.unit) = {}
          /\ \E l \in Leads :
                /\ leads[l] = None
                /\ leads' = [leads EXCEPT ![l] =
                        [sub |-> s, email |-> StoredEmail(s.email), status |-> "PENDING", user |-> None]]
                /\ AnswerLead(q, l, s)
    /\ UNCHANGED <<users, staff, invitations, deleted, mailed, offered, answered, upsets>>

(* P2002, by the unique index on the unit of leads that are not rejected. *)
SubmitTaken(q) ==
    /\ req[q].pc = "submit" /\ Holding(req[q].sub.unit) # {}
    /\ Goto(q, [req[q] EXCEPT !.pc = "refind"])
    /\ UNCHANGED <<tables, history, upsets>>

(* Fault: whoever loses the race is refused, a repetition too. *)
SubmitRefindRefuses(q) ==
    /\ req[q].pc = "refind"
    /\ Refuse(q, req[q].sub)
    /\ UNCHANGED <<tables, mailed, offered, answered, upsets>>

SubmitRefind(q) == req[q].pc = "refind" /\ AnswerHolder(q, req[q].sub)

(* External: a lead is rejected in the database; one id stays free. *)
Reject(l) ==
    /\ Active(l) /\ \E k \in Leads : leads[k] = None
    /\ Upset
    /\ leads' = [leads EXCEPT ![l].status = "REJECTED"]
    /\ UNCHANGED <<users, staff, invitations, deleted, req, history>>

-----------------------------------------------------------------------------
(* Invitations: POST /admin/residents/leads/:id/invite and /invitations.    *)

(* An admin may invite any lead; one that is settled, only so many times. *)
InviteStart(q, l, a) ==
    /\ req[q] = Idle /\ leads[l] # None /\ a \in staff
    /\ IF leads[l].status = "PENDING" THEN UNCHANGED upsets ELSE Upset
    /\ Goto(q, [Idle EXCEPT !.pc = "user", !.lead = l, !.email = leads[l].email, !.role = "RESIDENT",
                    !.by = a, !.had = users[leads[l].email] # None])
    /\ UNCHANGED <<tables, history>>

(* Fault: nobody looks for an account. *)
InviteUserIgnored(q) ==
    /\ req[q].pc = "user"
    /\ Goto(q, [req[q] EXCEPT !.pc = "check"])
    /\ UNCHANGED <<tables, history, upsets>>

InviteUser(q) ==
    /\ req[q].pc = "user"
    /\ LET user == users[req[q].email]
       IN Goto(q, IF user # None THEN [req[q] EXCEPT !.pc = "link", !.user = user.id]
                                 ELSE [req[q] EXCEPT !.pc = "check"])
    /\ UNCHANGED <<tables, history, upsets>>

(* The unique index lets a rejected lead become active only if the flat is free. *)
MayActivate(l) == Holding(leads[l].sub.unit) \ {l} = {}

(* Fault: the schema has no foreign key for the account of a lead. *)
ExistsUnchecked(id) == TRUE

Exists(id) == users[id[1]] # None /\ users[id[1]].id = id

(* A lead is updated, or the constraint that forbids it ends the request. *)
UpdateLead(q, mayUpdate, row) ==
    /\ leads' = IF mayUpdate THEN [leads EXCEPT ![req[q].lead] = row] ELSE leads
    /\ Finish(q)
    /\ UNCHANGED <<users, staff, invitations, deleted, history, upsets>>

InviteLink(q) ==
    /\ req[q].pc = "link"
    /\ LET l == req[q].lead
       IN UpdateLead(q, MayActivate(l) /\ Exists(req[q].user),
                     [leads[l] EXCEPT !.user = req[q].user, !.status = "CONVERTED"])

(* Fault: an invitation that has expired still counts as pending. *)
PendingForever(email, role) ==
    {i \in Invitations : invitations[i] # None /\ invitations[i].email = email
        /\ invitations[i].role = role /\ ~invitations[i].used}

Pending(email, role) ==
    {i \in Invitations : invitations[i] # None /\ invitations[i].email = email
        /\ invitations[i].role = role /\ ~invitations[i].used /\ ~invitations[i].expired}

CheckPending(q, r) ==
    /\ Goto(q, IF Pending(r.email, r.role) # {} THEN Idle ELSE [r EXCEPT !.pc = "insert"])
    /\ UNCHANGED <<tables, history>>

InvitationCheck(q) == req[q].pc = "check" /\ CheckPending(q, req[q]) /\ UNCHANGED upsets

DirectCheck(q, e, role, a) ==
    /\ req[q] = Idle /\ a \in staff
    /\ Upset
    /\ CheckPending(q, [Idle EXCEPT !.email = e, !.role = role, !.by = a])

(* Ids of rows that no request works on and that nobody can accept any more. *)
FreeId(i) ==
    /\ \A q \in Slots : req[q].inv # i
    /\ invitations[i] # None => invitations[i].used \/ invitations[i].expired

InvitationInsert(q) ==
    /\ req[q].pc = "insert" /\ req[q].by \in staff
    /\ \E i \in Invitations :
        /\ FreeId(i)
        /\ invitations' = [invitations EXCEPT ![i] =
                [email |-> req[q].email, role |-> req[q].role, by |-> req[q].by, used |-> FALSE, expired |-> FALSE]]
        /\ mailed' = mailed \ {i} /\ answered' = answered \ {i}
        /\ Goto(q, [req[q] EXCEPT !.pc = "mail", !.inv = i])
    /\ UNCHANGED <<users, staff, leads, deleted, told, turnedAway, offered, upsets>>

(* The admin's account is gone: the foreign key refuses the row. *)
InvitationOrphan(q) ==
    /\ req[q].pc = "insert" /\ req[q].by \notin staff
    /\ Finish(q)
    /\ UNCHANGED <<tables, history, upsets>>

Sent(q) ==
    /\ mailed' = mailed \union {req[q].inv}
    /\ offered' = offered \union {<<req[q].email, req[q].role>>}

AfterMail(r) == IF r.lead = None THEN Idle ELSE [r EXCEPT !.pc = "mark", !.inv = None]

InvitationMail(q) ==
    /\ req[q].pc = "mail"
    /\ Sent(q)
    /\ Goto(q, AfterMail(req[q]))
    /\ UNCHANGED <<tables, told, turnedAway, answered, upsets>>

(* Fault: the error of the mail server is swallowed. *)
MailErrorSwallowed(q) ==
    /\ req[q].pc = "mail"
    /\ Upset
    /\ UNCHANGED <<mailed, offered>>
    /\ Goto(q, AfterMail(req[q]))
    /\ UNCHANGED <<tables, told, turnedAway, answered>>

(* The mail server fails, whether the letter is delivered or not. *)
MailError(q) ==
    /\ req[q].pc = "mail"
    /\ Upset
    /\ Sent(q) \/ UNCHANGED <<mailed, offered>>
    /\ Finish(q)
    /\ UNCHANGED <<tables, told, turnedAway, answered>>

InviteMark(q) ==
    /\ req[q].pc = "mark"
    /\ LET l == req[q].lead
       IN UpdateLead(q, MayActivate(l), [leads[l] EXCEPT !.status = "INVITED"])

(* 48 hours pass; of a row that was used, nothing looks at expiresAt. *)
Expire(i) ==
    /\ invitations[i] # None /\ ~invitations[i].used /\ ~invitations[i].expired
    /\ invitations' = [invitations EXCEPT ![i].expired = TRUE]
    /\ UNCHANGED <<users, staff, leads, deleted, req, history, upsets>>

-----------------------------------------------------------------------------
(* Accounts: acceptance of a link that was sent, and registration.          *)

NewId(e) == IF users[e] # None THEN users[e].id ELSE <<e, deleted>>

(* Fault: usedAt is not looked at. *)
MayAcceptUsed(i) == invitations[i] # None /\ ~invitations[i].expired

MayAccept(i) == invitations[i] # None /\ ~invitations[i].used /\ ~invitations[i].expired

AcceptRead(q, i) ==
    /\ req[q] = Idle /\ i \in mailed
    /\ MayAccept(i)
    /\ Goto(q, [Idle EXCEPT !.pc = "upsert", !.inv = i, !.email = invitations[i].email,
                    !.role = invitations[i].role, !.late = i \in answered])
    /\ UNCHANGED <<tables, history, upsets>>

AcceptUpsert(q) ==
    /\ req[q].pc = "upsert"
    /\ users' = [users EXCEPT ![req[q].email] = [id |-> NewId(req[q].email), role |-> req[q].role]]
    /\ Goto(q, [req[q] EXCEPT !.pc = "use"])
    /\ UNCHANGED <<staff, leads, invitations, deleted, history, upsets>>

AcceptUse(q) ==
    /\ req[q].pc = "use"
    /\ LET i == req[q].inv
       IN /\ invitations' = IF invitations[i] # None THEN [invitations EXCEPT ![i].used = TRUE] ELSE invitations
          /\ answered' = IF invitations[i] # None THEN answered \union {i} ELSE answered
    /\ Finish(q)
    /\ UNCHANGED <<users, staff, leads, deleted, told, turnedAway, mailed, offered, upsets>>

(* Fault: the account gets the address as it was typed. *)
RegisteredEmailTyped(e) == e

RegisteredEmail(e) == Lower[e]

(* The unique index on the e-mail decides, whatever register found. *)
Register(e) ==
    /\ users[RegisteredEmail(e)] = None
    /\ users' = [users EXCEPT ![RegisteredEmail(e)] = [id |-> <<RegisteredEmail(e), deleted>>, role |-> "RESIDENT"]]
    /\ UNCHANGED <<staff, leads, invitations, deleted, req, history, upsets>>

-----------------------------------------------------------------------------
(* Deletion of accounts, and faults.                                        *)

DeleteUser(e) ==
    /\ users[e] # None
    /\ Upset
    /\ users' = [users EXCEPT ![e] = None]
    /\ leads' = [l \in Leads |-> IF leads[l] # None /\ leads[l].user = users[e].id
                                 THEN [leads[l] EXCEPT !.user = None] ELSE leads[l]]
    /\ req' = [q \in Slots |-> IF req[q].email = e THEN [req[q] EXCEPT !.had = FALSE] ELSE req[q]]
    /\ deleted' = deleted + 1
    /\ UNCHANGED <<staff, invitations, history>>

(* An admin's invitations are deleted with the account. *)
StaffLeaves(a) ==
    /\ a \in staff
    /\ Upset
    /\ staff' = staff \ {a}
    /\ invitations' = [i \in Invitations |-> IF invitations[i] # None /\ invitations[i].by = a
                                             THEN None ELSE invitations[i]]
    /\ mailed' = {i \in mailed : invitations'[i] # None}
    /\ answered' = {i \in answered : invitations'[i] # None}
    /\ UNCHANGED <<users, leads, deleted, req, told, turnedAway, offered>>

(* A statement fails, or the process restarts and every request ends. *)
Fail(q) ==
    /\ req[q] # Idle
    /\ Upset
    /\ Finish(q)
    /\ UNCHANGED <<tables, history>>

Crash ==
    /\ \E q \in Slots : req[q] # Idle
    /\ Upset
    /\ req' = [q \in Slots |-> Idle]
    /\ UNCHANGED <<tables, history>>

-----------------------------------------------------------------------------
Step(q) ==
    \/ SubmitInsert(q) \/ SubmitTaken(q) \/ SubmitRefind(q)
    \/ InviteUser(q) \/ InviteLink(q)
    \/ InvitationCheck(q) \/ InvitationInsert(q) \/ InvitationOrphan(q) \/ InvitationMail(q) \/ InviteMark(q)
    \/ AcceptUpsert(q) \/ AcceptUse(q)

Begin(q) ==
    \/ \E s \in Submissions : SubmitFindNone(q, s) \/ SubmitFind(q, s)
    \/ \E l \in Leads, a \in Staff : InviteStart(q, l, a)
    \/ \E e \in DirectEmails, r \in Roles, a \in Staff : DirectCheck(q, e, r, a)
    \/ \E i \in Invitations : AcceptRead(q, i)

Next ==
    \/ \E q \in Slots : Step(q) \/ Begin(q) \/ MailError(q) \/ Fail(q)
    \/ \E l \in Leads : Reject(l)
    \/ \E i \in Invitations : Expire(i)
    \/ \E e \in Emails : Register(e) \/ DeleteUser(e)
    \/ \E a \in Staff : StaffLeaves(a)
    \/ Crash

Safety == Init /\ [][Next]_vars

(* An admin invites a lead again for as long as it is listed as PENDING. *)
InvitePending(l) == leads[l] # None /\ leads[l].status = "PENDING" /\ \E q \in Slots, a \in Staff : InviteStart(q, l, a)

(* Requests go on, time passes, and admins do not forget a lead. *)
Spec ==
    /\ Safety
    /\ \A q \in Slots : WF_vars(Step(q))
    /\ \A i \in Invitations : WF_vars(Expire(i))
    /\ \A l \in Leads : SF_vars(InvitePending(l))

-----------------------------------------------------------------------------
(* Types; the address of a lead is in lower case, whatever was typed. *)
TypeOK ==
    /\ users \in [Emails -> User \union {None}] /\ staff \subseteq Staff
    /\ leads \in [Leads -> LeadRow \union {None}]
    /\ invitations \in [Invitations -> InvitationRow \union {None}]
    /\ req \in [Slots -> Request]
    /\ told \subseteq Leads \X Submissions /\ turnedAway \subseteq Submissions
    /\ mailed \subseteq Invitations /\ answered \subseteq Invitations
    /\ offered \subseteq Emails \X AllRoles
    /\ upsets \in 0..MaxUpsets /\ deleted \in 0..upsets
    /\ \A l \in Leads : leads[l] # None => leads[l].email = Lower[leads[l].sub.email]

(* Two households that submit one flat, however their requests interleave,   *)
(* are never both answered with a lead while both leads count: whoever was   *)
(* answered holds the flat until the lead is rejected.                      *)
OneHouseholdTold ==
    \A s, t \in told :
        Active(s[1]) /\ Active(t[1]) /\ s[2].unit = t[2].unit =>
            /\ Lower[s[2].email] = Lower[t[2].email]
            /\ s[2].person = t[2].person

(* A household that repeats its submission is answered with its lead again,  *)
(* also when two repetitions race, unless it spells out "parking": null.    *)
RetryIsRecognised == \A s \in turnedAway : s.parking = "null"

(* An INVITED lead was sent a link for its own address as a resident,        *)
(* whatever failed, raced or was repeated on the way.                       *)
InvitedWasMailed ==
    \A l \in Leads : leads[l] # None /\ leads[l].status = "INVITED" => <<leads[l].email, "RESIDENT">> \in offered

(* A lead is linked only to an account that exists now and has its address,  *)
(* although the account was looked up before and may be deleted meanwhile.  *)
LinkedIsOwn ==
    \A l \in Leads : leads[l] # None /\ leads[l].user # None =>
        /\ leads[l].user[1] = leads[l].email
        /\ users[leads[l].email] # None /\ users[leads[l].email].id = leads[l].user

(* "We never create a second invitation" (ResidentsService.invite): a lead   *)
(* whose address had an account when the call began, and still has, is not   *)
(* invited by that call.                                                    *)
NoSecondInvitation ==
    \A q \in Slots : req[q].pc \in {"check", "insert", "mail", "mark"} /\ req[q].lead # None => ~req[q].had

(* Nobody has an account, or a role, that was not owed to that address: a    *)
(* resident registers in lower case, any other was offered that role by a    *)
(* link sent to exactly that spelling.                                      *)
AccountIsOwed ==
    \A e \in Emails : users[e] # None =>
        \/ users[e].role = "RESIDENT" /\ Lower[e] = e
        \/ <<e, users[e].role>> \in offered

(* An acceptance that begins after another one of the same link was answered *)
(* never gets to write the account.                                         *)
AnsweredIsFinal == \A q \in Slots : req[q].pc \in {"upsert", "use"} => ~req[q].late

(* Every lead is invited, converted or rejected in the end, although a mail  *)
(* that fails leaves an invitation behind which refuses every retry until it *)
(* expires; unless no admin is left.                                        *)
LeadSettles ==
    \A l \in Leads :
        (leads[l] # None /\ leads[l].status = "PENDING")
            ~> (staff = {} \/ (leads[l] # None /\ leads[l].status # "PENDING"))
=============================================================================
