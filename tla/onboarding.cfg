\* Two households and one flat, two requests at a time.
CONSTANTS
    None = None
    Emails <- MCEmails
    Lower <- MCLower
    Submissions <- MCSubmissions
    DirectEmails <- MCEmails
    Roles = {"RESIDENT", "MERCHANT"}
    Staff = {a1}
    Leads = {l1, l2}
    Invitations = {i1, i2}
    Slots = {q1, q2}
    MaxUpsets = 1
SPECIFICATION Spec
CHECK_DEADLOCK FALSE
INVARIANTS
    TypeOK
    OneHouseholdTold
    RetryIsRecognised
    InvitedWasMailed
    LinkedIsOwn
    NoSecondInvitation
    AccountIsOwed
    AnsweredIsFinal
PROPERTIES
    LeadSettles
