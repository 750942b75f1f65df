------------------------------ MODULE Accounts ------------------------------
(***************************************************************************)
(* Accounts and their secrets: codes mailed to new accounts, refresh       *)
(* tokens, and links that reset a password.  AuthService over the users    *)
(* table and the keys otp:, reset: and blacklist: in Redis, one action per *)
(* awaited step; steps that share nothing with others are taken together.  *)
(* Passwords are left out: nothing below tells them apart.                  *)
(***************************************************************************)
EXTENDS Integers, FiniteSets

CONSTANTS
    None, Forever,
    Emails,     \* addresses as they are spelled
    Lower,      \* Lower[e]: e in lower case
    Codes,      \* bound: one-time codes; one that is dead is drawn again
    Links,      \* bound: links that reset a password, likewise
    Times,      \* bound: the seconds at which something happens
    Profiles,   \* bound: [uses, seeded, exp]: endpoints in use, seeded accounts and
                \* AUTH_REFRESH_TOKEN_EXP, as a value and its unit
    Slots,      \* bound: requests at a time
    MaxUpsets   \* bound: deletions, expired keys, impatience and faults

Endpoints == {"register", "verify", "resend", "login", "refresh", "logout", "forgot", "reset"}
Expiry == [value: Nat, unit: {"s", "m", "h", "d", "other"}]

ASSUME AccountsAssumption ==
    /\ Lower \in [Emails -> Emails] /\ \A e \in Emails : Lower[Lower[e]] = Lower[e]
    /\ Times \subseteq Nat /\ 0 \in Times
    /\ MaxUpsets \in Nat
    /\ \A p \in Profiles : p.uses \subseteq Endpoints /\ p.exp \in Expiry
                       /\ p.seeded \subseteq {e \in Emails : Lower[e] = e}
    /\ None \notin Codes /\ None \notin Links /\ None \notin Emails /\ None # Forever
    /\ None \notin Nat /\ Forever \notin Nat

VARIABLES
    uses,      \* endpoints that the clients of a behaviour use; never changes
    exp,       \* the configured expiry of refresh tokens; never changes
    now,       \* seconds
    users,     \* users[e]: the account with that e-mail
    otp,       \* key otp:e, the code by its hash
    reset,     \* key reset:t, the e-mail
    black,     \* key blacklist:t: when it expires
    req,       \* req[q]: the request that slot q works on
    inbox,     \* inbox[e]: the code last mailed to e
    letters,   \* links that were mailed
    issued,    \* history: refresh tokens answered
    revoked,   \* history: tokens in the body of a logout or refresh that was answered
    spent,     \* history: <<e, code>> whose verification was answered
    followed,  \* history: links whose reset was answered
    verified,  \* history: accounts that verified or were seeded
    deleted,   \* accounts deleted so far
    upsets

config == <<uses, exp>>
cache == <<otp, reset, black>>
mailboxes == <<inbox, letters>>
history == <<issued, revoked, spent, followed, verified>>
vars == <<config, now, users, cache, req, mailboxes, history, deleted, upsets>>

(* Accounts of one address never share an id: one was deleted in between. *)
UserId == Emails \X (0..MaxUpsets)
User == [id: UserId, isVerified: BOOLEAN]

(* A JWT is determined by its account and the second it was signed in. *)
Token == [id: UserId, iat: Times]

(* Where a request waits; late: its secret was used up before it began. *)
Request ==
    [pc: {"idle", "create", "forget", "otp", "mail", "discard", "verify", "revoke", "link", "letter",
          "password", "unlink"},
     email: Emails \union {None}, code: Codes \union {None}, link: Links \union {None},
     bearer: Token \union {None}, token: Token \union {None}, iat: Times, late: BOOLEAN]

Idle ==
    [pc |-> "idle", email |-> None, code |-> None, link |-> None, bearer |-> None, token |-> None, iat |-> 0,
     late |-> FALSE]

Init ==
    /\ now = 0
    /\ \E p \in Profiles :
        /\ uses = p.uses /\ exp = p.exp
        /\ users = [e \in Emails |-> IF e \in p.seeded THEN [id |-> <<e, 0>>, isVerified |-> TRUE] ELSE None]
        /\ verified = {<<e, 0>> : e \in p.seeded}
    /\ otp = [e \in Emails |-> None] /\ reset = [t \in Links |-> None]
    /\ black = [t \in Token |-> None]
    /\ req = [q \in Slots |-> Idle]
    /\ inbox = [e \in Emails |-> None] /\ letters = {}
    /\ issued = {} /\ revoked = {} /\ spent = {} /\ followed = {}
    /\ deleted = 0 /\ upsets = 0

Goto(q, r) == req' = [req EXCEPT ![q] = r]
Finish(q) == Goto(q, Idle)
Upset == upsets < MaxUpsets /\ upsets' = upsets + 1

(* A request that begins, for an endpoint in use. *)
Arrive(q, endpoint) == req[q] = Idle /\ endpoint \in uses

-----------------------------------------------------------------------------
(* Codes: register, resend, verify.  Codes are kept under the address as it *)
(* was typed, accounts under the address in lower case.                     *)

RegisterFind(q, e) ==
    /\ Arrive(q, "register")
    /\ users[e] = None
    /\ Goto(q, [Idle EXCEPT !.pc = "create", !.email = e])
    /\ UNCHANGED <<config, now, users, cache, mailboxes, history, deleted, upsets>>

StoredEmail(e) == Lower[e]

(* The unique index on the e-mail refuses a second account. *)
RegisterCreate(q) ==
    /\ req[q].pc = "create"
    /\ LET e == StoredEmail(req[q].email)
       IN IF users[e] = None
          THEN /\ users' = [users EXCEPT ![e] = [id |-> <<e, deleted>>, isVerified |-> FALSE]]
               /\ Goto(q, [req[q] EXCEPT !.pc = "otp"])
          ELSE UNCHANGED users /\ Finish(q)
    /\ UNCHANGED <<config, now, cache, mailboxes, history, deleted, upsets>>

(* Clients ask for another code when none is under way and the one they   *)
(* hold does not work; asking for one earlier counts as an upset.          *)
NeedsCode(e) ==
    /\ \A q \in Slots : req[q].email # e
    /\ inbox[e] = None \/ inbox[e] # otp[e]

(* Fault: no other code is sent while one is stored. *)
ResendFindUnset(q, e) ==
    /\ Arrive(q, "resend") /\ otp[e] = None
    /\ IF users[e] = None THEN FALSE ELSE ~users[e].isVerified
    /\ IF NeedsCode(e) THEN UNCHANGED upsets ELSE Upset
    /\ Goto(q, [Idle EXCEPT !.pc = "forget", !.email = e])
    /\ UNCHANGED <<config, now, users, cache, mailboxes, history, deleted>>

ResendFind(q, e) ==
    /\ Arrive(q, "resend")
    /\ IF users[e] = None THEN FALSE ELSE ~users[e].isVerified
    /\ IF NeedsCode(e) THEN UNCHANGED upsets ELSE Upset
    /\ Goto(q, [Idle EXCEPT !.pc = "forget", !.email = e])
    /\ UNCHANGED <<config, now, users, cache, mailboxes, history, deleted>>

ResendForget(q) ==
    /\ req[q].pc = "forget"
    /\ otp' = [otp EXCEPT ![req[q].email] = None]
    /\ Goto(q, [req[q] EXCEPT !.pc = "otp"])
    /\ UNCHANGED <<config, now, users, reset, black, mailboxes, history, deleted, upsets>>

(* A drawn code is not one that is stored, mailed last or being worked on. *)
Fresh(e, c) ==
    /\ otp[e] # c /\ inbox[e] # c
    /\ \A q \in Slots : req[q].email = e => req[q].code # c

SetCode(q) ==
    /\ req[q].pc = "otp"
    /\ LET e == req[q].email
       IN /\ \E c \in Codes : Fresh(e, c)
          /\ LET c == CHOOSE c \in Codes : Fresh(e, c)
             IN /\ otp' = [otp EXCEPT ![e] = c]
                /\ spent' = spent \ {<<e, c>>}
                /\ Goto(q, [req[q] EXCEPT !.pc = "mail", !.code = c])
    /\ UNCHANGED <<config, now, users, reset, black, mailboxes, issued, revoked, followed, verified, deleted, upsets>>

MailCode(q) ==
    /\ req[q].pc = "mail"
    /\ inbox' = [inbox EXCEPT ![req[q].email] = req[q].code]
    /\ Finish(q)
    /\ UNCHANGED <<config, now, users, cache, letters, history, deleted, upsets>>

(* A wrong code changes nothing. *)
VerifyMatch(q, e, c) ==
    /\ Arrive(q, "verify") /\ otp[e] = c
    /\ Goto(q, [Idle EXCEPT !.pc = "discard", !.email = e, !.code = c, !.late = <<e, c>> \in spent])
    /\ UNCHANGED <<config, now, users, cache, mailboxes, history, deleted, upsets>>

(* Fault: the code is left to expire. *)
VerifyDiscardNothing(q) ==
    /\ req[q].pc = "discard"
    /\ Goto(q, [req[q] EXCEPT !.pc = "verify"])
    /\ UNCHANGED <<config, now, users, cache, mailboxes, history, deleted, upsets>>

VerifyDiscard(q) ==
    /\ req[q].pc = "discard"
    /\ otp' = [otp EXCEPT ![req[q].email] = None]
    /\ Goto(q, [req[q] EXCEPT !.pc = "verify"])
    /\ UNCHANGED <<config, now, users, reset, black, mailboxes, history, deleted, upsets>>

(* The account with the address as it was typed, or an error; and tokens. *)
VerifyUpdate(q) ==
    /\ req[q].pc = "verify"
    /\ LET e == req[q].email
           u == users[e]
       IN IF u = None
          THEN UNCHANGED <<users, issued, verified, spent>>
          ELSE /\ users' = [users EXCEPT ![e].isVerified = TRUE]
               /\ verified' = verified \union {u.id}
               /\ issued' = issued \union {[id |-> u.id, iat |-> now]}
               /\ spent' = spent \union {<<e, req[q].code>>}
    /\ Finish(q)
    /\ UNCHANGED <<config, now, cache, mailboxes, revoked, followed, deleted, upsets>>

-----------------------------------------------------------------------------
(* Sessions: login, refresh, logout.                                        *)

(* The expiry that the encryption helper gives to tokens. *)
TokenExpiry ==
    CASE exp.unit = "s" -> exp.value
      [] exp.unit = "m" -> exp.value * 60
      [] exp.unit = "h" -> exp.value * 3600
      [] exp.unit = "d" -> exp.value * 86400
      [] OTHER -> 900

(* Fault: the unit is not read. *)
BlacklistExpiryBare == exp.value

(* The expiry that AuthService gives to keys of the blacklist. *)
BlacklistExpiry ==
    CASE exp.unit = "s" -> exp.value
      [] exp.unit = "m" -> exp.value * 60
      [] exp.unit = "h" -> exp.value * 3600
      [] exp.unit = "d" -> exp.value * 86400
      [] OTHER -> 7 * 86400

(* CacheService.set: a key without a positive time to live stays. *)
KeyExpiry(ttl) == IF ttl > 0 THEN now + ttl ELSE Forever

Blacklisted(t) == IF black[t] \in Nat THEN now < black[t] ELSE black[t] = Forever
Unexpired(t) == now < t.iat + TokenExpiry

Revoke(t) ==
    /\ black' = [black EXCEPT ![t] = KeyExpiry(BlacklistExpiry)]
    /\ revoked' = revoked \union {t}
    /\ UNCHANGED <<otp, reset>>

MayLogin(e) == IF users[e] = None THEN FALSE ELSE users[e].isVerified

Login(e) ==
    /\ "login" \in uses
    /\ MayLogin(Lower[e])
    /\ issued' = issued \union {[id |-> users[Lower[e]].id, iat |-> now]}
    /\ UNCHANGED <<config, now, users, cache, req, mailboxes, revoked, spent, followed, verified, deleted, upsets>>

(* JwtRefreshGuard verifies the token h of the header, the service looks up  *)
(* the token b of the body; nothing compares the two.  The body may be any  *)
(* string: one that was never issued does what an unrevoked b does.        *)
RefreshCheck(q, h, b) ==
    /\ Arrive(q, "refresh")
    /\ Unexpired(h) /\ ~Blacklisted(b)
    /\ Goto(q, [Idle EXCEPT !.pc = "revoke", !.bearer = h, !.token = b, !.iat = now,
                            !.late = b \in revoked /\ Unexpired(b)])
    /\ UNCHANGED <<config, now, users, cache, mailboxes, history, deleted, upsets>>

RefreshRevoke(q) ==
    /\ req[q].pc = "revoke"
    /\ Revoke(req[q].token)
    /\ issued' = issued \union {[id |-> req[q].bearer.id, iat |-> req[q].iat]}
    /\ Finish(q)
    /\ UNCHANGED <<config, now, users, mailboxes, spent, followed, verified, deleted, upsets>>

Logout(t) ==
    /\ "logout" \in uses
    /\ Revoke(t)
    /\ UNCHANGED <<config, now, users, req, mailboxes, issued, spent, followed, verified, deleted, upsets>>

-----------------------------------------------------------------------------
(* Links: forgot-password, reset-password.                                  *)

ForgotFind(q, e) ==
    /\ Arrive(q, "forgot")
    /\ users[Lower[e]] # None
    /\ Goto(q, [Idle EXCEPT !.pc = "link", !.email = Lower[e]])
    /\ UNCHANGED <<config, now, users, cache, mailboxes, history, deleted, upsets>>

(* A drawn token is not one that is stored or being worked on. *)
Unused(t) == reset[t] = None /\ \A q \in Slots : req[q].link # t

ForgotStore(q) ==
    /\ req[q].pc = "link"
    /\ \E t \in Links :
        /\ Unused(t)
        /\ reset' = [reset EXCEPT ![t] = req[q].email]
        /\ letters' = letters \ {t} /\ followed' = followed \ {t}
        /\ Goto(q, [req[q] EXCEPT !.pc = "letter", !.link = t])
    /\ UNCHANGED <<config, now, users, otp, black, inbox, issued, revoked, spent, verified, deleted, upsets>>

ForgotMail(q) ==
    /\ req[q].pc = "letter"
    /\ letters' = letters \union {req[q].link}
    /\ Finish(q)
    /\ UNCHANGED <<config, now, users, cache, inbox, history, deleted, upsets>>

ResetFind(q, t) ==
    /\ Arrive(q, "reset")
    /\ t \in letters /\ reset[t] # None
    /\ Goto(q, [Idle EXCEPT !.pc = "password", !.email = reset[t], !.link = t, !.late = t \in followed])
    /\ UNCHANGED <<config, now, users, cache, mailboxes, history, deleted, upsets>>

(* Writes the password of the account, which may be gone by now. *)
ResetPassword(q) ==
    /\ req[q].pc = "password"
    /\ IF users[req[q].email] = None THEN Finish(q) ELSE Goto(q, [req[q] EXCEPT !.pc = "unlink"])
    /\ UNCHANGED <<config, now, users, cache, mailboxes, history, deleted, upsets>>

(* Fault: the answer does not wait for the key to go. *)
ResetUnlinkNothing(q) ==
    /\ req[q].pc = "unlink"
    /\ followed' = followed \union {req[q].link}
    /\ Finish(q)
    /\ UNCHANGED <<config, now, users, cache, mailboxes, issued, revoked, spent, verified, deleted, upsets>>

ResetUnlink(q) ==
    /\ req[q].pc = "unlink"
    /\ reset' = [reset EXCEPT ![req[q].link] = None]
    /\ followed' = followed \union {req[q].link}
    /\ Finish(q)
    /\ UNCHANGED <<config, now, users, otp, black, mailboxes, issued, revoked, spent, verified, deleted, upsets>>

-----------------------------------------------------------------------------
(* Deletion, time and faults.                                               *)

DeleteUser(e) ==
    /\ users[e] # None
    /\ Upset
    /\ users' = [users EXCEPT ![e] = None]
    /\ deleted' = deleted + 1
    /\ UNCHANGED <<config, now, cache, req, mailboxes, history>>

(* Ten minutes pass for a code, thirty for a link. *)
CodeExpires(e) ==
    /\ otp[e] # None
    /\ Upset
    /\ otp' = [otp EXCEPT ![e] = None]
    /\ UNCHANGED <<config, now, users, reset, black, req, mailboxes, history, deleted>>

LinkExpires(t) ==
    /\ reset[t] # None
    /\ Upset
    /\ reset' = [reset EXCEPT ![t] = None]
    /\ UNCHANGED <<config, now, users, otp, black, req, mailboxes, history, deleted>>

(* Time matters to tokens only. *)
Tick ==
    /\ issued # {}
    /\ \E t \in Times : t > now /\ now' = t
    /\ UNCHANGED <<config, users, cache, req, mailboxes, history, deleted, upsets>>

(* A mail is delivered although the mail server reports a failure. *)
MailError(q) ==
    /\ Upset
    /\ \/ req[q].pc = "mail" /\ inbox' = [inbox EXCEPT ![req[q].email] = req[q].code] /\ UNCHANGED letters
       \/ req[q].pc = "letter" /\ letters' = letters \union {req[q].link} /\ UNCHANGED inbox
    /\ Finish(q)
    /\ UNCHANGED <<config, now, users, cache, history, deleted>>

(* A statement fails, or the process restarts; Redis and the database stay. *)
Fail(q) ==
    /\ req[q] # Idle
    /\ Upset
    /\ Finish(q)
    /\ UNCHANGED <<config, now, users, cache, mailboxes, history, deleted>>

Crash ==
    /\ \E q \in Slots : req[q] # Idle
    /\ Upset
    /\ req' = [q \in Slots |-> Idle]
    /\ UNCHANGED <<config, now, users, cache, mailboxes, history, deleted>>

-----------------------------------------------------------------------------
Step(q) ==
    \/ RegisterCreate(q) \/ ResendForget(q) \/ SetCode(q) \/ MailCode(q)
    \/ VerifyDiscard(q) \/ VerifyUpdate(q)
    \/ RefreshRevoke(q)
    \/ ForgotStore(q) \/ ForgotMail(q) \/ ResetPassword(q) \/ ResetUnlink(q)

Begin(q) ==
    \/ \E e \in Emails : RegisterFind(q, e) \/ ResendFind(q, e) \/ ForgotFind(q, e)
    \/ \E e \in Emails, c \in Codes : VerifyMatch(q, e, c)
    \/ \E h, b \in issued : RefreshCheck(q, h, b)
    \/ \E t \in Links : ResetFind(q, t)

Next ==
    \/ \E q \in Slots : Step(q) \/ Begin(q) \/ MailError(q) \/ Fail(q)
    \/ \E e \in Emails : Login(e) \/ DeleteUser(e) \/ CodeExpires(e)
    \/ \E t \in issued : Logout(t)
    \/ \E t \in Links : LinkExpires(t)
    \/ Tick
    \/ Crash

Safety == Init /\ [][Next]_vars

(* The owner of an account asks for a code when the last one does not work, *)
(* and enters the last one that came, sooner or later under the spelling in  *)
(* lower case too: resend answers 404 to any other, and a code entered under *)
(* any other is used up for nothing (CodeVerifies).                         *)
AskAgain(e) == NeedsCode(e) /\ \E q \in Slots : ResendFind(q, e)
EnterCode(e) == inbox[e] # None /\ \E q \in Slots : VerifyMatch(q, e, inbox[e])

Spec ==
    /\ Safety
    /\ \A q \in Slots : WF_vars(Step(q))
    /\ \A e \in Emails : SF_vars(AskAgain(e)) /\ SF_vars(EnterCode(e))

-----------------------------------------------------------------------------
(* Types; accounts are stored under addresses in lower case. *)
TypeOK ==
    /\ uses \in SUBSET Endpoints /\ exp \in Expiry /\ now \in Times
    /\ users \in [Emails -> User \union {None}]
    /\ otp \in [Emails -> Codes \union {None}] /\ reset \in [Links -> Emails \union {None}]
    /\ black \in [Token -> Nat \union {None, Forever}]
    /\ req \in [Slots -> Request]
    /\ inbox \in [Emails -> Codes \union {None}] /\ letters \subseteq Links
    /\ issued \subseteq Token /\ revoked \subseteq Token /\ followed \subseteq Links
    /\ spent \subseteq Emails \X Codes /\ verified \subseteq UserId
    /\ upsets \in 0..MaxUpsets /\ deleted \in 0..upsets
    /\ \A e \in Emails : users[e] # None => Lower[e] = e

(* A code works once: after a verification with it was answered, no later   *)
(* request passes with it, however verifications, resends and expiries of   *)
(* the key interleave.                                                      *)
CodeOnce == \A q \in Slots : req[q].pc \in {"discard", "verify"} => ~req[q].late

(* A link resets a password once: after a reset with it was answered, no    *)
(* later request gets to write a password with it.                         *)
LinkOnce == \A q \in Slots : req[q].pc \in {"password", "unlink"} => ~req[q].late

(* While it lives, a token that a logout or refresh was answered for is not  *)
(* accepted in the body of a later refresh, although its key on the          *)
(* blacklist expires, by a clock and a reading of the configured expiry that *)
(* are not those of the token.                                             *)
RevokedIsRefused == \A q \in Slots : req[q].pc = "revoke" => ~req[q].late

(* "Token is now dead even if not expired" (GUIDE.md, logout): a refresh     *)
(* that was asked for with a token whose logout or refresh was answered is   *)
(* refused, whichever token the client names in the body.                  *)
LoggedOutIsDead ==
    [][\A q \in Slots : req[q].pc # "revoke" /\ req'[q].pc = "revoke" => req'[q].bearer \notin revoked]_vars

(* Every refresh token, renewed ones too, belongs to an account that         *)
(* verified its address, also when the account was deleted and its address  *)
(* registered again between two steps.                                     *)
SessionsAreVerified == \A t \in issued : t.id \in verified

(* "Verify email OTP - returns JWT pair on success" (README, controller): a  *)
(* code that matches is not used up without verifying an account, unless    *)
(* one was deleted.                                                        *)
CodeVerifies == \A q \in Slots : req[q].pc = "verify" => users[req[q].email] # None \/ deleted > 0

(* Every account is verified or deleted in the end: mails that fail, codes   *)
(* that expire or are replaced and faults only delay an owner who asks for   *)
(* another code and enters the last one.                                   *)
RegisteredVerifies ==
    \A e \in Emails :
        (users[e] # None /\ "verify" \in uses) ~> (IF users[e] = None THEN TRUE ELSE users[e].isVerified)
=============================================================================
