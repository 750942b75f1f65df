--------------------------- MODULE AccountsProofs ---------------------------
(* Theorems about Accounts, for every value of its constants: any addresses, *)
(* codes, links, instants, requests at a time and configured expiry.         *)
EXTENDS Accounts, TLAPS

(* What a request carries at the steps that use it. *)
Carries(r) ==
    /\ r.pc \in {"create", "forget", "otp", "mail", "discard", "verify", "link", "letter", "password", "unlink"}
          => r.email \in Emails
    /\ r.pc \in {"mail", "discard", "verify"} => r.code \in Codes
    /\ r.pc \in {"letter", "password", "unlink"} => r.link \in Links
    /\ r.pc = "revoke" => r.token \in Token /\ r.bearer \in Token

Typed == TypeOK /\ \A q \in Slots : Carries(req[q])

-----------------------------------------------------------------------------
(* Types                                                                    *)

LEMMA IdleTyped == Idle \in Request /\ Carries(Idle)
BY AccountsAssumption DEF Idle, Request, Carries

LEMMA Initially == Init => Typed
<1> SUFFICES ASSUME Init PROVE Typed
    OBVIOUS
<1>1. PICK p \in Profiles :
        /\ uses = p.uses /\ exp = p.exp
        /\ users = [e \in Emails |-> IF e \in p.seeded THEN [id |-> <<e, 0>>, isVerified |-> TRUE] ELSE None]
        /\ verified = {<<e, 0>> : e \in p.seeded}
    BY DEF Init
<1>2. p.uses \subseteq Endpoints /\ p.exp \in Expiry /\ p.seeded \subseteq {e \in Emails : Lower[e] = e}
    BY AccountsAssumption
<1>3. 0 \in 0..MaxUpsets
    BY AccountsAssumption
<1>4. ASSUME NEW e \in Emails PROVE <<e, 0>> \in UserId /\ [id |-> <<e, 0>>, isVerified |-> TRUE] \in User
    BY <1>3 DEF UserId, User
<1>5. users \in [Emails -> User \union {None}] /\ \A e \in Emails : users[e] # None => Lower[e] = e
    BY <1>1, <1>2, <1>4
<1>6. verified \subseteq UserId
    BY <1>1, <1>2, <1>4
<1>7. req \in [Slots -> Request] /\ \A q \in Slots : Carries(req[q])
    BY IdleTyped DEF Init
<1>8. upsets \in 0..MaxUpsets /\ deleted \in 0..upsets /\ now \in Times
    BY AccountsAssumption DEF Init
<1>9. otp \in [Emails -> Codes \union {None}] /\ reset \in [Links -> Emails \union {None}]
      /\ black \in [Token -> Nat \union {None, Forever}] /\ inbox \in [Emails -> Codes \union {None}]
    BY DEF Init
<1> QED BY <1>1, <1>2, <1>5, <1>6, <1>7, <1>8, <1>9 DEF Init, Typed, TypeOK

(* A request that has to go on is not the idle one. *)
LEMMA RequestParts ==
    ASSUME Typed, NEW q \in Slots
    PROVE  req[q] \in Request /\ Carries(req[q])
BY DEF Typed, TypeOK

(* A code that is stored is a fresh one. *)
LEMMA CodeIsSet ==
    ASSUME Typed, NEW q \in Slots, SetCode(q)
    PROVE  \E c \in Codes :
              /\ Fresh(req[q].email, c)
              /\ req[q].email \in Emails
              /\ otp' = [otp EXCEPT ![req[q].email] = c]
              /\ spent' = spent \ {<<req[q].email, c>>}
              /\ req' = [req EXCEPT ![q] = [req[q] EXCEPT !.pc = "mail", !.code = c]]
<1> DEFINE e == req[q].email  c == CHOOSE x \in Codes : Fresh(e, x)
<1>1. e \in Emails
    BY RequestParts DEF SetCode, Carries
<1>2. c \in Codes /\ Fresh(e, c)
    BY DEF SetCode
<1>3. /\ otp' = [otp EXCEPT ![e] = c]
      /\ spent' = spent \ {<<e, c>>}
      /\ req' = [req EXCEPT ![q] = [req[q] EXCEPT !.pc = "mail", !.code = c]]
    BY DEF SetCode, Goto
<1> HIDE DEF c
<1> QED BY <1>1, <1>2, <1>3

(* Every request of a slot moves to one that carries what it needs. *)
LEMMA BeginMoves ==
    ASSUME Typed, NEW q \in Slots, Begin(q)
    PROVE  \E r \in Request : Carries(r) /\ req' = [req EXCEPT ![q] = r]
<1> USE IdleTyped DEF Idle, Request, Carries, Goto
<1>1. ASSUME NEW e \in Emails, RegisterFind(q, e) \/ ResendFind(q, e)
      PROVE  \E r \in Request : Carries(r) /\ req' = [req EXCEPT ![q] = r]
    <2>1. ASSUME NEW p \in {"create", "forget"}
          PROVE  [Idle EXCEPT !.pc = p, !.email = e] \in Request /\ Carries([Idle EXCEPT !.pc = p, !.email = e])
        OBVIOUS
    <2> HIDE DEF Idle, Request, Carries
    <2> QED BY <1>1, <2>1 DEF RegisterFind, ResendFind
<1>2. ASSUME NEW e \in Emails, ForgotFind(q, e)
      PROVE  \E r \in Request : Carries(r) /\ req' = [req EXCEPT ![q] = r]
    <2> DEFINE r == [Idle EXCEPT !.pc = "link", !.email = Lower[e]]
    <2>1. r \in Request /\ Carries(r)
        BY AccountsAssumption
    <2> HIDE DEF Idle, Request, Carries
    <2> QED BY <1>2, <2>1 DEF ForgotFind
<1>3. ASSUME NEW e \in Emails, NEW c \in Codes, VerifyMatch(q, e, c)
      PROVE  \E r \in Request : Carries(r) /\ req' = [req EXCEPT ![q] = r]
    <2> DEFINE r == [Idle EXCEPT !.pc = "discard", !.email = e, !.code = c, !.late = <<e, c>> \in spent]
    <2>0. (<<e, c>> \in spent) \in BOOLEAN
        OBVIOUS
    <2>1. r \in Request /\ Carries(r)
        BY <2>0
    <2> HIDE DEF Idle, Request, Carries
    <2> QED BY <1>3, <2>1 DEF VerifyMatch
<1>4. ASSUME NEW h \in issued, NEW b \in issued, RefreshCheck(q, h, b)
      PROVE  \E r \in Request : Carries(r) /\ req' = [req EXCEPT ![q] = r]
    <2> DEFINE late == b \in revoked /\ Unexpired(b)
               r == [Idle EXCEPT !.pc = "revoke", !.bearer = h, !.token = b, !.iat = now, !.late = late]
    <2>0. late \in BOOLEAN
        OBVIOUS
    <2>1. h \in Token /\ b \in Token /\ now \in Times
        BY DEF Typed, TypeOK
    <2>3. RefreshCheck(q, h, b) => req' = [req EXCEPT ![q] = r]
        BY DEF RefreshCheck
    <2> HIDE DEF late
    <2>2. r \in Request /\ Carries(r)
        BY <2>0, <2>1
    <2> HIDE DEF Idle, Request, Carries
    <2> QED BY <1>4, <2>2, <2>3
<1>5. ASSUME NEW t \in Links, ResetFind(q, t)
      PROVE  \E r \in Request : Carries(r) /\ req' = [req EXCEPT ![q] = r]
    <2> DEFINE r == [Idle EXCEPT !.pc = "password", !.email = reset[t], !.link = t, !.late = t \in followed]
    <2>0. (t \in followed) \in BOOLEAN
        OBVIOUS
    <2>1. reset[t] \in Emails
        BY <1>5 DEF ResetFind, Typed, TypeOK
    <2>2. r \in Request /\ Carries(r)
        BY <2>0, <2>1
    <2> HIDE DEF Idle, Request, Carries
    <2> QED BY <1>5, <2>2 DEF ResetFind
<1> HIDE DEF Idle, Request, Carries, Goto
<1> QED BY <1>1, <1>2, <1>3, <1>4, <1>5 DEF Begin

LEMMA StepMoves ==
    ASSUME Typed, NEW q \in Slots, Step(q) \/ MailError(q) \/ Fail(q)
    PROVE  \E r \in Request : Carries(r) /\ req' = [req EXCEPT ![q] = r]
<1>1. req[q] \in Request /\ Carries(req[q])
    BY RequestParts
<1>2. CASE req' = [req EXCEPT ![q] = Idle]
    BY <1>2, IdleTyped
<1>3. CASE RegisterCreate(q) \/ ResendForget(q) \/ VerifyDiscard(q) \/ ResetPassword(q)
    <2>1. ASSUME NEW p \in {"otp", "verify", "unlink"}, req[q].pc \in {"create", "forget", "discard", "password"},
                 p = "verify" => req[q].pc = "discard", p = "unlink" => req[q].pc = "password"
          PROVE  [req[q] EXCEPT !.pc = p] \in Request /\ Carries([req[q] EXCEPT !.pc = p])
        BY <1>1, <2>1 DEF Request, Carries
    <2>2. req' = [req EXCEPT ![q] = Idle] \/ \E p \in {"otp", "verify", "unlink"} :
            /\ req' = [req EXCEPT ![q] = [req[q] EXCEPT !.pc = p]]
            /\ req[q].pc \in {"create", "forget", "discard", "password"}
            /\ p = "verify" => req[q].pc = "discard"
            /\ p = "unlink" => req[q].pc = "password"
        BY <1>3 DEF RegisterCreate, ResendForget, VerifyDiscard, ResetPassword, Goto, Finish
    <2> QED BY <1>2, <2>1, <2>2
<1>4. CASE SetCode(q)
    <2>1. PICK c \in Codes : req' = [req EXCEPT ![q] = [req[q] EXCEPT !.pc = "mail", !.code = c]]
        BY <1>4, CodeIsSet
    <2>2. [req[q] EXCEPT !.pc = "mail", !.code = c] \in Request /\ Carries([req[q] EXCEPT !.pc = "mail", !.code = c])
        BY <1>1, <1>4 DEF Request, Carries, SetCode
    <2> QED BY <2>1, <2>2
<1>5. CASE ForgotStore(q)
    <2>1. PICK t \in Links : req' = [req EXCEPT ![q] = [req[q] EXCEPT !.pc = "letter", !.link = t]]
        BY <1>5 DEF ForgotStore, Goto
    <2>2. /\ [req[q] EXCEPT !.pc = "letter", !.link = t] \in Request
          /\ Carries([req[q] EXCEPT !.pc = "letter", !.link = t])
        BY <1>1, <1>5 DEF Request, Carries, ForgotStore
    <2> QED BY <2>1, <2>2
<1> QED BY <1>2, <1>3, <1>4, <1>5 DEF Step, MailError, Fail, MailCode, VerifyUpdate, RefreshRevoke, ForgotMail,
        ResetUnlink, Finish, Goto

LEMMA RequestsTyped ==
    ASSUME Typed, [Next]_vars
    PROVE  req' \in [Slots -> Request] /\ \A q \in Slots : Carries(req'[q])
<1>1. req \in [Slots -> Request] /\ \A q \in Slots : Carries(req[q])
    BY DEF Typed, TypeOK
<1>2. ASSUME NEW q \in Slots, \E r \in Request : Carries(r) /\ req' = [req EXCEPT ![q] = r]
      PROVE  req' \in [Slots -> Request] /\ \A s \in Slots : Carries(req'[s])
    BY <1>1, <1>2
<1>3. CASE Crash
    BY <1>3, IdleTyped DEF Crash
<1>4. CASE req' = req
    BY <1>1, <1>4
<1>5. ASSUME NEW e \in Emails, Login(e) \/ DeleteUser(e) \/ CodeExpires(e) PROVE req' = req
    BY <1>5 DEF Login, DeleteUser, CodeExpires
<1>6. (\E t \in issued : Logout(t)) \/ (\E t \in Links : LinkExpires(t)) \/ Tick => req' = req
    BY DEF Logout, LinkExpires, Tick
<1> QED BY <1>2, <1>3, <1>4, <1>5, <1>6, BeginMoves, StepMoves DEF Next, vars

(* Types of what each action writes besides its request.                    *)
LEMMA UsersTyped ==
    ASSUME Typed, [Next]_vars
    PROVE  /\ users' \in [Emails -> User \union {None}]
           /\ \A e \in Emails : users'[e] # None => Lower[e] = e
           /\ verified' \subseteq UserId
<1>1. /\ users \in [Emails -> User \union {None}] /\ \A e \in Emails : users[e] # None => Lower[e] = e
      /\ verified \subseteq UserId
    BY DEF Typed, TypeOK
<1>2. ASSUME NEW q \in Slots, RegisterCreate(q), users' # users
      PROVE  \E e \in Emails, u \in User : Lower[e] = e /\ users' = [users EXCEPT ![e] = u] /\ verified' = verified
    <2> DEFINE e == Lower[req[q].email]
    <2>1. req[q].email \in Emails
        BY <1>2, RequestParts DEF RegisterCreate, Carries
    <2>2. e \in Emails /\ Lower[e] = e
        BY <2>1, AccountsAssumption
    <2>3. deleted \in 0..MaxUpsets
        BY AccountsAssumption DEF Typed, TypeOK
    <2>4. [id |-> <<e, deleted>>, isVerified |-> FALSE] \in User
        BY <2>2, <2>3 DEF User, UserId
    <2>5. users' = [users EXCEPT ![e] = [id |-> <<e, deleted>>, isVerified |-> FALSE]] /\ verified' = verified
        BY <1>2 DEF RegisterCreate, StoredEmail, history
    <2> QED BY <2>2, <2>4, <2>5
<1>3. ASSUME NEW q \in Slots, VerifyUpdate(q), users' # users \/ verified' # verified
      PROVE  \E e \in Emails, u \in User : /\ Lower[e] = e /\ users' = [users EXCEPT ![e] = u]
                                           /\ verified' \subseteq UserId
    <2> DEFINE e == req[q].email  u == [users[e] EXCEPT !.isVerified = TRUE]
    <2>1. e \in Emails
        BY <1>3, RequestParts DEF VerifyUpdate, Carries
    <2>2. /\ users[e] # None /\ users' = [users EXCEPT ![e].isVerified = TRUE]
          /\ verified' = verified \union {users[e].id}
        BY <1>3 DEF VerifyUpdate
    <2>3. users[e] \in User /\ Lower[e] = e
        BY <1>1, <2>1, <2>2
    <2>4. u \in User /\ users[e].id \in UserId
        BY <2>3 DEF User
    <2>5. users' = [users EXCEPT ![e] = u]
        BY <2>2
    <2> HIDE DEF u
    <2> QED BY <1>1, <2>1, <2>2, <2>3, <2>4, <2>5
<1>4. ASSUME NEW e \in Emails, DeleteUser(e)
      PROVE  users' = [users EXCEPT ![e] = None] /\ verified' = verified
    BY <1>4 DEF DeleteUser, history
<1>5. \/ UNCHANGED <<users, verified>>
      \/ \E e \in Emails, u \in User : /\ Lower[e] = e /\ users' = [users EXCEPT ![e] = u]
                                      /\ verified' \subseteq UserId
      \/ \E e \in Emails : users' = [users EXCEPT ![e] = None] /\ verified' = verified
    <2>1. ASSUME NEW q \in Slots, Step(q) \/ Begin(q) \/ MailError(q) \/ Fail(q)
          PROVE  \/ UNCHANGED <<users, verified>>
                 \/ RegisterCreate(q) /\ users' # users /\ verified' = verified
                 \/ VerifyUpdate(q) /\ (users' # users \/ verified' # verified)
        BY <2>1 DEF Step, Begin, MailError, Fail, RegisterCreate, ResendForget, SetCode, MailCode, VerifyDiscard,
            VerifyUpdate, RefreshRevoke, ForgotStore, ForgotMail, ResetPassword, ResetUnlink, RegisterFind,
            ResendFind, ForgotFind, VerifyMatch, RefreshCheck, ResetFind, history
    <2>2. (\E e \in Emails : Login(e) \/ CodeExpires(e)) \/ (\E t \in issued : Logout(t))
          \/ (\E t \in Links : LinkExpires(t)) \/ Tick \/ Crash \/ UNCHANGED vars
              => UNCHANGED <<users, verified>>
        BY DEF Login, CodeExpires, Logout, LinkExpires, Tick, Crash, vars, history
    <2> QED BY <1>1, <1>2, <1>3, <1>4, <2>1, <2>2 DEF Next
<1> QED BY <1>1, <1>5

LEMMA KeysTyped ==
    ASSUME Typed, [Next]_vars
    PROVE  /\ otp' \in [Emails -> Codes \union {None}] /\ reset' \in [Links -> Emails \union {None}]
           /\ black' \in [Token -> Nat \union {None, Forever}]
           /\ inbox' \in [Emails -> Codes \union {None}] /\ letters' \subseteq Links
           /\ followed' \subseteq Links /\ spent' \subseteq Emails \X Codes
           /\ issued' \subseteq Token /\ revoked' \subseteq Token
<1> DEFINE Right == /\ otp' \in [Emails -> Codes \union {None}] /\ reset' \in [Links -> Emails \union {None}]
                    /\ black' \in [Token -> Nat \union {None, Forever}]
                    /\ inbox' \in [Emails -> Codes \union {None}] /\ letters' \subseteq Links
                    /\ followed' \subseteq Links /\ spent' \subseteq Emails \X Codes
                    /\ issued' \subseteq Token /\ revoked' \subseteq Token
<1>0. /\ otp \in [Emails -> Codes \union {None}] /\ reset \in [Links -> Emails \union {None}]
      /\ black \in [Token -> Nat \union {None, Forever}]
      /\ inbox \in [Emails -> Codes \union {None}] /\ letters \subseteq Links
      /\ followed \subseteq Links /\ spent \subseteq Emails \X Codes
      /\ issued \subseteq Token /\ revoked \subseteq Token /\ now \in Times
      /\ users \in [Emails -> User \union {None}]
    BY DEF Typed, TypeOK
<1>1. ASSUME NEW u \in User, NEW i \in Times PROVE [id |-> u.id, iat |-> i] \in Token
    BY DEF User, Token
<1>2. KeyExpiry(BlacklistExpiry) \in Nat \union {Forever}
    BY AccountsAssumption, <1>0 DEF KeyExpiry, BlacklistExpiry, Typed, TypeOK, Expiry
<1>3. ASSUME NEW t \in Token, Revoke(t)
      PROVE  black' \in [Token -> Nat \union {None, Forever}] /\ revoked' \subseteq Token
    BY <1>0, <1>2, <1>3 DEF Revoke
<1> HIDE DEF Right
<1>4. ASSUME NEW q \in Slots, Step(q) \/ MailError(q) PROVE Right
    <2>1. req[q] \in Request /\ Carries(req[q])
        BY RequestParts
    <2>2. CASE SetCode(q)
        <3>1. PICK c \in Codes : /\ otp' = [otp EXCEPT ![req[q].email] = c]
                                 /\ spent' = spent \ {<<req[q].email, c>>}
            BY <2>2, CodeIsSet
        <3>2. UNCHANGED <<reset, black, mailboxes, issued, revoked, followed>>
            BY <2>2 DEF SetCode
        <3>3. req[q].email \in Emails
            BY <2>1, <2>2 DEF SetCode, Carries
        <3> QED BY <1>0, <3>1, <3>2, <3>3 DEF Right, mailboxes
    <2>3. CASE MailCode(q) \/ MailError(q)
        BY <1>0, <2>1, <2>3 DEF MailCode, MailError, Carries, Right, cache, history
    <2>4. CASE VerifyUpdate(q)
        <3>1. req[q].email \in Emails /\ req[q].code \in Codes
            BY <2>1, <2>4 DEF VerifyUpdate, Carries
        <3>2. users[req[q].email] # None => [id |-> users[req[q].email].id, iat |-> now] \in Token
            BY <1>0, <1>1, <3>1
        <3> QED BY <1>0, <2>4, <3>1, <3>2 DEF VerifyUpdate, Right, cache, mailboxes
    <2>5. CASE RefreshRevoke(q)
        <3>1. req[q].token \in Token /\ [id |-> req[q].bearer.id, iat |-> req[q].iat] \in Token
            BY <2>1, <2>5 DEF RefreshRevoke, Carries, Token, Request
        <3>2. black' \in [Token -> Nat \union {None, Forever}] /\ revoked' \subseteq Token /\ UNCHANGED <<otp, reset>>
            BY <1>3, <2>5, <3>1 DEF RefreshRevoke, Revoke
        <3> QED BY <1>0, <2>5, <3>1, <3>2 DEF RefreshRevoke, Right, mailboxes
    <2>6. CASE RegisterCreate(q) \/ ResendForget(q) \/ VerifyDiscard(q) \/ ResetPassword(q)
        BY <1>0, <2>6 DEF RegisterCreate, ResendForget, VerifyDiscard, ResetPassword, Right, cache, mailboxes, history
    <2>7. CASE ForgotStore(q) \/ ForgotMail(q) \/ ResetUnlink(q)
        BY <1>0, <2>1, <2>7 DEF ForgotStore, ForgotMail, ResetUnlink, Carries, Right, cache, mailboxes, history
    <2> QED BY <1>4, <2>2, <2>3, <2>4, <2>5, <2>6, <2>7 DEF Step
<1>5. ASSUME NEW e \in Emails, Login(e) PROVE Right
    <2>1. Lower[e] \in Emails /\ users[Lower[e]] # None
        BY <1>5, AccountsAssumption DEF Login, MayLogin
    <2>2. [id |-> users[Lower[e]].id, iat |-> now] \in Token
        BY <1>0, <1>1, <2>1
    <2> QED BY <1>0, <1>5, <2>2 DEF Login, Right, cache, mailboxes
<1>6. ASSUME NEW t \in issued, Logout(t) PROVE Right
    BY <1>0, <1>3, <1>6 DEF Logout, Revoke, Right, mailboxes
<1>7. ASSUME NEW e \in Emails, CodeExpires(e) PROVE Right
    BY <1>0, <1>7 DEF CodeExpires, Right, mailboxes, history
<1>8. ASSUME NEW t \in Links, LinkExpires(t) PROVE Right
    BY <1>0, <1>8 DEF LinkExpires, Right, mailboxes, history
<1>9. ASSUME NEW q \in Slots, Begin(q) \/ Fail(q) PROVE UNCHANGED <<cache, mailboxes, history>>
    BY <1>9 DEF Begin, Fail, RegisterFind, ResendFind, ForgotFind, VerifyMatch, RefreshCheck, ResetFind
<1>10. (\E e \in Emails : DeleteUser(e)) \/ Tick \/ Crash \/ UNCHANGED vars
           => UNCHANGED <<cache, mailboxes, history>>
    BY DEF DeleteUser, Tick, Crash, vars
<1>11. UNCHANGED <<cache, mailboxes, history>> => Right
    BY <1>0 DEF cache, mailboxes, history, Right
<1> QED BY <1>4, <1>5, <1>6, <1>7, <1>8, <1>9, <1>10, <1>11 DEF Next, Right

(* What is configured stays, time goes on, and upsets and deletions count. *)
LEMMA Clocks ==
    ASSUME [Next]_vars
    PROVE  /\ UNCHANGED config
           /\ now' = now \/ (now' \in Times /\ now' > now)
           /\ UNCHANGED <<upsets, deleted>> \/ (Upset /\ (deleted' = deleted \/ deleted' = deleted + 1))
<1> DEFINE Right == /\ UNCHANGED config
                    /\ now' = now \/ (now' \in Times /\ now' > now)
                    /\ UNCHANGED <<upsets, deleted>> \/ (Upset /\ (deleted' = deleted \/ deleted' = deleted + 1))
<1>1. ASSUME NEW q \in Slots, Step(q) PROVE Right
    <2>1. CASE RegisterCreate(q) \/ ResendForget(q) \/ SetCode(q) \/ MailCode(q)
        BY <2>1 DEF RegisterCreate, ResendForget, SetCode, MailCode
    <2>2. CASE VerifyDiscard(q) \/ VerifyUpdate(q) \/ RefreshRevoke(q)
        BY <2>2 DEF VerifyDiscard, VerifyUpdate, RefreshRevoke
    <2>3. CASE ForgotStore(q) \/ ForgotMail(q) \/ ResetPassword(q) \/ ResetUnlink(q)
        BY <2>3 DEF ForgotStore, ForgotMail, ResetPassword, ResetUnlink
    <2> QED BY <1>1, <2>1, <2>2, <2>3 DEF Step
<1>2. ASSUME NEW q \in Slots, Begin(q) PROVE Right
    BY <1>2 DEF Begin, RegisterFind, ResendFind, ForgotFind, VerifyMatch, RefreshCheck, ResetFind
<1>3. ASSUME NEW q \in Slots, MailError(q) \/ Fail(q) PROVE Right
    BY <1>3 DEF MailError, Fail
<1>4. (\E e \in Emails : Login(e) \/ CodeExpires(e)) \/ (\E t \in issued : Logout(t))
      \/ (\E t \in Links : LinkExpires(t)) => Right
    BY DEF Login, CodeExpires, Logout, LinkExpires
<1>5. (\E e \in Emails : DeleteUser(e)) \/ Tick \/ Crash \/ UNCHANGED vars => Right
    BY DEF DeleteUser, Tick, Crash, vars, config
<1>6. Right
    <2> HIDE DEF Right
    <2> QED BY <1>1, <1>2, <1>3, <1>4, <1>5 DEF Next
<1> QED BY <1>6

LEMMA StepTyped ==
    ASSUME Typed, [Next]_vars
    PROVE  Typed'
<1>1. uses' \in SUBSET Endpoints /\ exp' \in Expiry
    BY Clocks DEF config, Typed, TypeOK
<1>2. now' \in Times
    BY Clocks DEF Typed, TypeOK
<1>3. upsets' \in 0..MaxUpsets /\ deleted' \in 0..upsets'
    <2>1. upsets \in 0..MaxUpsets /\ deleted \in 0..upsets
        BY DEF Typed, TypeOK
    <2> QED BY <2>1, Clocks, AccountsAssumption DEF Upset
<1> QED BY <1>1, <1>2, <1>3, RequestsTyped, UsersTyped, KeysTyped DEF Typed, TypeOK

(* Accounts, keys, requests and mailboxes always have their types, and an    *)
(* account is stored under its address in lower case.                        *)
THEOREM AccountsTyped == Safety => []TypeOK
<1>1. Typed /\ [Next]_vars => Typed'
    BY StepTyped
<1>2. Typed => TypeOK
    BY DEF Typed
<1> QED BY <1>1, <1>2, Initially, PTL DEF Safety

-----------------------------------------------------------------------------
(* How requests move: those that hold a secret got it from one action.      *)
LEMMA Motion ==
    ASSUME Typed, [Next]_vars, NEW s \in Slots, req'[s] # req[s]
    PROVE  \/ req'[s].pc \in {"idle", "create", "forget", "otp", "mail", "link", "letter"}
           \/ VerifyDiscard(s) \/ ResetPassword(s)
           \/ \E e \in Emails, c \in Codes : VerifyMatch(s, e, c)
           \/ \E h, b \in issued : RefreshCheck(s, h, b)
           \/ \E t \in Links : ResetFind(s, t)
<1> DEFINE Plain(r) == r.pc \in {"idle", "create", "forget", "otp", "mail", "link", "letter"}
<1>0. req \in [Slots -> Request] /\ Idle.pc = "idle"
    BY DEF Typed, TypeOK, Idle
<1>1. ASSUME NEW q \in Slots, Step(q) \/ Begin(q) \/ MailError(q) \/ Fail(q) PROVE Step(s) \/ Begin(s) \/ Plain(req'[s])
    <2>1. PICK r \in Request : req' = [req EXCEPT ![q] = r]
        BY <1>1, BeginMoves, StepMoves
    <2>2. s = q
        BY <1>0, <2>1
    <2>3. CASE MailError(q) \/ Fail(q)
        BY <1>0, <2>2, <2>3 DEF MailError, Fail, Finish, Goto
    <2> QED BY <1>1, <2>2, <2>3
<1>2. CASE Step(s)
    <2>1. req[s] \in Request
        BY <1>0
    <2>2. ASSUME NEW p PROVE [req[s] EXCEPT !.pc = p].pc = p
        BY <2>1 DEF Request
    <2>3. CASE req' = [req EXCEPT ![s] = Idle]
        BY <1>0, <2>3
    <2>4. CASE RegisterCreate(s) \/ ResendForget(s)
        <3>1. req' = [req EXCEPT ![s] = Idle] \/ req' = [req EXCEPT ![s] = [req[s] EXCEPT !.pc = "otp"]]
            BY <2>4 DEF RegisterCreate, ResendForget, Goto, Finish
        <3> QED BY <1>0, <2>2, <2>3, <3>1
    <2>5. CASE SetCode(s)
        <3>1. PICK c \in Codes : req' = [req EXCEPT ![s] = [req[s] EXCEPT !.pc = "mail", !.code = c]]
            BY <2>5, CodeIsSet
        <3>2. [req[s] EXCEPT !.pc = "mail", !.code = c].pc = "mail"
            BY <2>1 DEF Request
        <3> QED BY <1>0, <3>1, <3>2
    <2>6. CASE ForgotStore(s)
        <3>1. PICK t \in Links : req' = [req EXCEPT ![s] = [req[s] EXCEPT !.pc = "letter", !.link = t]]
            BY <2>6 DEF ForgotStore, Goto
        <3>2. [req[s] EXCEPT !.pc = "letter", !.link = t].pc = "letter"
            BY <2>1 DEF Request
        <3> QED BY <1>0, <3>1, <3>2
    <2> QED BY <1>2, <2>3, <2>4, <2>5, <2>6 DEF Step, MailCode, VerifyUpdate, RefreshRevoke, ForgotMail, ResetUnlink,
            Finish, Goto
<1>3. CASE Begin(s)
    <2>1. ASSUME NEW e \in Emails, RegisterFind(s, e) \/ ResendFind(s, e) \/ ForgotFind(s, e) PROVE Plain(req'[s])
        BY <1>0, <2>1 DEF RegisterFind, ResendFind, ForgotFind, Goto, Idle
    <2> QED BY <1>3, <2>1 DEF Begin
<1>4. CASE Crash
    BY <1>0, <1>4 DEF Crash
<1>5. ASSUME NEW e \in Emails, Login(e) \/ DeleteUser(e) \/ CodeExpires(e) PROVE req' = req
    BY <1>5 DEF Login, DeleteUser, CodeExpires
<1>6. (\E t \in issued : Logout(t)) \/ (\E t \in Links : LinkExpires(t)) \/ Tick \/ UNCHANGED vars => req' = req
    BY DEF Logout, LinkExpires, Tick, vars
<1> QED BY <1>1, <1>2, <1>3, <1>4, <1>5, <1>6 DEF Next

-----------------------------------------------------------------------------
(* Codes: what was used is not stored, and what is being used is not either. *)
SpentIsGone == \A p \in spent : otp[p[1]] # p[2]
InFlightIsGone == \A q \in Slots : req[q].pc = "verify" => otp[req[q].email] # req[q].code
CodeInv == SpentIsGone /\ InFlightIsGone /\ CodeOnce

LEMMA Entered ==
    ASSUME Typed, NEW s \in Slots
    PROVE  /\ \A e \in Emails, c \in Codes : VerifyMatch(s, e, c) => req'[s].pc = "discard"
           /\ VerifyDiscard(s) => req'[s].pc = "verify"
           /\ \A h, b \in issued : RefreshCheck(s, h, b) => req'[s].pc = "revoke"
           /\ \A t \in Links : ResetFind(s, t) => req'[s].pc = "password"
           /\ ResetPassword(s) => req'[s].pc \in {"idle", "unlink"}
<1>1. req[s] \in Request /\ req \in [Slots -> Request]
    BY DEF Typed, TypeOK
<1>2. \A e \in Emails, c \in Codes : VerifyMatch(s, e, c) => req'[s].pc = "discard"
    BY <1>1 DEF VerifyMatch, Goto, Idle
<1>3. VerifyDiscard(s) => req'[s].pc = "verify"
    BY <1>1 DEF VerifyDiscard, Goto, Request
<1>4. \A h, b \in issued : RefreshCheck(s, h, b) => req'[s].pc = "revoke"
    BY <1>1 DEF RefreshCheck, Goto, Idle
<1>5. \A t \in Links : ResetFind(s, t) => req'[s].pc = "password"
    BY <1>1 DEF ResetFind, Goto, Idle
<1>6. ResetPassword(s) => req'[s].pc \in {"idle", "unlink"}
    <2>1. [req[s] EXCEPT !.pc = "unlink"].pc = "unlink" /\ Idle.pc = "idle"
        BY <1>1 DEF Request, Idle
    <2> QED BY <1>1, <2>1 DEF ResetPassword, Goto, Finish
<1> QED BY <1>2, <1>3, <1>4, <1>5, <1>6

(* Where no code is set, matched, discarded or used, codes only disappear.   *)
LEMMA CodesElsewhere ==
    ASSUME Typed, [Next]_vars,
           \A q \in Slots : ~SetCode(q) /\ ~VerifyDiscard(q) /\ ~VerifyUpdate(q)
                            /\ \A e \in Emails, c \in Codes : ~VerifyMatch(q, e, c)
    PROVE  /\ spent' = spent
           /\ \A e \in Emails : otp'[e] \in {otp[e], None}
           /\ \A s \in Slots : req'[s].pc \in {"discard", "verify"} => req'[s] = req[s]
<1>1. \A s \in Slots : req'[s].pc \in {"discard", "verify"} => req'[s] = req[s]
    <2>1. ASSUME NEW s \in Slots, req'[s] # req[s], req'[s].pc \in {"discard", "verify"} PROVE FALSE
        BY <2>1, Motion, Entered
    <2> QED BY <2>1
<1>2. otp \in [Emails -> Codes \union {None}]
    BY DEF Typed, TypeOK
<1>3. ASSUME NEW q \in Slots, Step(q) \/ Begin(q) \/ MailError(q) \/ Fail(q)
      PROVE  spent' = spent /\ (otp' = otp \/ \E e \in Emails : otp' = [otp EXCEPT ![e] = None])
    BY <1>3, RequestParts DEF Carries, Step, Begin, MailError, Fail, RegisterFind, ResendFind, ForgotFind,
        RefreshCheck, ResetFind, RegisterCreate, ResendForget, MailCode, RefreshRevoke, Revoke, ForgotStore,
        ForgotMail, ResetPassword, ResetUnlink, cache, history
<1>4. ASSUME NEW e \in Emails, Login(e) \/ DeleteUser(e) \/ CodeExpires(e)
      PROVE  spent' = spent /\ (otp' = otp \/ otp' = [otp EXCEPT ![e] = None])
    BY <1>4 DEF Login, DeleteUser, CodeExpires, cache, history
<1>5. (\E t \in issued : Logout(t)) \/ (\E t \in Links : LinkExpires(t)) \/ Tick \/ Crash \/ UNCHANGED vars
          => UNCHANGED <<spent, otp>>
    BY DEF Logout, Revoke, LinkExpires, Tick, Crash, vars, cache, history
<1> QED BY <1>1, <1>2, <1>3, <1>4, <1>5 DEF Next

LEMMA CodeStep ==
    ASSUME Typed, Typed', CodeInv, [Next]_vars
    PROVE  CodeInv'
<1>0. /\ req \in [Slots -> Request] /\ otp \in [Emails -> Codes \union {None}] /\ None \notin Codes
      /\ \A p \in spent : p[1] \in Emails /\ p[2] \in Codes
      /\ \A q \in Slots : Carries(req[q])
    BY AccountsAssumption DEF Typed, TypeOK
<1>1. ASSUME \A q \in Slots : ~SetCode(q) /\ ~VerifyDiscard(q) /\ ~VerifyUpdate(q)
                              /\ \A e \in Emails, c \in Codes : ~VerifyMatch(q, e, c)
      PROVE  CodeInv'
    <2>1. /\ spent' = spent
          /\ \A e \in Emails : otp'[e] \in {otp[e], None}
          /\ \A s \in Slots : req'[s].pc \in {"discard", "verify"} => req'[s] = req[s]
        BY <1>1, CodesElsewhere
    <2> QED BY <1>0, <2>1 DEF CodeInv, SpentIsGone, InFlightIsGone, CodeOnce, Carries
<1>2. ASSUME NEW q \in Slots, SetCode(q) PROVE CodeInv'
    <2>1. PICK c \in Codes :
              /\ Fresh(req[q].email, c)
              /\ req[q].email \in Emails
              /\ otp' = [otp EXCEPT ![req[q].email] = c]
              /\ spent' = spent \ {<<req[q].email, c>>}
              /\ req' = [req EXCEPT ![q] = [req[q] EXCEPT !.pc = "mail", !.code = c]]
        BY <1>2, CodeIsSet
    <2>2. [req[q] EXCEPT !.pc = "mail", !.code = c].pc = "mail"
        BY <1>0 DEF Request
    <2>3. \A s \in Slots : req'[s].pc \in {"discard", "verify"} => req'[s] = req[s]
        BY <1>0, <2>1, <2>2
    <2>4. SpentIsGone'
        <3>1. ASSUME NEW p \in spent' PROVE otp'[p[1]] # p[2]
            <4>1. p \in spent /\ p # <<req[q].email, c>> /\ p = <<p[1], p[2]>>
                BY <2>1 DEF Typed, TypeOK
            <4> QED BY <1>0, <2>1, <4>1 DEF CodeInv, SpentIsGone
        <3> QED BY <3>1 DEF SpentIsGone
    <2>5. InFlightIsGone'
        BY <1>0, <2>1, <2>3 DEF CodeInv, InFlightIsGone, Fresh, Carries
    <2> QED BY <2>3, <2>4, <2>5 DEF CodeInv, CodeOnce
<1>3. ASSUME NEW q \in Slots, VerifyDiscard(q) PROVE CodeInv'
    <2> DEFINE r == [req[q] EXCEPT !.pc = "verify"]
    <2>1. r.pc = "verify" /\ r.email = req[q].email /\ r.code = req[q].code /\ r.late = req[q].late
        BY <1>0 DEF Request
    <2>2. req' = [req EXCEPT ![q] = r] /\ otp' = [otp EXCEPT ![req[q].email] = None] /\ spent' = spent
        BY <1>3 DEF VerifyDiscard, Goto, history
    <2>3. req[q].pc = "discard" /\ req[q].email \in Emails /\ req[q].code \in Codes
        BY <1>0, <1>3 DEF VerifyDiscard, Carries
    <2> HIDE DEF r
    <2>4. SpentIsGone'
        BY <1>0, <2>2 DEF CodeInv, SpentIsGone
    <2>5. InFlightIsGone'
        BY <1>0, <2>1, <2>2, <2>3 DEF CodeInv, InFlightIsGone, Carries
    <2>6. CodeOnce'
        BY <1>0, <2>1, <2>2, <2>3 DEF CodeInv, CodeOnce
    <2> QED BY <2>4, <2>5, <2>6 DEF CodeInv
<1>4. ASSUME NEW q \in Slots, VerifyUpdate(q) PROVE CodeInv'
    <2>1. req' = [req EXCEPT ![q] = Idle] /\ otp' = otp /\ Idle.pc = "idle"
        BY <1>4 DEF VerifyUpdate, Finish, Goto, cache, Idle
    <2>2. spent' \subseteq spent \union {<<req[q].email, req[q].code>>}
        BY <1>4 DEF VerifyUpdate
    <2>3. otp[req[q].email] # req[q].code
        BY <1>4 DEF CodeInv, InFlightIsGone, VerifyUpdate
    <2> QED BY <1>0, <2>1, <2>2, <2>3 DEF CodeInv, SpentIsGone, InFlightIsGone, CodeOnce
<1>5. ASSUME NEW q \in Slots, NEW e \in Emails, NEW c \in Codes, VerifyMatch(q, e, c) PROVE CodeInv'
    <2> DEFINE r == [Idle EXCEPT !.pc = "discard", !.email = e, !.code = c, !.late = <<e, c>> \in spent]
    <2>1. r.pc = "discard" /\ r.late = (<<e, c>> \in spent)
        BY DEF Idle
    <2>2. req' = [req EXCEPT ![q] = r] /\ otp' = otp /\ spent' = spent /\ otp[e] = c
        BY <1>5 DEF VerifyMatch, Goto, cache, history
    <2>3. <<e, c>> \notin spent
        BY <2>2 DEF CodeInv, SpentIsGone
    <2> HIDE DEF r
    <2> QED BY <1>0, <2>1, <2>2, <2>3 DEF CodeInv, SpentIsGone, InFlightIsGone, CodeOnce
<1> QED BY <1>1, <1>2, <1>3, <1>4, <1>5

LEMMA TypedAlways == Safety => []Typed
BY Initially, StepTyped, PTL DEF Safety

(* A one-time code verifies one request at most.                             *)
THEOREM CodesWorkOnce == Safety => []CodeOnce
<1>1. Init => CodeInv
    BY DEF Init, CodeInv, SpentIsGone, InFlightIsGone, CodeOnce, Idle
<1>2. Typed /\ Typed' /\ CodeInv /\ [Next]_vars => CodeInv'
    BY CodeStep
<1>3. CodeInv => CodeOnce
    BY DEF CodeInv
<1> QED BY <1>1, <1>2, <1>3, TypedAlways, PTL DEF Safety

-----------------------------------------------------------------------------
(* Links: what was followed is not stored.                                   *)
FollowedIsGone == \A t \in followed : reset[t] = None
LinkInv == FollowedIsGone /\ LinkOnce

(* Where no link is stored or unlinked, links only disappear.                *)
LEMMA LinksElsewhere ==
    ASSUME Typed, [Next]_vars, \A q \in Slots : ~ForgotStore(q) /\ ~ResetUnlink(q)
    PROVE  followed' = followed /\ \A t \in Links : reset'[t] \in {reset[t], None}
<1>0. reset \in [Links -> Emails \union {None}]
    BY DEF Typed, TypeOK
<1>1. ASSUME NEW q \in Slots, Step(q) \/ Begin(q) \/ MailError(q) \/ Fail(q) PROVE UNCHANGED <<followed, reset>>
    BY <1>1 DEF Step, Begin, MailError, Fail, RegisterFind, ResendFind, ForgotFind, VerifyMatch, RefreshCheck,
        ResetFind, RegisterCreate, ResendForget, SetCode, MailCode, VerifyDiscard, VerifyUpdate, RefreshRevoke,
        Revoke, ForgotMail, ResetPassword, cache, history
<1>2. ASSUME NEW t \in Links, LinkExpires(t) PROVE followed' = followed /\ reset' = [reset EXCEPT ![t] = None]
    BY <1>2 DEF LinkExpires, history
<1>3. (\E e \in Emails : Login(e) \/ DeleteUser(e) \/ CodeExpires(e)) \/ (\E t \in issued : Logout(t))
      \/ Tick \/ Crash \/ UNCHANGED vars => UNCHANGED <<followed, reset>>
    BY DEF Login, DeleteUser, CodeExpires, Logout, Revoke, Tick, Crash, vars, cache, history
<1> QED BY <1>0, <1>1, <1>2, <1>3 DEF Next

LEMMA LinkStep ==
    ASSUME Typed, LinkInv, [Next]_vars
    PROVE  LinkInv'
<1>0. /\ req \in [Slots -> Request] /\ reset \in [Links -> Emails \union {None}] /\ followed \subseteq Links
      /\ \A q \in Slots : Carries(req[q])
    BY DEF Typed, TypeOK
<1>1. FollowedIsGone'
    <2>1. CASE \A q \in Slots : ~ForgotStore(q) /\ ~ResetUnlink(q)
        BY <1>0, <2>1, LinksElsewhere DEF LinkInv, FollowedIsGone
    <2>2. ASSUME NEW q \in Slots, ForgotStore(q) PROVE FollowedIsGone'
        BY <1>0, <2>2 DEF ForgotStore, LinkInv, FollowedIsGone
    <2>3. ASSUME NEW q \in Slots, ResetUnlink(q) PROVE FollowedIsGone'
        BY <1>0, <2>3 DEF ResetUnlink, LinkInv, FollowedIsGone, Carries
    <2> QED BY <2>1, <2>2, <2>3
<1>2. ASSUME NEW s \in Slots, req'[s].pc \in {"password", "unlink"} PROVE ~req'[s].late
    <2>1. CASE req'[s] = req[s]
        BY <1>2, <2>1 DEF LinkInv, LinkOnce
    <2>2. ASSUME NEW t \in Links, ResetFind(s, t) PROVE ~req'[s].late
        <3>1. req'[s].late = (t \in followed)
            BY <1>0, <2>2 DEF ResetFind, Goto, Idle
        <3>2. t \notin followed
            BY <2>2 DEF ResetFind, LinkInv, FollowedIsGone
        <3> QED BY <3>1, <3>2
    <2>3. CASE ResetPassword(s)
        <3>1. req[s] \in Request /\ ~req[s].late
            BY <1>0, <2>3 DEF ResetPassword, LinkInv, LinkOnce
        <3>2. [req[s] EXCEPT !.pc = "unlink"].late = req[s].late /\ Idle.late = FALSE
            BY <3>1 DEF Request, Idle
        <3> QED BY <1>0, <2>3, <3>1, <3>2 DEF ResetPassword, Goto, Finish
    <2>4. CASE req'[s] # req[s]
        BY <1>2, <2>2, <2>3, <2>4, Motion, Entered
    <2> QED BY <2>1, <2>4
<1> QED BY <1>1, <1>2 DEF LinkInv, LinkOnce

(* A link resets one password, once.                                         *)
THEOREM LinksWorkOnce == Safety => []LinkOnce
<1>1. Init => LinkInv
    BY DEF Init, LinkInv, FollowedIsGone, LinkOnce, Idle
<1>2. Typed /\ LinkInv /\ [Next]_vars => LinkInv'
    BY LinkStep
<1>3. LinkInv => LinkOnce
    BY DEF LinkInv
<1> QED BY <1>1, <1>2, <1>3, TypedAlways, PTL DEF Safety

-----------------------------------------------------------------------------
(* Tokens.  A key on the blacklist outlasts its token, as it is set after    *)
(* the token was signed and for no less time than the token lives.          *)

(* The two readings of the configured expiry.                               *)
LEMMA BlacklistOutlasts ==
    ASSUME TypeOK
    PROVE  TokenExpiry \in Nat /\ BlacklistExpiry \in Nat /\ TokenExpiry <= BlacklistExpiry
BY DEF TypeOK, Expiry, TokenExpiry, BlacklistExpiry

RevokedStays ==
    \A t \in revoked : IF black[t] \in Nat THEN black[t] >= t.iat + TokenExpiry ELSE black[t] = Forever
SignedBefore ==
    /\ \A t \in issued : t.iat <= now
    /\ \A q \in Slots : req[q].pc = "revoke" => req[q].iat <= now /\ req[q].token.iat <= now
TokenInv == RevokedStays /\ SignedBefore /\ RevokedIsRefused

LEMMA TokensElsewhere ==
    ASSUME Typed, [Next]_vars
    PROVE  /\ TokenExpiry' = TokenExpiry
           /\ now' \in Nat /\ now \in Nat /\ now <= now'
<1>1. exp' = exp
    BY Clocks DEF config
<1>2. now' = now \/ (now' \in Times /\ now' > now)
    BY Clocks
<1>3. now \in Nat /\ Times \subseteq Nat
    BY AccountsAssumption DEF Typed, TypeOK
<1> QED BY <1>1, <1>2, <1>3 DEF TokenExpiry

(* Revoking a token that was signed in the past. *)
LEMMA RevokeStays ==
    ASSUME Typed, TokenInv, NEW t \in Token, t.iat <= now, Revoke(t), TokenExpiry' = TokenExpiry
    PROVE  RevokedStays'
<1>1. TokenExpiry \in Nat /\ BlacklistExpiry \in Nat /\ TokenExpiry <= BlacklistExpiry
    BY BlacklistOutlasts DEF Typed
<1>2. now \in Nat /\ t.iat \in Nat /\ Forever \notin Nat
    BY AccountsAssumption DEF Typed, TypeOK, Token
<1>3. IF KeyExpiry(BlacklistExpiry) \in Nat
      THEN KeyExpiry(BlacklistExpiry) >= t.iat + TokenExpiry ELSE KeyExpiry(BlacklistExpiry) = Forever
    BY <1>1, <1>2 DEF KeyExpiry
<1>4. /\ black' = [black EXCEPT ![t] = KeyExpiry(BlacklistExpiry)] /\ revoked' = revoked \union {t}
      /\ black \in [Token -> Nat \union {None, Forever}] /\ revoked \subseteq Token
    BY DEF Revoke, Typed, TypeOK
<1> HIDE DEF KeyExpiry
<1>5. ASSUME NEW u \in revoked'
      PROVE  IF black'[u] \in Nat THEN black'[u] >= u.iat + TokenExpiry ELSE black'[u] = Forever
    <2>1. CASE u = t
        BY <1>3, <1>4, <2>1
    <2>2. CASE u # t
        BY <1>4, <1>5, <2>2 DEF TokenInv, RevokedStays
    <2> QED BY <2>1, <2>2
<1> QED BY <1>5 DEF RevokedStays

LEMMA TokenStep ==
    ASSUME Typed, Typed', TokenInv, [Next]_vars
    PROVE  TokenInv'
<1>0. /\ req \in [Slots -> Request] /\ issued \subseteq Token /\ revoked \subseteq Token
      /\ \A q \in Slots : Carries(req[q])
      /\ Times \subseteq Nat /\ \A t \in Token : t.iat \in Nat
      /\ \A q \in Slots : req[q].iat \in Nat
    BY AccountsAssumption DEF Typed, TypeOK, Token, Request
<1>1. TokenExpiry' = TokenExpiry /\ now' \in Nat /\ now \in Nat /\ now <= now'
    BY TokensElsewhere
<1>2. RevokedStays'
    <2>1. CASE UNCHANGED <<black, revoked>>
        BY <1>1, <2>1 DEF TokenInv, RevokedStays
    <2>2. ASSUME NEW t \in issued, Logout(t) PROVE RevokedStays'
        BY <1>0, <1>1, <2>2, RevokeStays DEF Logout, TokenInv, SignedBefore
    <2>3. ASSUME NEW q \in Slots, RefreshRevoke(q) PROVE RevokedStays'
        <3>1. req[q].token \in Token /\ req[q].token.iat <= now /\ Revoke(req[q].token)
            BY <1>0, <2>3 DEF RefreshRevoke, Carries, TokenInv, SignedBefore
        <3> QED BY <1>1, <3>1, RevokeStays
    <2>4. ASSUME NEW q \in Slots, Step(q) \/ Begin(q) \/ MailError(q) \/ Fail(q)
          PROVE  RefreshRevoke(q) \/ UNCHANGED <<black, revoked>>
        BY <2>4 DEF Step, Begin, MailError, Fail, RegisterFind, ResendFind, ForgotFind, VerifyMatch, RefreshCheck,
            ResetFind, RegisterCreate, ResendForget, SetCode, MailCode, VerifyDiscard, VerifyUpdate, ForgotStore,
            ForgotMail, ResetPassword, ResetUnlink, cache, history
    <2>5. (\E e \in Emails : Login(e) \/ DeleteUser(e) \/ CodeExpires(e)) \/ (\E t \in Links : LinkExpires(t))
          \/ Tick \/ Crash \/ UNCHANGED vars => UNCHANGED <<black, revoked>>
        BY DEF Login, DeleteUser, CodeExpires, LinkExpires, Tick, Crash, vars, cache, history
    <2> QED BY <2>1, <2>2, <2>3, <2>4, <2>5 DEF Next
<1>3. ASSUME NEW s \in Slots, req'[s].pc = "revoke"
      PROVE  req'[s].iat <= now' /\ req'[s].token.iat <= now' /\ ~req'[s].late
    <2>1. CASE req'[s] = req[s]
        <3>1. req[s].token.iat \in Nat /\ req[s].iat \in Nat
            BY <1>0, <1>3, <2>1 DEF Carries
        <3> QED BY <1>1, <1>3, <2>1, <3>1 DEF TokenInv, SignedBefore, RevokedIsRefused
    <2>2. ASSUME NEW h \in issued, NEW t \in issued, RefreshCheck(s, h, t)
          PROVE  req'[s].iat <= now' /\ req'[s].token.iat <= now' /\ ~req'[s].late
        <3>1. req'[s].iat = now /\ req'[s].token = t /\ req'[s].late = (t \in revoked /\ Unexpired(t))
            BY <1>0, <2>2 DEF RefreshCheck, Goto, Idle
        <3>2. t.iat <= now /\ t.iat \in Nat
            BY <1>0 DEF TokenInv, SignedBefore
        <3>3. ~(t \in revoked /\ Unexpired(t))
            <4>1. TokenExpiry \in Nat
                BY BlacklistOutlasts DEF Typed
            <4> QED BY <1>1, <2>2, <3>2, <4>1 DEF RefreshCheck, Unexpired, Blacklisted, TokenInv, RevokedStays
        <3>4. ~req'[s].late
            BY <3>1, <3>3
        <3>5. now <= now' /\ t.iat <= now'
            BY <1>1, <3>2
        <3> QED BY <3>1, <3>4, <3>5
    <2> QED BY <1>3, <2>1, <2>2, Motion, Entered
<1>4. ASSUME NEW t \in issued' PROVE t.iat <= now'
    <2>1. CASE t \in issued
        <3>1. t.iat <= now /\ t.iat \in Nat
            BY <1>0, <2>1 DEF TokenInv, SignedBefore
        <3> QED BY <1>1, <3>1
    <2>2. CASE t \notin issued
        <3>1. ASSUME NEW q \in Slots, Step(q) \/ Begin(q) \/ MailError(q) \/ Fail(q)
              PROVE  VerifyUpdate(q) \/ RefreshRevoke(q)
            BY <1>4, <2>2, <3>1 DEF Step, Begin, MailError, Fail, RegisterFind, ResendFind, ForgotFind, VerifyMatch,
                RefreshCheck, ResetFind, RegisterCreate, ResendForget, SetCode, MailCode, VerifyDiscard, ForgotStore,
                ForgotMail, ResetPassword, ResetUnlink, history
        <3>2. ASSUME NEW q \in Slots, VerifyUpdate(q) PROVE t.iat = now
            BY <1>4, <2>2, <3>2 DEF VerifyUpdate
        <3>3. ASSUME NEW q \in Slots, RefreshRevoke(q) PROVE t.iat = req[q].iat /\ req[q].iat <= now
            BY <1>4, <2>2, <3>3 DEF RefreshRevoke, TokenInv, SignedBefore
        <3>4. ASSUME NEW x \in Emails, Login(x) PROVE t.iat = now
            BY <1>4, <2>2, <3>4 DEF Login
        <3>5. ~((\E x \in Emails : DeleteUser(x) \/ CodeExpires(x)) \/ (\E u \in issued : Logout(u))
                \/ (\E u \in Links : LinkExpires(u)) \/ Tick \/ Crash \/ UNCHANGED vars)
            BY <1>4, <2>2 DEF DeleteUser, CodeExpires, Logout, LinkExpires, Tick, Crash, vars, history
        <3>6. t.iat = now \/ \E q \in Slots : t.iat = req[q].iat /\ req[q].iat <= now
            BY <3>1, <3>2, <3>3, <3>4, <3>5 DEF Next
        <3> QED BY <1>0, <1>1, <3>6
    <2> QED BY <2>1, <2>2
<1> QED BY <1>2, <1>3, <1>4 DEF TokenInv, SignedBefore, RevokedIsRefused

(* While it lives, a token that was revoked is refused in the body of every  *)
(* later refresh, whatever expiry is configured, whichever token is in the   *)
(* header and however the clock and the requests interleave.                *)
THEOREM RevokedBodyIsRefused == Safety => []RevokedIsRefused
<1>1. Init => TokenInv
    BY DEF Init, TokenInv, RevokedStays, SignedBefore, RevokedIsRefused, Idle
<1>2. Typed /\ Typed' /\ TokenInv /\ [Next]_vars => TokenInv'
    BY TokenStep
<1>3. TokenInv => RevokedIsRefused
    BY DEF TokenInv
<1> QED BY <1>1, <1>2, <1>3, TypedAlways, PTL DEF Safety

-----------------------------------------------------------------------------
(* Sessions belong to accounts that verified their address. *)
SessionInv ==
    /\ SessionsAreVerified
    /\ \A e \in Emails : users[e] # None /\ users[e].isVerified => users[e].id \in verified
    /\ \A q \in Slots : req[q].pc = "revoke" => req[q].bearer.id \in verified

LEMMA SessionStep ==
    ASSUME Typed, Typed', SessionInv, [Next]_vars
    PROVE  SessionInv'
<1>0. /\ req \in [Slots -> Request] /\ users \in [Emails -> User \union {None}] /\ issued \subseteq Token
      /\ \A q \in Slots : Carries(req[q])
    BY DEF Typed, TypeOK
<1>1. ASSUME NEW q \in Slots, VerifyUpdate(q) PROVE SessionInv'
    <2> DEFINE e == req[q].email
    <2>1. e \in Emails /\ req' = [req EXCEPT ![q] = Idle] /\ Idle.pc = "idle"
        BY <1>0, <1>1 DEF VerifyUpdate, Carries, Finish, Goto, Idle
    <2>2. CASE users[e] = None
        BY <1>0, <1>1, <2>1, <2>2 DEF VerifyUpdate, SessionInv, SessionsAreVerified
    <2>3. CASE users[e] # None
        <3>1. /\ users' = [users EXCEPT ![e].isVerified = TRUE] /\ verified' = verified \union {users[e].id}
              /\ issued' = issued \union {[id |-> users[e].id, iat |-> now]}
            BY <1>1, <2>3 DEF VerifyUpdate
        <3>2. users[e] \in User /\ [users[e] EXCEPT !.isVerified = TRUE].id = users[e].id
            BY <1>0, <2>1, <2>3 DEF User
        <3>3. \A x \in Emails : users'[x] # None /\ users'[x].isVerified => users'[x].id \in verified'
            BY <1>0, <2>1, <3>1, <3>2 DEF SessionInv
        <3>4. SessionsAreVerified'
            BY <3>1 DEF SessionInv, SessionsAreVerified
        <3> QED BY <1>0, <2>1, <3>1, <3>3, <3>4 DEF SessionInv
    <2> QED BY <2>2, <2>3
<1>2. ASSUME \A q \in Slots : ~VerifyUpdate(q) PROVE verified' = verified
    BY <1>2 DEF Next, vars, history, Step, Begin, MailError, Fail, RegisterCreate, ResendForget, SetCode, MailCode,
        VerifyDiscard, RefreshRevoke, ForgotStore, ForgotMail, ResetPassword, ResetUnlink, RegisterFind, ResendFind,
        ForgotFind, VerifyMatch, RefreshCheck, ResetFind, Login, DeleteUser, CodeExpires, Logout, LinkExpires,
        Tick, Crash
<1>3. ASSUME \A q \in Slots : ~VerifyUpdate(q), NEW t \in issued', t \notin issued PROVE t.id \in verified
    <2>1. ASSUME NEW q \in Slots, Step(q) \/ Begin(q) \/ MailError(q) \/ Fail(q) PROVE RefreshRevoke(q)
        BY <1>3, <2>1 DEF Step, Begin, MailError, Fail, RegisterFind, ResendFind, ForgotFind, VerifyMatch,
            RefreshCheck, ResetFind, RegisterCreate, ResendForget, SetCode, MailCode, VerifyDiscard, ForgotStore,
            ForgotMail, ResetPassword, ResetUnlink, history
    <2>2. ASSUME NEW q \in Slots, RefreshRevoke(q) PROVE t.id = req[q].bearer.id /\ req[q].pc = "revoke"
        BY <1>3, <2>2 DEF RefreshRevoke
    <2>3. ASSUME NEW x \in Emails, Login(x) PROVE t.id \in verified
        <3>1. Lower[x] \in Emails
            BY AccountsAssumption
        <3> QED BY <1>3, <2>3, <3>1 DEF Login, MayLogin, SessionInv
    <2>4. ~((\E x \in Emails : DeleteUser(x) \/ CodeExpires(x)) \/ (\E u \in issued : Logout(u))
            \/ (\E u \in Links : LinkExpires(u)) \/ Tick \/ Crash \/ UNCHANGED vars)
        BY <1>3 DEF DeleteUser, CodeExpires, Logout, LinkExpires, Tick, Crash, vars, history
    <2> QED BY <2>1, <2>2, <2>3, <2>4 DEF Next, SessionInv
<1>4. ASSUME \A q \in Slots : ~VerifyUpdate(q), NEW x \in Emails, users'[x] # None, users'[x].isVerified
      PROVE  users[x] = users'[x]
    <2>1. ASSUME NEW q \in Slots, Step(q) \/ Begin(q) \/ MailError(q) \/ Fail(q)
          PROVE  users' = users \/ RegisterCreate(q)
        BY <1>4, <2>1 DEF Step, Begin, MailError, Fail, RegisterFind, ResendFind, ForgotFind, VerifyMatch,
            RefreshCheck, ResetFind, ResendForget, SetCode, MailCode, VerifyDiscard, RefreshRevoke, ForgotStore,
            ForgotMail, ResetPassword, ResetUnlink
    <2>2. ASSUME NEW q \in Slots, RegisterCreate(q) PROVE users[x] = users'[x]
        <3>1. users' = users \/ \E e \in Emails : \E u : ~u.isVerified /\ users' = [users EXCEPT ![e] = u]
            <4>1. Lower[req[q].email] \in Emails
                BY <1>0, <2>2, AccountsAssumption DEF RegisterCreate, Carries
            <4> QED BY <2>2, <4>1 DEF RegisterCreate, StoredEmail
        <3> QED BY <1>0, <1>4, <3>1
    <2>3. ASSUME NEW e \in Emails, DeleteUser(e) PROVE users[x] = users'[x]
        BY <1>0, <1>4, <2>3 DEF DeleteUser
    <2>4. (\E e \in Emails : Login(e) \/ CodeExpires(e)) \/ (\E u \in issued : Logout(u))
          \/ (\E u \in Links : LinkExpires(u)) \/ Tick \/ Crash \/ UNCHANGED vars => users' = users
        BY DEF Login, CodeExpires, Logout, LinkExpires, Tick, Crash, vars
    <2> QED BY <2>1, <2>2, <2>3, <2>4 DEF Next
<1>5. ASSUME NEW s \in Slots, req'[s].pc = "revoke", req'[s] # req[s]
      PROVE  req'[s].bearer \in issued
    <2>1. PICK h, b \in issued : RefreshCheck(s, h, b)
        BY <1>5, Motion, Entered
    <2>2. req'[s].bearer = h
        BY <1>0, <2>1 DEF RefreshCheck, Goto, Idle
    <2> QED BY <2>2
<1>6. CASE \A q \in Slots : ~VerifyUpdate(q)
    BY <1>2, <1>3, <1>4, <1>5, <1>6 DEF SessionInv, SessionsAreVerified
<1> QED BY <1>1, <1>6

(* Refresh tokens belong to accounts that verified their address.            *)
THEOREM OnlyVerifiedHaveSessions == Safety => []SessionsAreVerified
<1>1. Init => SessionInv
    <2> SUFFICES ASSUME Init PROVE SessionInv
        OBVIOUS
    <2>1. PICK p \in Profiles :
            /\ users = [e \in Emails |-> IF e \in p.seeded THEN [id |-> <<e, 0>>, isVerified |-> TRUE] ELSE None]
            /\ verified = {<<e, 0>> : e \in p.seeded}
        BY DEF Init
    <2> QED BY <2>1 DEF Init, SessionInv, SessionsAreVerified, Idle
<1>2. Typed /\ Typed' /\ SessionInv /\ [Next]_vars => SessionInv'
    BY SessionStep
<1>3. SessionInv => SessionsAreVerified
    BY DEF SessionInv
<1> QED BY <1>1, <1>2, <1>3, TypedAlways, PTL DEF Safety
=============================================================================
