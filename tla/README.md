# EastPark backend: TLA+ specifications

The EastPark backend is a NestJS server for a residential compound: residents
order from the compound's shops, pay in cash or through Paymob, vote in polls
and elections, and are invited and registered by administrators. It runs as a
single Node process over PostgreSQL (Prisma), Redis, Socket.io, Expo push and
Paymob. Paths below are relative to the repository.

Node runs one callback at a time, so nothing is preempted; but every handler
awaits the database, Redis or a service several times, and between two awaits
any number of other handlers may run. Apart from the deletion of an account
(`UserService.deleteUser`) nothing is a database transaction. What a handler
read is therefore a memory of the past when it writes, and most of what can go
wrong here goes wrong in such a gap. The specifications make each piece of code
between two awaits one action, and let the actions of all requests interleave.

## Inventory

| Component | State it keeps | Operations | What makes it correct |
|---|---|---|---|
| Orders (`src/modules/orders/orders.service.ts`) | `orders`, `order_items` | create, updateStatus, cancel, findAll, findOne | receipts as offered and of one shop; statuses changed by those entitled to; cancellation only while PLACED |
| Orders gateway (`orders.gateway.ts`) | Socket.io rooms, in memory | join, leave, disconnect, emitStatusUpdate | clients are told only what was stored, and last what is stored last |
| Notifications (`notifications.service.ts`) | `notifications`, preferences | send, findAll, markRead, markAllRead, preferences | the right addressee; a row before any push; failures never reach the caller |
| Payments (`payments.service.ts`) | `orders.isPaid`, Redis `paymob:processed:*` | initiatePayment, handleWebhook | captured money is recorded once, in full, on its order, and never lost |
| Products (`products.service.ts`) | `products` | create, update, remove (soft), findAll, findOne | only the owning merchant edits; removed products stay removed |
| Users (`user.service.ts`) | `users` and everything that refers to them | getProfile, updateUser, deleteUser | deletion is complete and final |
| Elections (`elections.service.ts`) | `elections`, `candidates`, `election_votes` | create, addCandidate, vote, cron, findAll, findOne | one vote each, before the deadline; results sealed until they may be seen, and then opened |
| Polls (`polls.service.ts`) | `polls`, `poll_options`, `votes` | create, vote, findAll, findOne | one vote each, before the deadline; counts only after it |
| Authentication (`src/common/auth/services/auth.service.ts`) | `users`, Redis `otp:*`, `reset:*`, `blacklist:*` | register, verifyOtp, resendOtp, login, refresh, logout, forgotPassword, resetPassword, acceptInvitation | secrets are used once; only verified users hold tokens |
| Invitations (`invitations.service.ts`) | `invitations` | create, findAll | one pending invitation per address and role |
| Residents (`residents.service.ts`) | `resident_leads` | create, findAll, invite | one live lead per flat; repeating a submission is harmless |
| Shops, photos, reviews, saved shops (`src/modules/shops`) | their tables | create, update, remove, upsert | ownership; one review and one saved row per resident and shop |
| Merchant facade (`merchant.service.ts`) | none | delegates to the three above | same rules as the services it calls |
| Cursor paging (every `findAll`) | none; the client holds the cursor | page after page | every row that stays is seen once |
| Query and pagination helpers (`src/common/helper`) | none | filters, searches, ranges, page numbers, metadata | a client sees what it asked for, all of it, once |
| Feedback, announcements, reports | their tables | single-row writes, replies, comments, status | nothing refers to a row that is gone; replies and comments of existing users |
| Cache (`cache.service.ts`) | Redis | get, set with TTL, del, exists | expiry |
| Request pipeline (guards, filter, interceptor) | none | authenticate, authorise, answer | a handler runs only for the roles it allows |
| Files, email, logger, messages, configuration | none | I/O and libraries | |

How they interact: controllers call services; `OrdersService` calls the gateway
and, without awaiting it, `NotificationsService.send`; `PaymentsService` shares
with orders only the row of the order; `ResidentsService.invite` calls
`InvitationsService.create`, whose rows `AuthService.acceptInvitation` consumes
to make accounts, next to those that register with a mailed code;
the merchant facade calls shops, products and orders; `UserService.deleteUser`
reaches into the tables of all of them.

Hard behaviours: check-then-act across awaits (nearly every write), broadcasts
that overtake each other, fire-and-forget notices, a webhook that is repeated,
raced and interrupted, keys that expire, secrets that are tested in one step and
used up in a later one, unique indexes that decide races and the code that
recovers from their errors, deletion of an account under running requests,
deadlines that pass while a vote is on its way, a timer, cursors into lists that
change. Each is listed with its line in `PROJECT.json` (`hazards`).

## Modules

### ProductTable

The `products` table as the rest of the marketplace sees it: one row per
product, one action per statement that `ProductsService` ends with. `offered`
is a history of the prices a product has been on sale at. The tests that
precede the statements are separate awaits; that an update may therefore reach
a row removed meanwhile is kept (`ProductEdit` does not look at `isDeleted`).

### Orders

Extends ProductTable.

| In the module | In the code |
|---|---|
| `orders` | rows of `orders` with their items; `deleted` stands for a row that is no longer there and keeps what it was, for the properties |
| `req[r]` | a request between two awaits: where it resumes and what it holds in local variables |
| `rooms`, `seen` | the Socket.io rooms, and the last `order:status_update` of each client since it joined |
| `pending`, `feed` | calls of `NotificationsService.send` not yet settled, and rows of `notifications` |
| `gone` | deleted accounts |
| `held`, `crossed`, `overtaken` | history: the statuses a row has had; the statuses that were on their way to the room when the row was last written, or when the newest update was lost; another request wrote the order since this one read or wrote it |
| `CreateRead`, `CreateWrite` | `create`: up to and including the tests on the products found, and the insert |
| `StatusRead`, `StatusOwner`, `StatusWrite`, `StatusEmit` | `updateStatus`: the order, the shop (merchants only), the update, then broadcast, notice and answer in one go |
| `CancelRead`, `CancelWrite`, `CancelEmit`, `CancelShop` | `cancel`: the order with its tests, the update, the broadcast, the shop's merchant with the notice |
| `NoticeStored`, `NoticeLost` | the insert `send` begins with, or its rejection, which the callers swallow |
| `Join`, `Leave`, `Disconnect` | the gateway |
| `DeleteUser` | `UserService.deleteUser`, a transaction and so one step |
| `EditTable` | the statements of ProductTable |
| `Fail`, `Rejected`, `Crash` | a call rejects, or its answer is lost after it took effect (as `Fail` may follow the write); the database refuses a write whose row or foreign key is gone; the process restarts and forgets what is in memory |

A request that is refused before it changed anything is a step not taken.
Texts, labels, delivery data and the push after the stored notice are left out.

### Settlement

What the payment integration promises, without saying how: money captured for
an order is recorded on that order eventually unless the order is withdrawn, an
order is recorded as paid only for money captured for it, and none of it is
undone.

### Payments

Extends Orders with `initiatePayment` (`PayRead`, `PayToken`, `PayRegister`,
`PayKey`, `PayRefused`) and `handleWebhook` (`HookReceive` to `HookMark`, one
action per await; `HookSkip` for a key found in Redis; `HookLost` for an order
deleted meanwhile; `HookFail` for a rejected call). Paymob is external: `keys`
and `txs` are the payment keys it issued and the transactions customers made
with them, `acked` the transactions of which a report was answered 200. It may
report a captured transaction again at any time, also while an earlier report
is being handled. `processed` are the `paymob:processed` keys, which may expire
or be lost at any time (`ExpireKey`). Totals are integers in thousandths of a
pound; `AmountCents` is the rounding of line 175, where the double that stands
for a total decides whether a half goes up (1.005 · 100 is below the half):
`TiesUp` are the totals for which it does, whichever they are. Other rounding
errors of doubles are too small to matter. The signature test is taken to accept Paymob's own
reports.

`Ledger` maps the state to Settlement: captured transactions, paid orders,
deleted orders.

### BallotBox

What polls and elections promise alike: one vote per voter and issue, for an
answer on its slate, none taken back but with the account, and none added once
an issue is closed, which every issue is in the end.

### Voting

`PollsService.vote` and `ElectionsService.vote` are the same code over different
tables, and `Voting` models it once: `VoteRead` (the ballot with its choices,
compared with the clock), `VoteFind` (no earlier vote), `VoteInsert` (the row,
under the primary key over voter and ballot and the foreign key on the user),
`VoteAnswer`; `VoteRefused` for the 409 and for a broken key, `VoteFail` for a
rejected call or a lost answer, `VotesForgotten` for a restart. `now` is the
clock of the server, which `Tick` moves to `Horizon`; `deadline` is `expiresAt`,
which may lie in the past when a ballot is created. `acked` are the votes whose
requests were answered with success. An access token outlives its account, so
a deleted resident may still begin to vote.

`Urn` maps the state to BallotBox. A ballot counts as closed once it has expired
*and* no vote on it is in flight: the code looks at the clock two awaits before
it inserts, so the deadline alone closes nothing, and a vote may be stored
shortly after it, or even after the results were opened.

### Elections

Extends Voting with `Create`, `AddCandidate`, the timer and the views.
`SweepStart` takes the cutoff of `openExpiredResults`, `SweepApply` is its
`updateMany`; calls may overlap. `ViewRows` is the query for the rows of a page
of elections, from which `buildElectionDto` later decides what to show;
`ViewCounts` is the query for candidates with counts, and the answer. `shown`
is a history of the elections whose counts anybody was shown.

### Polls

Extends Voting with `Create` and the views. Here the votes are counted first
(`ViewRows`) and the clock is read when the answer is built (`ViewAnswer`).
`Actor` is what `JwtAccessGuard` leaves of the caller on a public route:
nobody. `settled` remembers whether the poll was closed when it was counted.

### QueryHelpers and Lists

`QueryHelpers` holds the three helpers that build queries as functions of what a
client sends: the where clause (`BasicFilters`, `SearchConditions`,
`BetweenConditions`, `EnumConditions`), what the builder's configuration allows
of it (`Allowed`), the limits of the three helpers, which treat 0 and absence
differently, and the metadata of a page. `Received` is what `BasePrismaQueryDto`
makes of a query string: lists and objects arrive as JSON text, and a text that
does not parse counts as empty.

`Lists` is a client that walks through a list while rows are inserted, deleted
and updated so that a filter takes or leaves them (`Insert`, `Delete`, `Flip`).
Scheme `service` is the code that all thirteen `findAll` methods share
(`ServiceRows`, `ServiceAnswer`); a record per list says where new rows sort in
and whether its filter looks at something that changes. Scheme `builder` is
`buildCursorQuery` of the query builder, scheme `offset` the page numbers of
the three helpers, whose `count` and `findMany` are two queries that may see
different tables. Not told how to sort, the query builder sorts by `createdAt`
descending (`BuilderList`), while the fluent helper and `paginate` send no
`orderBy`, so that pages follow the primary key and new rows land anywhere
(`UnsortedList`). `FindMany` is Prisma's, from how the code uses it: of the rows
it can reach from the cursor (`Reachable`) a slice of their order (`Slice`),
where the place of a row is the number of rows before it (`Rank`). Rows never
tie in the column a list is sorted by.

### Onboarding

| In the module | In the code |
|---|---|
| `users`, `leads`, `invitations`, `staff` | the tables; an id of a user is its address and the number of accounts deleted before it, so that no two accounts share one |
| `req[q]` | a request between two awaits |
| `told`, `turnedAway`, `mailed`, `offered`, `answered` | histories: what clients were answered and sent |
| `SubmitFindNone`, `SubmitFind`, `SubmitInsert`, `SubmitTaken`, `SubmitRefind` | `ResidentsService.create`: the look-up of the flat, the insert, P2002 from the partial unique index, and the look-up after it |
| `InviteStart`, `InviteUser`, `InviteLink`, `InviteMark` | `ResidentsService.invite`: the lead, the account with its address, the link to it or the status after the mail |
| `InvitationCheck`, `DirectCheck`, `InvitationInsert`, `InvitationOrphan`, `InvitationMail`, `MailError` | `InvitationsService.create`, also on its own; the mail may fail, delivered or not |
| `AcceptRead`, `AcceptUpsert`, `AcceptUse` | `AuthService.acceptInvitation` |
| `Register` | `AuthService.register` as far as it makes an account |
| `Expire`, `Reject`, `DeleteUser`, `StaffLeaves`, `Fail`, `Crash` | 48 hours pass; a lead is rejected in the database (no endpoint does it); accounts are deleted; faults |

Addresses are kept as they are spelled: leads and registered accounts are in
lower case, invitations and the accounts they make are not.

### Accounts

The rest of `AuthService`. `otp`, `reset` and `black` are the keys in Redis,
which like the database survive a crash. Every endpoint is one action per await
(`RegisterFind` to `RegisterCreate`, then `SetCode` and `MailCode`, which
`resendOtp` shares after `ResendForget`; `VerifyMatch`, `VerifyDiscard`,
`VerifyUpdate`; `RefreshCheck`, `RefreshRevoke`; `ForgotFind` to `ForgotMail`;
`ResetFind`, `ResetPassword`, `ResetUnlink`), except that steps which share
nothing with others are taken together; `Login` and `Logout` are single steps.
Codes are kept under the address as it was typed, accounts under its lower-case
form. A refresh token is its account and the second it was signed in.
`RefreshCheck` has two of them: `JwtRefreshGuard` verifies the one of the
Authorization header (`bearer`), which says whose the new tokens are, and
`AuthService.refresh` looks up and revokes the one of the body (`token`); the
code compares them nowhere. `TokenExpiry` and `BlacklistExpiry` are the two
readings of `AUTH_REFRESH_TOKEN_EXP`, by the encryption helper and by
`AuthService`, which disagree about units they do not know. Passwords are left out: no property tells them apart.

### Content

What users own and write: shops with photos and products, reviews and saved
shops, feedback with replies, announcements with comments, notifications with
preferences and push tokens, and the whole of `UserService.deleteUser`. All of
these services do the same: they find, test, and send one statement. So the
tables are one `table` of rows with a `Kind` and the `Refs` of their foreign
keys; a service is the action that finds and tests and leaves the statement in
`req[q]` (`Prepare`), and `DoInsert`, `DoUpdate` and `DoDelete` send it as the
schema lets it pass (`KeysHold`, `Cascades`). `ResolveShop` and `ShopOwned` are
the merchant facade and the ownership test of `ProductsService`; `Send`,
`Recipient` and `Push` are `NotificationsService.send`. `DeleteFind`,
`DeleteSweep` and `DeleteFinish` are the deletion: what its transaction deleted
and has not committed is `doomed`, which blocks statements on the same rows
(`Locked`), and a row somebody else inserts in between makes the commit fail.
The `deleteMany` statements of the transaction are one action (`DeleteSweep`): a
row inserted between two of them makes a later statement fail where the model
refuses the row or lets the commit fail; either way everything is rolled back,
and the deletion has to be asked for again.
That products are `isAvailable` matters to orders alone and is in ProductTable.

### Proof modules

`MarketplaceProofs` (orders and payments), `VotingProofs` (lemmas that elections
and polls share), `ElectionsProofs`, `PollsProofs`, `AccountsProofs`,
`ContentProofs`, `OnboardingProofs` and `ListsProofs` hold the theorems; the
modules that begin with `MC` are the instances for TLC.

## Runs

| Run | Question | Result |
|---|---|---|
| `orders_requests` | Who may change a status, what are room and feed told, what is the room left with, does anything a deletion erased come back, and is a stored receipt one that was offered, of one shop, whatever merchants edit meanwhile? | holds; the room is left with the stored status or one that was overtaken on its way |
| `orders_cancel_race` | "resident can cancel only while status = PLACED" (`Documentation/GUIDE.md`) | violated: test and write are two awaits apart |
| `payments` | Is captured money ever skipped or paid short, and does the system implement Settlement, liveness included? | never; implemented |
| `elections` | Does timer or view ever show sealed counts, can races or failures lose an acknowledged vote, do elections implement BallotBox, and are results opened in the end? | no; no; implemented; opened |
| `polls_results` | Do all who look at a closed poll see one result? | yes |
| `lists` | What may a walk through a list repeat or miss while the table changes, what may a helper show, and does a walk end? | services repeat nothing and miss exactly the rows of their cursors; the builder misses none; page numbers are exact on a table at rest; walks end |
| `lists_lost_row` | "Pass as cursor for next page" (`shop.response.dto.ts`) | violated: the row read ahead becomes the cursor, and the next page skips it |
| `onboarding` | Who holds a flat, who is invited, linked and given an account, whatever races and fails, and does every lead settle? | holds |
| `accounts` | Do codes and links work once, is a living token that was given back ever taken in the body of a refresh again, and is every account verified in the end? | yes; no, under any expiry; yes |
| `accounts_code_wasted` | "Verify email OTP, returns JWT pair" (`README.md`) | violated: with a capital letter in the address the code matches and is deleted, and no account has that spelling |
| `accounts_dead_token` | "Token is now dead even if not expired" (`Documentation/GUIDE.md`) | violated: the token is looked up in the body and verified in the header |
| `content` | Whose rows are written, what stays removed or muted, is the deletion of an account complete, and does it succeed in the end? | own ones; all; complete; it does |

Invariants that are a consequence of one guard or say only that a variable has
its type are proved rather than run: `TypeOK` of Orders and Accounts,
`CheckedCancelIsPlaced`, `NoticeAddressee`, `PayTypeOK`, `PaidOnlyOnline`,
`ElectionTypeOK`, `OneVoteEach`, `PollTypeOK`,
`CountsOnlyAfterExpiry`, `SessionsAreVerified`.

### Bounds

The bounds are in the `.cfg` files, each under the name it has in its module.

* Orders: two requests on one order are enough for every race between a
  reader-then-writer and one other writer. A second order and a second resident
  would matter only where a deletion has to tell them apart, and the theorem
  `ErasureIsFinal` covers these; a second shop is there where ownership or the
  mixture of shops matters. Two prices and four edits let a price change twice
  between read and insert. `CartsOrProduct` keeps apart two questions that share
  little state: either carts of up to two lines are filled while both shops edit
  their products, or everything else happens to orders of one product at one price.
  Every line is for one piece, as no property of the orders depends on quantities.
* Payments: two transactions with two reports each cover repeated and concurrent
  reports and transactions; one failure or restart can fall anywhere.
* Elections and polls: two requests of two residents contain each race of one
  resident with himself and with another; two moments (`Horizon = 1`) give a
  deadline ahead and one already past, with cutoff and view before and after it.
* Lists: four rows with limits of one and two give three full pages, an exact fit
  and a remainder; a limit of 0 and an absent one are in as well.
* Onboarding: two households with one flat, two leads (one may be rejected and
  followed by another), two invitations, two requests, two spellings of one
  address. Ids of invitations that nobody can accept any more are used again, so
  that the supply never ends. `MaxUpsets = 1` bounds direct and repeated
  invitations, deletions, rejections and faults together: each may fall anywhere,
  but only one of them in a behaviour. Combinations are covered by the theorems.
* Accounts: two requests, two spellings, four codes (stored, mailed and being
  sent differ); three moments up to the end of a minute, for
  configured expiries of zero, a minute, and a unit the two readings disagree
  about. `Profiles` restrict a behaviour to registration, resets or
  sessions, which share no state but the user, so that the state space is a sum
  and not a product.
* The runs that refute a statement have the smallest instance that shows it, and
  no faults: one account at two moments, two requests about one order.
* Content: two requests, two merchants with a shop each, a resident and an
  admin. `Scopes` restrict a behaviour to kinds that refer to one another; each
  scope has at most three inserts and one fault. A statement that finds a row
  swept by an uncommitted deletion counts as failed once that commits.

`CHECK_DEADLOCK FALSE` appears where all bounded ids may be used up and the
model stops, as the system then simply has nothing to do. Administrators do not
delete their accounts in Orders and Content (`Leavers`); they do in Onboarding.

### Fairness

The event loop resumes a handler whose call was answered (`HookProceed`,
`VoteStep`, `SweepApply`, `Step`, `NextPage`): weak fairness. Time passes
(`Tick`, `Expire`), and the timer fires (`SweepStart`). The rest is about people
and partners, and is an assumption, not a property of the code: Paymob reports a
transaction until it gets a 200 (`Report`); an admin invites a lead again for as
long as it is listed as PENDING (`InvitePending`); the owner of an account asks
for a code when the last one does not work and enters the last one that came
(`AskAgain`, `EnterCode`), sooner or later under the lower-case spelling of the
address too, since `resendOtp` knows no other (line 104 of `auth.service.ts`): an
owner who types nothing but capitals is never verified, as `CodeVerifies` shows; who asked for a deletion asks again (`DeleteFind`).
These are strong fairness where other requests may keep switching the action
off. Nothing obliges customers to pay, residents to order or anybody to edit;
failures and restarts are bounded, as liveness cannot be asked of a system that
fails forever.

## Proofs

Proved by TLAPS for every value of the constants that satisfies their
named assumptions, which TLC evaluates for its instances (`ProductAssumption`,
`OrderAssumption`, `RowAssumption`, `PayAssumption`, `VotingAssumption`,
`RequestAssumption`, `ElectionsAssumption`, `PollsAssumption`,
`AccountsAssumption`, `ContentAssumption`, `OwnerAssumption`,
`OnboardingAssumption`, `SchemaAssumption`, `SeedAssumption`, `ListsAssumption`,
`WalkAssumption`). Most say only that `None` is nothing else and what the
constants range over. `OwnerAssumption` says that photos and products are of one
shop and preferences of one user, `SchemaAssumption` which kinds of rows refer to
which and to users, both as in `schema.prisma`; `SeedAssumption`, that the
database starts with its keys intact and without orders of two shops. Neither
says how many rows of which kind there are. `PayAssumption` says that totals are
natural numbers, since a fold is a recursion the provers cannot follow.

* `OrdersTyped`, then `StatusInvariant`: the inductive invariant `StatusInv`
  adds to the checked properties what a request carries from one await to the
  next (`CarriedOK`: a cancellation was begun by the resident of its order, a
  status about to be written was asked for by an admin or the owner of the
  shop, what is about to be broadcast has been stored). Without it none of the
  properties is inductive: each speaks of the moment of the write or the
  broadcast, and the entitlement was tested earlier. `CancelWindow`,
  `NothingInvented`, `NoticesAddressed` and, as an action
  property, `StatusAuthority` follow.
* `RoomIsLedOn`: once the newest update of an order is no longer on its way, who is
  in its room was last told the stored status, or one that was on its way when the
  newest was written. Its invariant `RoomInv` says that of all updates between
  their write and their broadcast at most the newest is not overtaken and carries
  the status of the row (`UpdatesOK`), and that who left a room is told nothing
  (`MembersOnly`). How old a status the room may be left with is thereby bounded;
  it may be an old one (see the observations below).
* `CartAccepted` relates the two counts that `create` compares to sets, with
  the theorems on finite cardinalities: as many rows as ids means that no
  product is listed twice. `ReceiptInvariant` carries it through the gap to the
  insert: `ReceiptsOffered`, `ReceiptsOfOneShop`.
* `ErasureIsFinal`: every write after a deletion is stopped by a missing row or
  a foreign key.
* `PaymentsTyped`, then `MoneyInvariant`: `PayInv` says that initiations, keys
  and transactions carry the amount and the method of their order, and that a
  report about to set its key sees a paid order. It gives
  `NothingSkippedUnpaid`, `NothingPaidShort`, `CashStaysCash`, whatever ties are
  rounded up.
* `SettlementImplemented`: every step of Payments is a step of Settlement or a
  stutter under the mapping of `Ledger`.
* `PaymentsKeepOrders`, `PaymentsKeepAuthority`: `Payments` extends `Orders` and
  its webhooks write to the same rows, so what `Spec` promises does not carry over
  to `PaySafety` by itself. `PayStepSplits` says that each step is one of `Next`, a
  stutter of it, or `OnlyBilled`, which leaves of every order all but what payments
  record; both keep the two invariants of the orders. The runs check these
  properties for the orders alone.
* `ElectionsTyped`, then `ElectionInvariant`. One vote each needs no help beyond
  the guard of the insert; that acknowledged votes stay needs `AnswerIsStored`
  (a request about to be answered has its row, or its voter is gone); the seal
  needs what lies between two awaits: `CutoffIsPast`, `OpenIsDue` and
  `ViewMayShow`. They give `ElectionOneVote`, `ElectionVotesKept`,
  `ElectionSeals`.
* `ElectionsImplementBallotBox`: every step maps to a step of BallotBox or a
  stutter. The crux is `ClosedStays`: after the deadline no vote gets in, so
  that an election whose last vote in flight has ended stays closed.
* `PollsTyped`, `PollsHideCounts` (what a view carries from the count to the
  clock) and `PollResultsAgree`: its invariant relates every answer about a
  closed poll to the votes stored now, and uses `ClosedKeepsVotes` of
  `VotingProofs`: once no vote is in flight after the deadline, votes only
  leave, and with their accounts.
* `PollOneVote`, `PollVotesKept` and `PollsImplementBallotBox`: the same code over
  other tables, from the same lemmas. `VotingProofs` says that a step of Voting
  casts, erases or closes (`VotingStepImplements`), that a restart closes at most
  (`ForgettingImplements`) and that storing a ballot announces it with the choices
  it comes with (`StoringAnnounces`): none for an election, all for a poll.
* `AccountsTyped`, then one invariant per kind of secret. `CodesWorkOnce` and
  `LinksWorkOnce`: whatever was spent is no longer stored, and a code that is
  being used is not either, so that who begins later finds nothing.
  `RevokedBodyIsRefused`: `BlacklistOutlasts` compares the two readings of the
  configured expiry for every value and unit, and `RevokedStays` keeps the key of
  a revoked token in place until the token has expired by itself; it says nothing
  of the token in the header. `OnlyVerifiedHaveSessions`.
* `ContentTyped`, `WritesAreOwn`, `RemovalsLast`, `MutedNeverPushed`. The first
  needs what was tested when a statement was prepared; that shops and products
  never change owners carries it to the statement.
* `DeletionSweepsAll`: once `deleteUser` swept, nothing that is left refers to
  the account or to a swept row. The statements name tables, so this needs what
  the tables may hold, `KeysInv`: every foreign key of a stored row leads to a
  stored row or an existing user (`KeysStand`), and the order of every item is of
  the shop of its products (`ItemsOfShop`), for which `OrdersService.create`
  compares the shops. Without the second a product could be swept with its shop
  while an order of another shop keeps it. `SweepLeavesNone` then goes through the
  kinds of the swept row and of the row that refers to it.
* `OnboardingTyped` with `Carries` (what a request holds at each step, in
  particular that its lead still has the address it read). `FlatsGoToOne` and
  `RetriesAreRecognised` from `HouseInv`: leads that count are of different flats
  (`UnitsApart`, the unique index), and whoever was answered fits the lead he was
  answered with. `InvitationsWereMailed`, `LinksAreOwn`, `NeverInvitedTwice`,
  `AccountsAreOwed`, `AcceptanceIsFinal`, each with the part of an invariant that
  speaks of requests in between: a mail offers what its invitation says, since
  no other request gets an id that is being worked on (`FreeId`).
* `WalkStands`: where a walk through a list stands, for any number of rows, any
  limits and any table that changes between its pages. The invariant `WalkInv`
  says, per scheme, what the pages so far mean for the table now: of a service's
  list, that everything seen sorts before the cursor and that every row that stood
  and was neither seen nor a cursor comes after it (`ServicePosition`); of the
  builder's, whose cursor is the last row shown, that no such row comes before it
  (`BuilderPosition`); of page numbers on a table at rest, that exactly the first
  `next - 1` pages of the order have been seen (`OffsetPosition`). `PageSelected`
  adds that a page holds nothing that its query leaves out. None of the checked
  properties is inductive without it: they speak of the end of a walk or of what
  was shown, not of where the next page begins. It rests on lemmas about `FindMany`:
  ranks number the rows of a set without gaps (`RankCounts`), a slice holds exactly the rows of its ranks
  (`SliceHolds`, `SliceCounts`), so that a page of a cursor ends where the next one
  begins (`PageEnds`, `PageHolds`). `ServiceNeverRepeats`, `ServiceMissesCursors`
  with the count of what is lost, `BuilderReachesAll`, `OffsetReaches` and
  `HelpersShowAsked` follow.

Only model-checked: all liveness (that captured money is recorded, elections
close and open their results, walks end, leads settle, accounts get verified,
deletions succeed), which with ENABLED is beyond the prover. Of the properties
that imply an abstract specification, `ImplementsSettlement` and
`ImplementsBallotBox`, the safety half is proved and the liveness half
model-checked. Every invariant and every action property of a passing
run has a theorem.

## Observations without a run

Met while reading, and left to prose because no statement of the repository is
precise enough to refute or because the outcome is a matter of taste.

* `updateStatus` does not look at the old status and its DTO accepts PLACED, so
  that an order may return from CANCELLED; the guide draws a flow without it.
* Two updates of one order may be broadcast in another order than they were stored:
  the room is then left with the older status, which nothing corrects, although
  `Documentation/GUIDE.md` (lines 226-228) says that both sides receive the update
  at each change. `RoomFollows` says how old it may be.
* Two acceptances of one invitation may both find it unused, and the second writes
  the account again after the first marked it, although the guide (line 181) says
  "can't be reused".
* A refresh token may be exchanged twice at once, a link may reset a password
  twice at once, and two invitations of one address may be stored at once:
  `CodeOnce`, `LinkOnce`, `RevokedIsRefused` and `AnsweredIsFinal` speak of
  requests that begin after another was answered.
* A REJECTED lead whose flat was given to another may be sent a link, and stays
  REJECTED.
* A vote of a request in flight at the deadline counts, and counts of a poll that
  were taken just before it closed may be shown just after.
* A second captured transaction of an order that is not yet paid replaces the
  payment reference of the first when both are read before either is written.
* The public views of polls and elections never know their caller, so that
  `myVoteOptionId` and `myVoteCandidateId` are always null, although the
  `README.md` of the repository says "Poll detail + my vote".
* Anonymous feedback is masked for everybody but admins (`maskAnonymous`), while
  `APPCONTEXT.md` strips the author from the admin's response.
* `isRead=false` in a query string is read as true, as any non-empty text is.
* Tokens of one user signed in the same second are the same text; revoking one
  revokes the other.

## Not modelled

* Files and uploads: calls to a storage provider; nothing is kept.
* Configuration, logging, localised messages, generated documentation.
* `UserService.updateUser` and `ReportsService.create`: single rows nothing else
  depends on. The pages of reports are in Lists.
* Hashing, signing and encryption are libraries; of tokens their lifetimes and
  identity are modelled. Passwords are not.
* The signature test of the webhook, throttling, and the mapping of roles to
  routes, which appears as the actors that each action takes.
* Ties in the column of a list, and numeric ranges with a bound of null, which
  the query builder passes on to Prisma.
* Texts of mails and answers; which failures of a mail reach the caller is
  modelled.
