# TLA+ models of the CodeKids backend

This directory models the parts of the CodeKids backend (NestJS, Prisma, PostgreSQL) whose
correctness depends on the order in which concurrent requests, queue workers and replicas run:
lessons and money, the generation of lessons, bonuses and payouts, requests to move a lesson,
sessions and access, and the exchange of messages with Telegram in both directions. TLC checks
the models on small instances; TLAPS proves the most important properties for every instance.

Paths such as `lessons.service.ts` are files under `src/modules/` of the repository.

## 1. The system

| Component | State | Operations | Talks to |
|---|---|---|---|
| Lessons (`core/lessons/lessons.service.ts`) | `lessons`: status, price, rate, `completedAt`, `rescheduledToId` | create, generate, complete, cancel, reschedule, update, remove | balances, audit, notifier |
| Balances (`core/payments/payments.service.ts`) | `student_profiles.balance`, `payments`, `transactions` | manual top-up; lesson charge (by complete) | lessons, audit |
| Enrollments (`core/enrollments`) | tariff, teacher's rate, active flag | create, update, deactivate | lessons, templates |
| Reports (`core/lessons/reports.service.ts`) | `lesson_reports`: status, `submittedAt`, bonus, `sentToTelegram` | create, update, submit | payouts (teacher's lock), notifier |
| Payouts (`core/payouts`) | `payouts`: period, sums, status, `paidAt` | preview, calculate, calculateAll, markPaid | reports, lessons, notifier |
| Reschedule requests (`core/lessons/reschedule.service.ts`) | `reschedule_requests` | create, approve, reject, also from Telegram buttons | lessons, notifier |
| Generation and templates (`lesson-generation`, `schedule-templates`) | templates, slots, settings | cron on every replica, template edits | lessons |
| Materials | files of lessons and reports | upload, remove | notifier |
| Telegram outbox (`common/telegram`) | `telegram_notifications`: versions, lease, attempts, outcome | enqueue, claim, deliver, acknowledge, fail, cancel | every producer, Telegram API |
| Telegram bindings and inbox | chat of a user or group with `bindingVersion`, one-time link tokens, `telegram_update_inbox` | link, unlink, migrate, deactivate; persist and process updates | outbox, users |
| Users, sessions (`core/users`, `common/auth`) | roles, `isActive`, `securityVersion`, refresh tokens | update, delete, login, refresh, logout, password | bindings |
| Rate limit (`common/throttling`) | counters in PostgreSQL | increment, prune | all requests |
| Analytics, digest, audit, courses | reports in Bull; audit rows; lookup table | jobs, daily digest | database |

What they share is PostgreSQL under READ COMMITTED. Each operation is one transaction; row locks
(`FOR UPDATE`, conditional `updateMany`) and unique indexes are the only coordination. Producers
write messages into the outbox inside their own transaction, the workers of every replica deliver
them outside any transaction.

What is hard, and what makes each part correct:

- *Lessons and balances.* Reads before locks, balances computed in JavaScript, five operations
  racing for one lesson, locks taken in different orders. Correct when the ledger explains the
  balance, a charge stands for exactly one completed lesson at its stored price, decisions stand,
  links between lessons stay whole, and every request ends.
- *Reports and payouts.* A bonus is decided by one request and summed by another. Correct when
  periods of a teacher never overlap, a payout contains exactly the bonuses its lessons have, a
  bonus is never cut off, and what was previewed is what is saved.
- *Outbox.* Texts are edited while they are sent, workers crash or outlive their lease, chats are
  unlinked in the middle. Correct when a delivered row shows the latest text, no chat goes back to
  an older one, closed bindings have no open rows, a row settles, and a report counts as sent only
  with all of its parts.
- *Reschedule requests.* What was read before the transaction authorises a decision inside it;
  several requests, staff and removal meet in one lesson. Correct when an approval and its change
  of the lesson are one and happen once, resolutions are final, no request outlives its lesson,
  nobody decides their own, and locking requests before lessons leaves no deadlock over the two but
  that of two removals of one lesson.
- *Bindings and inbox.* A link is read before anyone knows whose row to lock; updates are handled
  again, late, twice, or half. Correct when a link binds once and only an owner whose chat did not
  change since, nobody without access has a chat or a link, an update that counts as processed
  has had its whole effect, and none is left that nobody will pick up.
- *Users and sessions.* Passwords are compared and tokens are looked up before the account is
  locked; a PATCH decides what has changed from what it read before its lock. Correct when no
  session outlives the credentials or rights it was granted for, a login is continued by one token
  at a time, and the guard admits only who knew the present credentials.
- *Generation and templates.* Every replica runs the cron; templates are read without a lock, and
  enrollments close, lessons move and templates are edited meanwhile. Correct when nothing is
  created under an enrollment that is not active, and a generation leaves every lesson it planned,
  once.

## 2. Modules

| Module | Models |
|---|---|
| `LessonData` | rows of lessons, enrollments, balances, ledger; shared by the next two |
| `LessonBook` | abstract: every operation on lessons and money takes effect at one instant |
| `LessonLedger` | the same operations as transactions of several statements over row locks |
| `MCLessonLedger` | instances |
| `LessonLedgerProofs` | invariants of `LessonLedger`, and that it implements `LessonBook` |
| `Payouts` / `MCPayouts` / `PayoutsProofs` | completion, reports, bonuses, payouts over the teacher's lock and a clock |
| `RescheduleRequests` / `MCRescheduleRequests` / `RescheduleProofs` | requests to move or cancel a lesson, and the staff's operations they race with, over row locks |
| `TelegramNotices` | abstract: what was asked for, what the chats show, what is reported as delivered |
| `TelegramOutbox` / `MCTelegramOutbox` / `TelegramOutboxProofs` | outbox rows, workers, leases, bindings as far as the outbox sees them, the report's sent flag |
| `TelegramBinding` / `MCTelegramBinding` / `TelegramBindingProofs` | which chat a user or group has: links, unlinking, accounts, and the inbox whose handlers change it |
| `AuthSessions` / `MCAuthSessions` / `AuthSessionsProofs` | one account: refresh tokens, access tokens, `securityVersion`, over the account's row lock |
| `LessonGeneration` / `MCLessonGeneration` / `LessonGenerationProofs` | creation of lessons, by hand and by replicas of the cron, beside edits of templates and enrollments |
| `FiniteSums` | lemmas on sums over finite sets, for the proofs about the ledger and payouts |

The modules meet in what they share of the database. `LessonLedger` has the life of a lesson,
`LessonGeneration` its creation, `RescheduleRequests` the requests about it, `Payouts` the sums
over it; each keeps of a lesson what its properties need. `TelegramBinding` has the chats and links,
`TelegramOutbox` the messages, with every binding change reduced to a new version; `AuthSessions`
and `TelegramBinding` each have their half of a PATCH or a deletion of an account, which one
transaction makes in the code.

### LessonLedger

`lesson`, `tariff`, `balance`, `paid` and `ledger` are the committed tables. A request has a
program point `pc`, what it was asked and has read (`req`), and the rows it has locked (`held`,
`shared`). One action is one SQL statement:

| Code | Actions |
|---|---|
| `complete` | `BeginComplete` (first read), `LockTeacher`, `LockStudent`, `ReadLesson` (price), `TakeLesson` (conditional update), `ReadBalance`, `CommitComplete` |
| `cancel`, `update` | `BeginLessonOp`, `TakeLesson`, `CommitCancel` / `CommitUpdate` |
| `reschedule` | `TakeLesson`, `ShareTeacher`, `ShareStudent` (foreign keys of the insert), `CommitReschedule` |
| `remove` | `TakeLesson`, `Unlink`, `CommitRemove` |
| `PaymentsService.create` | `BeginTopUp`, `LockStudent`, `ReadBalance`, `CommitTopUp` |
| enrollment update | `SetTariff` |
| 4xx answers; crashes, lost connections, failing audit rows | `Reject`; `Fail` |
| deadlock detector | `DeadlockVictim` |

A transaction's writes appear in its commit step, because nobody reads them earlier under READ
COMMITTED; its locks are held until then. `TakeLesson` waits for the row and evaluates its status
afterwards, as an UPDATE does. Teacher's rates, dates, meeting links and notifications are left
out: the code does not decide anything modelled here by them. Money is an integer number of the
smallest unit; `MaxBalance` is the range of `Decimal(12,2)` in both directions.

### Payouts

`holder[t]` is the request that has locked teacher t's profile, `now` a clock that may advance
between any two steps. `complete`, `submit`, `preview` and `calculate` are lock, read, commit;
`calculateAll` runs `calculate` for one teacher after another and goes on after a conflict;
`markPaid` (`BeginPay`, `Pay`) takes no lock of the teacher; `Abort` is a failure at any point
(a bulk run stops there, and may be repeated). A preview token is modelled by the amounts it is a
hash of. `MoveLesson` and `UpdateReport` are single steps that respect the row their commit would
wait for. `GrowWindow` is a restart with a longer `BONUS_WINDOW_HOURS`, when no request runs.

### RescheduleRequests

Same conventions as `LessonLedger`, over rows of requests, lessons and users.

| Code | Actions |
|---|---|
| `createRequest` | `BeginCreate`, `TakeLesson`, `ShareActor` (foreign keys of the insert), `LockUser`, `CommitCreate` |
| `approve`, `reject` | `BeginResolve` (`findForResolve`, before the transaction) or `PressButton` (`findTelegramActor`), `CloseRequest`, `ShareActor`, `TakeLesson` (approve), `LockUser`, `CommitCancel` / `CommitReschedule` / `CommitReject` |
| `remove` of a lesson | `ListRequests` and `DeleteRequest` (one DELETE: what it sees, then row by row, in any order), `TakeLesson`, `CommitRemove`, which the foreign key refuses when a request came in between; if another removal is deleting that request the check waits for it (`Disappearing`) |
| `cancel`, `reschedule`, `complete` | `BeginStaffOp`, `TakeLesson`, `LockUser`, commit |

`LockUser` is the first statement of `enqueue`, for the message to the student's group. What the
lesson operations do beyond the lesson's status (prices, profiles' locks, links to replacements)
is in `LessonLedger` and left out here, and so is `update`, which changes nothing this module has
and locks as `cancel` does. Who is staff does not change during a call.

### TelegramOutbox

A row's key is its event and the version of the binding it was written under, as `eventKey` is.
Texts are numbers: `desired` counts the different texts asked for. `shown` is what the chats hold,
which no part of the code can see. A worker is `ClaimRow` (with the sweep of abandoned rows that
precedes it), `Resolve`, `CheckSubject` (reminders and materials), a call to Telegram
(`SendSucceeds`, `AnswerLost`, `SendFails`), and then `Acknowledge`, `RecordFailure` and perhaps
`DeactivateRecipient`, or `CancelLease`. `Crash` ends a worker at any point. Enqueueing and
binding changes are one step each: both hold the row of the user (`lockUser`) from their first
read to their commit. Producers are `Announce` (every notification but a report's),
`SubmitReport`, and `UpdateReport`, which queues nothing.

`Timely` says whether leases outlive the deliveries they cover unless the worker dies. The lease is
five minutes (`OUTBOX_LEASE_MS`) and a call to Telegram is given up after 40 seconds
(`API_TIMEOUT_SECONDS`), but nothing in the code refreshes or checks a lease before a call; so
`ShowsLatest` and `ImplementsNotices`, which need it, are checked with `Timely`, and the others also
without it. A call
that reaches Telegram after the client gave up is not modelled separately from `AnswerLost`.

`TelegramNotices` is what a producer may rely on, without rows, leases, attempts and workers: texts
are asked for under bindings that have not ended, each arrives as a message or in place of an older
text, never after a newer one, and a notice is reported as delivered only while its binding lasts
and its chat shows the text asked for last. A text on its way when the binding ends may still arrive,
as it does in the code; it is not reported. `Notices` is the mapping: `desired` and `delivered` of
each row, the texts of its messages, and the keys whose binding has ended (`Over`). A variant of
`Claimable` that ignores leases lets an older text arrive after a newer one and breaks it.

### TelegramBinding

An owner is a user's private chat (`users.telegramChatId`) or a student's group
(`telegram_groups`), with its `bindingVersion`. Group rows begin at version 1, so version 0 is the
row that does not exist yet.

| Code | Actions |
|---|---|
| `createGroupLink`, `createUserLink` | `CreateLink`, which notes the owner's version |
| `unlinkGroup`, `unlinkUser`; `deactivateRecipient` | `Unlink`; `DeactivateRecipient` |
| `UsersService.update`, `delete` | `UpdateUser`, `DeleteUser` |
| `persistUpdate` | `PersistUpdate` |
| `claimInboxBatch` | `ClaimUpdate`, `SweepOnly`: updates whose last attempt did not end are given up first |
| `onStart` | `ReadLink` before the lock, then `BindChat` or `RefuseLink` under it; a refusal is answered after the transaction (`Reply`) |
| `deactivateChat`, `migrateChat` | `ReadOwners`, then `ChangeOwner` for one owner per transaction, groups first, and `OwnersDone` |
| `processInboxRow` | `RecordProcessed`, `RecordFailure`, both only with the lease; `HandlerFails` |
| a process that dies | `Crash` |

Transactions are one step: they hold the row of the user from their first read to their commit.
Time is not kept: a link may have expired whenever it is looked at, a lease whenever somebody
claims, under a dead worker or a slow one, and a retry may be due at once; so two workers may have
one update in hand. `fresh` and `watch` are history for the properties, and no guard reads them.
That a group does not migrate to itself is assumed of Telegram.

### AuthSessions

| Code | Actions |
|---|---|
| `login` | `BeginLogin` (password compared), `LockUser` (`FOR UPDATE` and the read after it), `CommitLogin` |
| `refresh` | `BeginRefresh`, `LockUser`, `CommitRefresh`, which must find the token it deletes; `RefreshExpired` |
| `changePassword` | `BeginChangePassword`, past the guard; `LockUser`, `CommitChangePassword` |
| `UsersService.update` | `BeginUpdate` (read without a lock), `LockUser` (its UPDATE waits), `CommitUpdate` |
| `logout`, a token's expiry | `Logout`, `Expire`, without a lock |
| account created and deleted | `CreateUser`, `DeleteUser` |
| `JwtAuthGuard.canActivate` | `Accepted` |
| 401, 404, errors | `Fail` |

A session knows what was shown at the login or change of password it descends from (`knows`), and a
token belongs to the login it continues (`family`). Access tokens are kept for ever in `issued`:
the guard must do without their expiry. Roles of the staff are one right.

### LessonGeneration

| Code | Actions |
|---|---|
| `runScheduled`, `LessonsService.generate` | `RunScheduled` or `BeginGenerate`, `ReadTemplates`, `ShareEnrollments` (`FOR SHARE`), `ReadExisting`, `CreateMany` (`skipDuplicates`) |
| `LessonsService.create` | `BeginCreateLesson`, `ShareEnrollment`, `CreateLesson` |
| `ScheduleTemplatesService.create` | `BeginCreateTemplate`, `ShareEnrollment`, `CreateTemplate` |
| `ScheduleTemplatesService.update` | `UpdateTemplate` without slots; `DeleteSlots` and `CreateSlots` with them |
| `ScheduleTemplatesService.deactivate` | `DeactivateSlots` (what its first UPDATE sees), then `DeactivateTemplate`, which waits for a PATCH that holds the template's row |
| `EnrollmentsService.create`, `update` | `CreateEnrollment`, `UpdateEnrollment`, which waits for those who hold the row |
| `updateSettings` | `UpdateSettings` |
| cancel, PATCH of the date, reschedule, remove | `Cancel`, `Move`, `Reschedule`, `Remove`, as far as they move a lesson in time |

Days of the week, times and zones are one function, `DueAt`: the instants at which a slot falls due.
`Occupied` is what the unique index over template and time sees, canceled lessons included.

## 3. What is checked

| Run | Instance | Properties | Result |
|---|---|---|---|
| `LessonLedger` | 2 lessons of 2 teachers, 1 student, 2 requests, 2 ledger entries before the last top-up | `TypeOK`, `LedgerChain`, `ChargedOnce`, `MoneyConserved` | holds, 341 k states |
| `LessonSteps` | 1 lesson and 2 ids for its replacements, 2 requests, 1 entry, fairness | `RescheduleLinks`, `DecisionsStand`, `ImplementsBook`, `RequestsEnd` | holds, 189 k states |
| `OutboxDelivery` | a reminder, 2 workers, 2 texts, 2 attempts, 2 bindings, timely, fairness | `ShowsLatest`, `OldBindingsClosed`, `RowsSettle`, `ImplementsNotices` | holds, 967 k states |
| `OutboxReport` | a report of 2 parts, 2 workers, 2 texts, slow workers | `SentMeansAllParts`, `WasShown` | holds, 207 k states |
| `OutboxEdit` | 1 event, 1 worker, 2 texts | `FailedTextWasTried` | **violated**, see findings |
| `Payouts` | 1 lesson, 3 overlapping periods, windows 1 and 2, times 0..3, 2 requests | `TypeOK`, `PayoutsDisjoint`, `BonusesPaid`, `BonusWindowsClosed`, `SavesWhatWasShown`, `PayoutsFinal` | holds, 971 k states |
| `PayoutsLate` | 1 lesson, 1 period, 1 request | `RatesPaid` | **violated**, see findings |
| `Reschedule` | a lesson and its replacement, 2 requests, 2 calls, a shared Telegram account | `TypeOK`, `ApprovedOnce`, `RequestsHaveLessons`, `ResolutionsStand`, `DecidedByOtherSide`, `OnlyRemovalsDeadlock` | holds, 1.8 M states |
| `Sessions` | 1 account, 2 passwords, 2 requests, 3 tokens, a PATCH of every kind, `securityVersion` to 2 | `TypeOK`, `SessionsKnowCredentials`, `TokensCurrent`, `OneTokenPerLogin`, `GuardKnowsCredentials`, `ChangeEndsSessions` | holds, 1.6 M states |
| `SessionsDeactivation` | as `Sessions`, 3 requests, PATCHes of `isActive` | `InactiveHasNoSession` | **violated**, see findings |
| `Bindings` | 2 students with a group and a private chat each, 3 chats, 1 link, 2 updates, 2 workers, 2 attempts | `TypeOK`, `NoAccessNoChat`, `ProcessedMeansDone`, `NoUpdateStuck`, `FreshLinkOnly` | holds, 1.9 M states |
| `Generation` | a slot that falls due twice, 2 lessons, 2 requests, 3 slot edits | `TypeOK`, `CreatedWhileEnrolled`, `GenerationIsComplete` | holds, 1.2 M states |

*Why these bounds.* Every race in this code is between two transactions, because each pair of
operations meets in one locked row; two requests reach every pair of program points. In
`Reschedule` two calls reach every circle of two; of more calls `DeskDeadlocksAreRemovals` speaks
(section 4). Two lessons with different teachers contend for the student's row alone, as two teachers of one
student do; a third id lets a replacement be replaced or removed while its origin is. Two texts,
two attempts and two bindings are the smallest numbers with "the newer while the older is on its
way", "the last attempt" and "the previous binding". Three tokens are a login's, its
successor, and one of another login; two passwords are the old and the new one. In `Bindings` two
students want one private chat and one group, and one update has its last attempt left from the
start, so that giving it up meets the handling of the other. Two slots of time and two lessons are
the fewest with a lesson that moves onto one that is planned. Three periods contain neighbours and
overlaps; times up to 3 let both windows close.

`CHECK_DEADLOCK FALSE` is used where the bounds exhaust what can happen (all texts asked for, all
bindings, tokens or slot edits used, time at its end). The lesson runs check deadlock: a lock cycle
nobody breaks would show there as well.

*Fairness.* `LessonSteps`: strong fairness of each request's statements, because PostgreSQL queues
lock waiters and grants in order, so a statement enabled again and again is not passed over for
ever; weak fairness of the deadlock detector. No fairness for arrivals or failures.
`OutboxDelivery`: weak fairness of claiming and of a worker's steps (`flush` runs every five
seconds, a call ends with an answer or the client's timeout), and of the two kinds of waiting time.
`Crash` may always interfere; rows settle because each claim uses up an attempt. Producers need no
fairness. The other runs check safety alone.

### Findings

1. `recordDeliveryFailure` (`telegram.service.ts:1056`) matches the lease but not the text's
   version. When text 2 is stored while text 1 is being sent and that send fails for good, or was
   the last attempt, the row is closed although `enqueue` had just reopened it with fresh
   attempts: text 2 is never tried. `acknowledgeDelivery` makes the distinction that is missing
   here. The integration test of an edit during the first send covers a send that succeeds.
2. A lesson completed after the payout of its period was stored is paid for in no payout: the
   calculation takes lessons completed by then, and the overlap rule excludes the period for ever.
   `prisma/payment.prisma` calls `basePay` the sum for the lessons of the period. Bonuses do not
   have this gap: `BonusesPaid` holds.
3. `UsersService.update` (`users.service.ts:463`) decides whether access has changed from what it
   read before its lock. A PATCH to `isActive: false` that found the account inactive, while another
   PATCH activates it and a login follows, commits as no change: the account is inactive, with a
   refresh token and the old `securityVersion`. The repository's README says that a change of
   access revokes the sessions in the same transaction. As long as the account is inactive the
   guard and `refresh` refuse the token; an activation that reads it as active already would let
   the session go on. Changes of credentials or roles do not have this gap, because such a PATCH
   always counts as one: `ChangeEndsSessions` holds.

Behaviour worth knowing that no document contradicts: an acknowledgement that arrives after a
report became a draft again marks it as sent; an identical text enqueued for a canceled or failed
row does not revive it, so an unchanged report that is resubmitted keeps `sentToTelegram` false;
a message already in flight when its chat is unlinked reaches the old chat. A student's creation of
one request and decision of another on the same lesson may deadlock: each holds the student's user
row in shared mode (foreign key) when it wants to lock it, or the lesson the other holds; the
database rolls one back. Two removals of one lesson may deadlock over its requests and the lesson:
when each meets the requests in another order, or when a request is created after the DELETE of the
first, which has taken the lesson then, and the second deletes it: the first one's foreign key waits
for the request, the second for the lesson. A request stays pending when staff decide its lesson; it
can then only be rejected. An approval that read the lesson before a PATCH of its date announces the old date.

Of bindings: a removal of the bot that is handled late, or again, drops also a binding that the same
chat got in between, because updates carry no version. Of sessions: a logout that races with an
exchange of its token leaves the token's successor. Of generation: a template that is switched off
and on again keeps its slots switched off; two PATCHes of a template's slots at once keep the
slots of both; a canceled lesson's time is never generated again, because the unique index counts
it while the search for existing lessons does not, and the time a lesson was moved away from is
generated again.

## 4. What is proved

`tlapm` checks eight modules. Each argues from an inductive invariant, because the properties
themselves are not inductive: they say nothing of what requests have read and hold.

**`LessonLedgerProofs`** (assumption: `DataAssumption`). `IInv` says, beside types and the chain
of entries, which rows a request holds at each program point, that no two requests hold one row,
that a held lesson still has a status its operation accepts, and that a balance that was read
equals the committed one as long as the student's row is held.
`TypeCorrect`, `LedgerExplainsBalance` and `LessonDecisionsStand` follow. `LedgerImplementsBook`
shows each commit step to be a `LessonBook` step and every other step a stutter; it needs one fact
more, that the student found before the lesson was locked is still the lesson's
(`ParticipantsOK`). What the ledger and the links promise is then proved of the book, where a
request is one step: `BookInv` adds to both that only a charge names a lesson, and
`LessonsAreChargedOnce` and `LinksLeadToReplacements` carry over to every interleaving.
`MoneyInv` adds that a student's completed lessons are finitely many and have a price; their cost
is a sum over that set, which a completion enlarges by one lesson and no other step touches, so
`MoneyIsConserved`.

**`TelegramOutboxProofs`** (`OutboxAssumption`, either value of `Timely`). `OInv`: a leased row is
open, no more is delivered than asked for, and an open row was written under the present binding.
The second half is `OldBindingsAreClosed`; it is inductive only with the others, since a worker
writes to a row it may have lost.

Its second part argues about what recipients see. `StepEffect` lists what a step may do to a
row, a worker, a chat and a report; every action is shown to keep to it, and the rest argues from
it alone. `SInv`: rows and claims point to messages that exist, and a text about to be acknowledged
has been in the message that will be stored. `DeliveredTextsWereShown` and
`SentReportsAreComplete` hold however slow workers are. `LatestTextIsShown` assumes `Timely`:
`TInv` then says that a working worker's claim is in force unless its row was closed with its
binding (`ClaimsInForce`), so nobody edits a message after a newer text. Without `Timely` a worker
whose lease ran out may overwrite a newer text; that is why the assumption is there.
`OutboxImplementsNotices` assumes `Timely` too. `NInv`: a row is worked on by one worker at a time,
also after it was closed under that worker (`OneAtATime`), and nothing newer is shown than the text
a worker is about to send (`NothingNewer`). Then producers' steps ask, a text that arrives is the
newest, an acknowledgement reports what `AcksShow` says is shown, and every other step does nothing
but end bindings, which stay ended. `OutboxTypeCorrect` adds the bounds and the types of all
variables, for either value of `Timely`.

**`PayoutsProofs`** (`PayoutAssumption`). `PInv`: a request that has read and not committed holds
its teacher's profile, and then the period it found free is still free and the amounts it matched
against the token are those it will store. `PayoutsAreDisjoint`, `StoredPayoutsAreFinal` and
`SavedPayoutsWereShown` follow. `WInv` adds that the bonus windows
`calculate` found closed stay closed until it stores the payout: time only passes, the window does
not grow while requests run, and a lesson of the teacher is completed under the same lock.
`BonusesAreNotCutOff` follows. `BInv` gives the amounts their types: completed lessons are finitely
many and were completed in the past, the sums a request has formed are those of its period's lessons
now, and a stored payout's bonus is that of its period's lessons. A bonus awarded later would have
to fall into a window that was found closed, which is `BonusesArePaid`; `PayoutsTypeCorrect` follows
as well, since a sum of natural numbers over a finite set is one. `PayoutAssumption` says, beside
the types of the constants, that `None` is no teacher, lesson, period, request or time: the code's
`null` is none of them.

**`RescheduleProofs`** (`RequestAssumption`). `RInv`: locks are exclusive, a call past `CloseRequest`
holds its request, still pending, and one past `TakeLesson` holds its lesson, still in an accepted
status; and what `findForResolve` read stays true of the row as long as it exists, because nobody
rewrites who asked for what. Then every commit is harmless to whatever the other calls rely on, and
`ApprovalsHappenOnce`, `RequestsKeepTheirLessons`, `ResolutionsAreFinal` and `OthersDecide` follow.
`DeskDeadlocksAreRemovals` needs besides what a call holds while it waits (`DInv`): a call with a
lesson waits for users, or is a removal whose foreign key waits for a request of that lesson which
another removal deletes; a call with a request is its decision, which waits for that request's
lesson, or a removal of that lesson. So in a set of calls that wait for one another over requests
and lessons, whoever waits for a lesson waits for a removal at its foreign key, which waits for a
second one; and whoever waits for a request waits for a removal of its lesson, or for a decision,
which waits for the lesson. The argument fixes neither the number of calls nor the order in which a
DELETE meets its rows. Waits for users are outside of it, as in the property, and so is the
statement of `remove` that clears the link in the replaced lesson, which is in `LessonLedger`; who
waits there is left to the detector (`RequestsEnd`).

**`AuthSessionsProofs`** (`SessionsAssumption`). `IInv`: what a request read under the lock still is
so (`LockOK`; a PATCH has read nothing there), a stored token is of the account as it is and alone
in its family, which began with a token that was issued (`TokensGood`), and no access token is
newer than the account, or of other credentials when it is as new (`IssuedGood`). The last part is
what makes a raised `securityVersion` enough for the guard. All six properties of the run are
proved.

**`TelegramBindingProofs`** (`BindingAssumption`). `BInv`: a link is never ahead of its owner's
binding, and one that is level with it was issued since the binding last changed (`LinksOK`); who is
watched for an update has its chat still (`UpdatesOK`); a worker's copy of a link is the link, or
the link is gone, whoever is watched is on its worker's list, and at the end nobody is (`JobsOK`).
Every step is reduced to what it may do to links, bindings and updates (`LinkMoves`,
`BindingMoves`, `InboxMoves`), and one lemma, `StepKeepsAll`, serves all actions. All five
properties of the run are proved.

**`LessonGenerationProofs`** (`GenerationAssumption`). `GInv`: no two lessons of a template have one
time (`UniqueKeys`, which the index enforces and every operation must respect), and a request
creates only under enrollments it holds and inserts whatever it planned that is not there already,
unless it was taken away meanwhile (`RequestsOK`). `CreatedWhileEnrolled` and
`GenerationIsComplete` are then about the commit step alone, whether it inserts anything or, as
after the early returns of `generate`, nothing.

**`FiniteSums`** has no state: `MapThenSumSet` of the community modules, which takes elements by
`CHOOSE`, has a value on every finite set, and an element added or removed adds or takes away its
own summand whichever others there are. Induction over a finite set is done as the search for a
smallest counterexample (`SmallestSubset`), because the library's induction theorems take a
predicate as a parameter. The proofs about the ledger and the payouts rest on it.

So every safety property of the runs that pass is proved for all values of the constants. Only
model-checked are the two liveness properties, `RequestsEnd` and `RowsSettle`, because liveness
under fairness is beyond the prover; and the three that fail (section 3), which have nothing to
prove.

## 5. Not modelled

- The rate limit (`postgres-throttler.storage.ts`): a request counts by one upsert, which the row
  makes atomic on all replicas, and pruning is one DELETE that skips blocked rows. No interleaving
  is left; what remains is arithmetic of one statement on the database's clock.
- Analytics only reads; its jobs are kept and run by Bull, and the code adds one race of two reads:
  `getJobStatus` asks for the state after it fetched the job, so a job that completes in between is
  answered as completed without its summary, until the next poll.
- The digest is a producer like any other; materials are single transactions,
  and that one may vanish while it is delivered is `ChangeSubject` of `TelegramOutbox`; courses are a
  lookup table; audit rows are written with the operation or fail with it (`Fail`); validation,
  pagination, health checks and bootstrap keep no state.
- Of users: names, contacts, avatars, searches, and the profiles' other fields.
- Clocks, except in `Payouts`, where deadlines matter: elsewhere a lease, link, token or retry may
  expire or be due at any step, which includes what a clock would allow.
- Wording, formatting, roles of callers and everything the controllers check before a service is
  called. Signatures of tokens and hashes are perfect.
- Commands and buttons of the bot that change nothing but the answer; the buttons that decide a
  request are in `RescheduleRequests`.

## 6. Plan

Every component whose correctness depends on the order of steps has its module, every safety
property of the runs is proved, and lessons and outbox implement abstract specifications. What is
left: specifications of the sessions and of the request desk in which each operation takes effect
at one instant, as in `LessonBook`, for `AuthSessions` and `RescheduleRequests` to implement.

## 7. Running

`tlc -config <run>.cfg <module>` for each run of `PROJECT.json`, `tlapm <module>Proofs.tla` for the
proofs. Definitions marked "Faulty variant" are plausible bugs of the definition that follows
them; each property is known to fail when one of them takes its place (`mutants` in
`PROJECT.json`).
