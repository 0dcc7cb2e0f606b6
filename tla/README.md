# Portal Pusula: verification

TLA+ models of Portal Pusula: its server side and the screens that write to it,
checked with TLC on small instances and, for the results of section 6, proved with
TLAPS for every value of the constants. Paths are relative to the repository;
`PROJECT.json` maps every definition to the lines it stands for.

## 1. The system

Portal Pusula is a Next.js application over one MySQL (MariaDB) database, run as
web processes on shared hosting with no background worker: an external scheduler
calls a cron endpoint. Every write is a service function that runs one READ
COMMITTED transaction (`platform/jobs/mysql-transaction.ts`), reads its rows with
`FOR UPDATE`, relies on unique keys for idempotency and on `version` columns for
edits, and appends an audit record in the same transaction. Screens keep lists they
have read and forms with an operation key, and send requests that may be lost.

| Component | State it keeps | Operations | What makes it correct | Modelled in |
|---|---|---|---|---|
| Job engine (`platform/jobs`) | `scheduled_job`, `job_run`; a dispatcher's batch | enqueue, claim with reclaim and sweep, run, fail | one effect per job, attempts bounded, history agrees with rows, leases respected, every job settles | `JobContract`, `JobEngine` |
| Outbox and e-mail (`platform/outbox`, `platform/email`) | `outbox_event`; the provider's messages | enqueue, claim, look up recipient, send, complete, fail | no request uncounted, one holder, every event settles | `OutboxDelivery` |
| Cron endpoint (`platform/cron`) | `cron_dispatch_gate`, the advisory lock | permit, lock, stages, deadline | permits spaced, one dispatcher, honest answers, lock freed | `CronDispatch` |
| Receivables and account ledger (`features/finance`) | `receivable`, `receivable_collection`, `finance_account`, `finance_transaction`, `finance_ledger_entry` | collect, reverse, void, post, reverse a movement, switch an account | nothing over-collected, ledger and collections agree, success means recorded | `FinanceLedger` (partly) |
| Spending and cards (`features/finance`) | `expense`, `credit_card`, its instalments and their payments | create, edit, void, pay one or a month's instalments, reopen | movements and records agree, plans add up, nothing overpaid, history kept | `Spending` (partly) |
| Login throttle (`platform/auth/login-throttle.ts`) | `login_attempt_throttle` | look for a block, count, clear, purge | failures counted in all buckets, blocks honoured, rows stay valid | `LoginThrottle` |
| Accounts and sessions (`features/account`, `platform/auth`) | `user_account`, session versions | log in, begin the first account, change a password, manage members | a session proves the present password, changes end sessions, one active owner | `Accounts` (partly) |
| Customers, projects, tasks (`features/customers`, `projects`, `tasks`, `lifecycle`) | rows, links, archived instants, series of tasks | create, edit, link, archive, restore, complete | no open work on what is not in use, one successor per task | `Portfolio` |
| ByPusula intake (`features/bypusula`) | the analysis, its mapping, approval and step links | deliver, approve, map, import, advance | one mapping, a step becomes one task | `Transfer` |
| Contracts and visits (`features/contracts`, `finance/service.ts`) | contracts, visits, work done on them, receivables | change terms, archive, replace a month's plan, visit, bill | periods apart, visits inside, final visits final, a bill as contracted | `Contracts` |
| Taxes, partnership, recurring plans, categories (`features/finance`, `partnership-finance`) | their tables and `partnership_contribution_receipt` | create by operation key, edit, receive, reverse, realise | one record per key and slot, receipts add up, realised once and as seen | `Dues` |
| Reports (`features/finance`, `features/today`) | none | cash flow, project report, receivables page, digest | they reconcile, count everything once, and agree | `Reports` (partly) |
| Screens (`components`) | lists, forms, operation keys, requests under way | read, open, type, send, retry, act on a row | a retry creates once, nothing overwritten unseen, what was saved stays shown | `Workspaces` (partly) |
| Routes, audit trail, digest e-mails | | | | partly, in the modules above |
| Daily plan and task reports, notification settings, MySQL platform, configuration, scripts | | | | no (section 7) |

How they interact: the cron endpoint calls the digest, the job engine and the
outbox in this order, under its lock; a job handler writes its rows, its audit
record and an outbox event in its own transaction; routes that write an event also
dispatch that one event after the response (`immediate-dispatch.ts`), outside the
cron lock, so two dispatchers of the outbox do meet; collections and payments post
account movements by calling the account service inside their transaction; login
runs the throttle around the password check; imports of analyses create tasks;
archiving a project looks for contracts and tasks without locking them; reports read
what all of these commit; screens send all of it, perhaps twice.

What is hard here: transactions of several processes interleaved at their row
locks; rows that do not exist yet and so cannot be locked; clocks read before
waiting for a lock; checks made without a lock; leases that expire while their
holder works on; commits whose answer is lost; requests sent twice at once;
deadlines that answer the caller while the work goes on; answers and lists that come
in another order than they were asked for; processes that stop anywhere.
`PROJECT.json` lists each as a hazard at its line, with the properties aimed at it.

## 2. The plan, and where it stands

1. Job engine and its contract, outbox, cron endpoint: done, proved but for liveness.
2. Receivables and account ledger, login throttle: done; the ledger without creating
   receivables and accounts.
3. Spending: done and proved; without creating cards and calendar dates.
4. Taxes, partnership, recurring plans, categories (`Dues`): done and proved.
5. Accounts on top of the throttle; customers, projects and tasks with the intake and
   the contracts on top of them: done and proved.
6. Reports and screens: done to the extent section 7 says, and proved.
7. Left: the digest's row per day and recipient, project reports by month, transfers
   between accounts.

Modules use no RECURSIVE operator; sums are folds of the community modules.

## 3. The modules

`Accounts` extends `LoginThrottle`; `Transfer` and `Contracts` extend `Portfolio`;
`JobEngine` implements `JobContract` by a refinement mapping. The `MC...` modules only
add values of constants, scenes and symmetry sets. A **scene** is a set of the things
that are asked for in a behaviour; every behaviour has one scene, so a run explores
several small worlds instead of their product.

**JobContract** says what enqueueing a job promises, without workers, leases or
clocks: attempts are bounded by the grant, the effect is committed in the step that
finishes the job, a job is buried only when its attempts are used up.

**JobEngine** has one action per transaction of `repository.ts`: `Enqueue`,
`ClaimTxn` (the claim, the reclaim of expired leases and the sweep of exhausted
ones, ordered by due instant and id), `RunJob`, `RecordFailure`; and around them the
dispatcher: `Start` reads the clock, `ClaimDeadlock` is a rolled back claim (three
tries), `RunCommitLost` a commit without an answer, `RunFails` a handler's error,
`Stop` a deadline or a crash. `job` is the row, `run` its history by attempt,
`effects` counts committed handler writes, `batch` the claims still to be run. Jobs
claimed in a batch and dropped with it by a deadline cost an attempt each, as in the
code. Lease tokens are `<<counter, job>>` in place of UUIDs. Instants saturate at
`Horizon`: once there, every lease and delay counts as elapsed, which only adds
behaviours.

**OutboxDelivery** follows the same rows through `outbox/repository.ts` and the
e-mail adapter. Sending is outside any transaction and takes several steps:
recipient look-up (`FindRecipient`), the request and its answer, which may be lost,
`Complete` or `RecordFailure` under the lease. `Configure` and `ChangeRecipient`
change the settings meanwhile. `Crons` are the endpoint's dispatchers, `Requests`
those that follow a write and take one event. The provider is external: one message
per idempotency key. With e-mail switched off, or a recipient who is no longer active,
the adapter returns normally (`resend-adapter.ts:92`, `:96`) and the event is finalised
as delivered, as the model has it; `docs/platform-jobs.md:68` speaks of passing it to
the target only.

**CronDispatch** follows one call from the gate (`ReadClock`, `Insert` and
`Duplicate` for the race for the first row, `Update`, `Suppress`, `GateAhead`,
`GateFails` with an unknown commit) through the advisory lock and the three stages to
its answer. `Deadline` answers 503 and raises the signal only; `LoseConnection`,
`ServerFrees` and `Crash` take the lock away at any moment. The loser of the race for
the first row, whose clock is behind the winner's, is answered 503
(`cron-dispatch-gate-repository.ts:232`, `:269`) where `docs/platform-jobs.md:93` says
suppressed; nothing is dispatched either way.

**FinanceLedger** splits every request into the database steps at which another
transaction can come between: look up the operation key, lock the collection to
reverse, lock the receivable, look again, look for the movement, lock the accounts,
insert the movement, insert the collection, commit. `held` are its row locks, `adds`
what it has written and nobody sees before `Commit`. A locking read of a missing row
locks nothing; an insert locks its unique keys. `Fail` rolls back at any step, and a
commit's answer may be lost. The tables are functions of the client's operation key,
which is unique in both. The receivable's sum is read once its row is locked (the
correlated subquery of `findReceivableForUpdate` is evaluated after the row is
fetched); this is an assumption about the server, and `NeverOvercollected` rests on
it. A collection of before migration 0023 has no movement; a run begins with one of an
amount of `Legacy`, where 0 is none.

**Spending** holds a transaction's locks and lets every step that waits for
one be an action: the look for the operation key, the expense, its plan, the
instalment, the card and its due instalments, the paying account. The last action
(`CreateExpense`, `UpdateExpense`, `VoidExpense`, `PayInstallment`,
`ReopenInstallment`, `BulkPay`) does all the writes at once and commits: they touch
new rows and rows it has locked, so nobody can come between; the answer may be lost.
What was paid on an instalment is a sum over another table, which the locking
statement may compute before it waits: `seen` is that sum as of the statement's
beginning, and `NeverOverpaid` therefore rests on the version, not on the sum.
`draft` is what a form made its operation key for: a client's key, which is never one of
those the server makes (`KeysAssumption`; both are random UUIDs). `OkMeansPaid` speaks
of the step that answers with success, and not of all later states: when a bulk payment
is answered the keys of its form that it had no use for may still be used, after which
they have paid more. Amounts are naturals and `Part`
divides them as the code divides ten-thousandths. The n-th instalments of all
expenses are due in the same month.

**LoginThrottle** has the three transactions of an attempt: `Check`; `SelectRows`,
`Record` and `Retry` for counting; `Clear`. The clock is read before the rows are
waited for. Before it counts, `Record` deletes the `PurgeLimit` oldest of the rows that
expired (32 in the code). A row's `failure_count` is the size of the set of attempts counted
(`who`), so that properties can say whose failures are there; `counted` is history.
That no limit may be 1 is an assumption the code needs (`insertFirstFailure` never
blocks); its limits are 5, 20 and 100.

**Accounts** puts accounts under that throttle: a login reads the account, compares
the password outside of any transaction, and gives out a session with the version it
read; the first login begins the owner's account; `PasswordApi`, `UsersApi` and
`UserApi` read, hash and commit against the version. `Authenticate` is a page asked
for with a session. Sessions are only a set of claims that carry, for the properties,
the password they proved.

**Portfolio** lets a transaction `Begin` with its last lock, keeps what it will write
aside, and shows it at `Commit`; what it decided on without a lock may have changed by
then. `Transfer` and `Contracts` add their own tables to what is pending. One customer
request, `ChangeCustomerLifecycle` for instance, is one `Begin` with the locks and
checks of its service function. That a task's series goes on over an inactive link
(`tasks/service.ts:456`), and that a closed contract of an archived customer can be
reopened (`contracts/service.ts:374`), is what the code does and so what the models do;
the properties are about tasks that were requested and about contracts' links.

**Transfer** has a delivery, an approval, an import (a transaction for the mapping and
one for each step) and the automatic sender, which delivers again until all steps
are there, a batch at a time. `Stop` leaves an import between two steps.

**Contracts** has contracts with their periods, month plans (which delete the visits
they do not name), visits, the work recorded on them, and the receivables of a month
or of an opening balance. Writers lock the contract, and the customer first when they
change its terms; customers and projects look for contracts without a lock.

**Dues** is one request at a time, statement by statement, for five kinds of records
that are created once per operation key: the look for the key, for the slot (a type
and period, a project and month, a name), the parents' locks, the insert under its
unique indexes, the commit. What is expected of a contribution may be edited for as long
as nothing has been received (`partnership-finance/validation.ts:173`,
`service.ts:309`); receipts, reversals and edits lock the contribution, read it and
write it where its version is still the one they have read; a realisation compares the
version its sender saw. `audits` counts the audit trail's entries of a
creation: commissions and contributions do not compare the row they find with their
own and are audited twice when the same request arrives twice at once
(`partnership-finance/service.ts:387`).

**Reports** makes the cash flow report statement by statement in its snapshot and the
digest in its two statements, which each see what is committed, while other requests
change the books in between. Two things of the code worth knowing are in the model as
they are: an occurrence of a plan that is realised between the digest's statements is
in neither list and waits for the next day's digest; and what fell due after the end of
a past range but before today is in no column of it, though the report's own text
(`cash-flow-service.ts:256`) says its overdue total has all dated items that are
still open today. Not in it: the day a
report is made is taken before the snapshot, so a report made across midnight has
yesterday's date; the receivables page reads its receivables and their movements in
two READ COMMITTED statements.

**Workspaces** is one screen of one user against an abstract server that compares
versions and looks for operation keys. 26 screens differ in what they do at each step
(when the key is made and dropped, whether a read is aborted, whether a list is read
again after a write): each such difference is a definition over `screen`, mapped to
its lines. A request may be lost before or after it is done, or be done late. Five
screens send no version and the server asks for none: a visit
(`daily-plan-visit-completion.tsx:156`, `contracts/service.ts:669`), the work done on
it, which is sent with the note that the list has of the visit
(`daily-plan-completed-visit-tasks.tsx:102`), the plan of a month, the access of a user,
and the settings (`Unversioned`). Projects and payments are sent with the version that
the list has when they are sent, not when they were opened (`projects-workspace.tsx:389`,
`card-plan-workspace.tsx:655`). What others saved there meanwhile may be overwritten
unseen: the code does not promise otherwise, and `NothingOverwrittenUnseen` leaves these
seven screens out. A reversal has no version either, but what it reverses never changes.
Choosing another day aborts what a form on a visit has sent: that is `Lost` before
`ChooseDay`. After a lost answer the lifecycle controls say that the record was not
changed (`portal/record-lifecycle-controls.tsx:167`, `:369`), although it may be.

## 4. What is checked

Every run's properties, and the mutants that show each of them can fail, are in
`PROJECT.json`; a mutant is a plausible fault put into one mapped definition, under
which TLC finds the property violated.

| Run | Bounds | Shows |
|---|---|---|
| `job` | 2 jobs, 2 dispatchers, batch 2, 2 attempts, instants 0..1, lease and delays 1 | attempts and effects accounted for, leases respected, `JobContract` implemented, every job settled |
| `outbox` | 2 events (of 2 attempts and of 1), a cron dispatcher of one event a call, a dispatcher after a request | requests charged, one holder, no early claim, every event settled |
| `cron` | 2 calls, interval 2, instants 0..3 | permits spaced, one dispatcher, honest answers, no outbox after the deadline, the lock freed |
| `finance` | 2 transactions, 3 keys, total 2, amounts 1 and 2, with and without a collection of 1 that has no movement | the books through collections, movements, reversals and voids in any order; success means recorded; no posting to an inactive account |
| `spending` | 2 transactions, versions to 3, five scenes: edits over an empty table, over an expense of before migration 0020, with an account that is switched, payments of an expense of two instalments, bulk payments of two expenses | the books through every edit; plans; repeated payments; history |
| `accounts` | throttle scene: 3 attempts, 2 addresses, limits 2, window 2, a purge of 1 row at a time, instants to 5; accounts scene: 2 requests, 2 accounts, 2 passwords, versions to 3, a login | counting, blocking, expiry; sessions and passwords under concurrent changes |
| `portfolio` | 2 requests, a customer, 2 projects, 2 tasks, four scenes (links and series; archiving a customer; archiving a project; an analysis of 2 steps) | nothing attached to what is not in use; the analysis |
| `contracts` | 2 requests, a customer, 2 projects, 2 contracts, 2 visits, 3 days in months of 2, six scenes | periods, links, visits, work, bills |
| `dues` | 2 requests, 2 keys, 2 slots, 4 receipt keys (one receipt as soon as there are two contributions), contributions of 1 or 2, 2 days, versions to 3, for each of five kinds | receipts add up and stay within what is expected by then; plans realised as seen; one audit entry |
| `reports` | 4 days, a week's end and a month's end among them, 3 ranges, 4 books, 2 changes during one report | reports reconcile with the books they saw, count everything once and agree |
| `workspaces` | 26 screens, 2 forms, 2 requests, 2 reads of the list, an edit of another user | retries create once, lists in order, nothing overwritten unseen |
| `workspaces_finance` | the finance screen, 3 forms, 3 requests | a *violation*, section 5 |

Why the bounds suffice for the cases in question. Two dispatchers and two attempts
give every order of claim, expiry, reclaim, late commit and last attempt; an instant at
the horizon counts as after every lease and delay, so one instant before it is
enough for "too early" and "elapsed", and the safety properties are proved for any
horizon. Two transactions are what a row lock separates, and three keys let one
original be reversed twice under different keys. A payment of 3 over two instalments of
2 pays one in full and one in part; an amount of 3 in two parts leaves a rest, an amount
of 1 in two parts cannot be divided; versions to 3 let an instalment be paid, reopened
and paid again. Three attempts with limits of two let one attempt meet a block that
two others made, and five instants let windows end and rows expire. Two projects and
two contracts let a contract move into another's period or project; three days in
months of two let a visit leave its month. Four receipt keys let a contribution be
received in two parts, one of them be reversed, and reversed again. A contribution of 2 can
be lowered to 1 by an edit that meets a receipt. Four days with a week's and a month's end inside give ranges before,
across and after today and a partial first and last period; each of the four books has
the kinds of items that share a rule. Two requests and two reads are what it takes for
one answer to overtake another. The server numbers of `spending` (1 to 3) suffice for
the movements its scenes can make; a step that would need more is disabled.

`CHECK_DEADLOCK FALSE` is set throughout because the bounded worlds end: all keys used,
all calls answered, versions at their bound, nothing queued at the horizon.

**Fairness.** Only `job`, `outbox` and `cron` assume any; what they check beyond
`...Settled` and `LockFreed` is safety and does not depend on it. The clock advances; the
scheduler keeps calling (weak fairness of `Start`); a dispatch is a program that runs
on (weak fairness of its steps); a claim transaction that is tried again and again is
not refused for ever (strong fairness, since a deadlock disables it only for a while).
A process may still stop at any step; handlers and the provider are never assumed to
succeed, and dispatches after requests get no fairness: the cron endpoint alone must
do. `LockFreed` assumes that queries time out, that stages are bounded batches, and
that the server notices a closed connection; it holds only because the connection
whose lock could not be released is destroyed.

## 5. Findings

- `workspaces_finance`, `finance-workspace.tsx:528`: `openAction` makes the screen idle
  while a request is under way, so two operations can be under way, and `postFinance`
  clears `pendingWrite` on the success of either. If the answer of the other is lost,
  its retry gets a new operation key and the collection is recorded twice. The test
  "reuses the same client operation key when an opening-balance retry follows a network
  failure" (`finance-workspace.test.tsx:92`) covers a single operation. The run checks
  `CollectionsRetriedOnce`; for the other screens the same property is part of
  `DraftsSound` and holds.

## 6. What is proved

A proof module extends its component's module. All assume only the `ASSUME`s of the
modules they extend, which TLC evaluates in the runs: counts and delays are naturals,
limits are above one, `None` is not a key or a text, ids are apart, the books that a report's
world begins with are sound. Each inductive invariant was
first checked by TLC on the component's run.

- **SchedulingProofs**, for the engine and the endpoint that starts it. Of JobEngine, for
  any jobs, dispatchers, limits, leases, backoff and horizon:
  `TypeCorrect`, with the bounds that a row's attempts never exceed its maximum;
  `RunHistoryHolds`, split by job, and from it `ClosedRunsStayClosed`; `EffectOnceHolds`
  and `AttemptsAccountedHolds`; `LeaseRespectedHolds`; `EngineImplementsContract`: every
  step is a step of `JobContract` or a stutter, under the mapping of rows to phases.
  Of CronDispatch, for any calls and any interval: `PermitsSpacedHolds` by `GateRemembers`
  (every used permit is at or before the row's instant, which makes comparing with the
  row comparing with all earlier permits); `EndpointSoundHolds`, by an invariant for each
  call that other calls' steps leave alone; `NoOutboxAfterDeadlineHolds`.
- **DeliveryProofs**, for what leaves the server: e-mails and reports. Of OutboxDelivery
  `DeliverySoundHolds` and `EventsKeepTimeHolds`. That requests never exceed attempts is
  inductive only with what is still to come: requests made, plus attempts that are out
  and have not sent yet, are at most the attempts (`Charged`), and claims of different
  dispatchers are apart (`ClaimsApart`). Of Reports, for any calendar, ranges, plan and
  bounds, and any books to begin with that are sound on the first day
  (`StartsAssumption`): `BooksReconcileHolds`, `TotalsCompleteHolds`,
  `ReportsAgreeHolds`, `DigestNeverTwiceHolds`. The invariant (`ReportsInv`) has three
  parts. `Sound` says what the tables promise each other: a reversal mirrors one
  movement that nothing else reverses, an entry that moved money has its movement to
  itself and is taken back with it, a due is settled by no more than it is worth; each
  of the requests that change the books is proved to keep it. `ReportSound` says that
  what a report has read so far is what the books of its snapshot hold, so that what is
  committed meanwhile does not matter to it. `DigestSound` does the same for the digest,
  whose two statements see different books: an occurrence that has become an instalment
  before the second statement is no longer the plan's, since the plan's next occurrence
  only moves forward. Reconciling is then a sum over days that is cut into periods,
  which are shown to cover the range without overlapping. `TotalsComplete`, for reports
  over all days that are read before their day ends, takes each due apart (what is left,
  what was settled with a movement, what was settled without) and the effective
  movements (those that settle an active entry, and plain ones), and matches the two
  through the entries that link them. `ReportsAgree` compares three ways of adding up
  the same overdue amounts: by month, by line of the cash flow report, by due.
- **SumTheorems**: sums over finite sets. The fold of `MapThenFoldSet` does not depend on
  the order of the elements; what one element more or less does to it; sums of sums, over
  images and over groups. The inductions are over the finite subsets of a set: were there a
  counterexample, there would be a least one (`WFMin`), so that no induction theorem with an
  operator parameter is needed.
- **FinanceLedgerProofs**: `BooksSoundHolds`, `OkMeansRecordedHolds`,
  `ActiveAccountsOnlyHolds`. Two levels: a first invariant says that locks are apart,
  that what is pending under a key is one transaction's alone, that an answer that is
  ready has its record, that accounts a transaction has found active stay locked, and
  that a reversal, pending or stored, mirrors its original. Above it the sums: a
  receivable's balance is the sum of its collections that stand (`NetSums`), and a
  transaction that has locked the receivable still sees the balance it compared with.
- **SpendingProofs**: `SpendingSoundHolds`, `PlanAddsUpHolds`, `OkMeansPaidHolds`,
  `HistoryKeptHolds`, for any workers, keys, terms, amounts and bounds, from each of the
  starting tables (empty, or with what earlier releases left in them). The invariant (`IInv`) has
  three parts. `TablesInv` relates the four tables: a reversal mirrors a row that no other
  reverses, a payment that moved money has its movement under its own key, every movement
  that stands has exactly the owner the spending tables name, an instalment's payments sum
  to no more than its amount. `PlanAddsUp` is one of its own parts. `RequestsInv` says what
  a transaction knows between its locks and its writes (`Knows`): the expense it has locked
  is still active and no payment stands in the way of what is to be done to its plan; the sum it read before it
  waited is the present one if the version it was shown is the present one, since whatever
  changes the sum raises the version; the keys it is about to use are free, since a form's
  key has one draft. Each write is proved once, as an effect on the tables (`Written`), and
  what it leaves to the others follows from `Effect` alone: what a step changes belongs to
  an expense whose lock it holds or which nobody holds, so that what another transaction
  knows stays true (`Others`). The sums of a plan before and after an edit, and of the
  shares of a bulk payment, are lemmas on `SumTheorems`.
- **UsersProofs**, for logins, accounts and screens. Of LoginThrottle `EvidenceRespectedHolds`
  and `EvidenceSoundHolds`: a row an attempt is about to write is held and was open when
  it was locked; what it inserts nobody else has inserted; no row is later than the
  present, though its writer may have read the clock long before. That a failure is
  counted in all buckets or in none needs rows to outlive the longest lag of a writer:
  with `2 * Lag < Retention` TLC finds an attempt that counts in a bucket whose row
  another has deleted as expired and begun again, hence `TimesAssumption`,
  `3 * Lag <= Retention` (the code keeps rows for days, a statement waits for seconds).
  `ImplementsThrottle` (`AccountsSpec => Spec`) carries the throttle's properties over to
  logins (`LoginEvidenceRespected`). `SessionsProvedHolds` and `ChangesProvedHolds` follow
  from one idea: a row that was read earlier stays comparable by its version, so that
  whoever finds the version unchanged finds the row unchanged, whatever was compared or
  hashed meanwhile. `AccountsSoundHolds` adds that there is exactly one owner once there
  is an account: nothing but the first insertion makes one, and nothing unmakes it.
  Of Workspaces, for any number of requests under way, any texts and filters:
  `DraftsStaySound`, `ListsStaySound`, `WhatWasSavedIsShown`, and, of the screens whose
  requests carry a version, `NothingUnseenOverwritten`. The many actions of the screens are first sorted into a
  few kinds of steps (`Forms`), told apart by what their screen does; the invariant
  (`ScreenInv`) is then proved once per kind. That a retry creates once rests on
  `OnceMeant`: whatever carries the same intent, the user's wish, a request or a record,
  has the same text and the same key, so that two records of one intent would have a key
  (or what is unique by nature) in common, which `RecordsApart` excludes; it is
  inductive because, on the screens concerned, one request at a time is waited for
  (`Locks`), and one that was given up keeps its meaning until it is done or lost. That
  what was saved stays shown rests on `ToldSound`: every list that was read and may
  still arrive has what was said to be saved, because a save makes the lists read before
  it stale. Versions are bounded by counting the requests that are not done yet
  (`Versions`).
- **PortfolioProofs**, for Portfolio, Transfer and Contracts. `PortfolioSoundHolds`,
  `AttachedToLivingHolds`, `MappingKeptHolds`, `OneMappingHolds`; `ContractsSoundHolds`,
  `WorkDeliveredHolds`, `BilledAsContractedHolds`, `FinalVisitsKeptHolds`. The invariant
  (`PortfolioInv`; `TransferInv` and `ContractsInv` add to it) says of every transaction at
  its writes which locks it holds and what is known of the rows it will write. What it
  asked without a lock (is a link, a project, a contract still in use?) stays true
  because whoever could make it false needs one of its locks. Transactions of Contracts
  are Portfolio's with writes of their own, so that Portfolio's invariant is proved once
  for both.
- **DuesProofs**: `DuesSoundHolds`, `RealizedAsSeenHolds`, `AuditedOnceWhereComparedHolds`. For
  the kinds that compare ids the invariant is that two inserts that are not committed
  have different keys, that a row its sender saw with the present version is the
  present row, and that a realised occurrence has an earlier version than its plan has
  now; for receipts, that what a contribution says it has received is the sum of the
  receipts that stand, which only the holder of its lock changes; that it is never more
  than is expected rests on the edit of the amount being refused once anything was
  received, by a request that holds the lock and whose version is the present one.

Every safety invariant and action property of the passing runs is proved; only
model-checked is liveness (`EventuallySettled` of `job` and `outbox`, `LockFreed` of
`cron`), since the prover does not reason about ENABLED and fairness.

## 7. What is not modelled

- Of modelled components: the authorisation by role and project that precedes them
  (`platform/auth/permissions.ts`, `project-access.ts`), decimals (amounts are naturals),
  currencies, calendar arithmetic (the dates of an instalment plan, the months of a
  series), texts, labels and orders of lists, key derivation, transfers between accounts,
  creation of receivables, accounts and cards, the sums by month of project reports, the
  transfer and password screens; of the screens that are modelled, the reopening of an
  instalment, several items in one request for the work on a visit, and the separate
  forms of several users that are open at once.
- Daily plan, today's and task reports, audit history: read-only views and a file format;
  nothing changes state, and no property relates them to other state but their filters.
- Notification settings on the server: one row a user, without a version, that names
  another address; its form is a screen of `Workspaces`.
- MySQL pools, session contract and readiness: configuration checks against a live server;
  what transactions rely on is the meaning of a transaction in every module. The schema
  is declarations; the unique keys that matter are in the modules that rely on them.
- Configuration, logging, validation of inputs: stateless. Release and migration scripts
  run outside the service; what old migrations left in the tables is in the initial
  states of `FinanceLedger`, `Spending` and `Reports`.

Hazards without a property, with the reason beside them in `PROJECT.json`: an event
finalised although e-mail was off (`resend-adapter.ts:96`); the lock order of a reversal
against a collection (`finance/service.ts:770`: the server rolls one of them back, which
is `Fail`); two requests with one key and different contents (`spending-service.ts:801`:
no form makes them); the series task on an inactive link (`tasks/service.ts:456`); what
is overwritten unseen on the screens that section 3 names (`contracts/service.ts:669`,
`daily-plan-completed-visit-tasks.tsx:102`, `projects-workspace.tsx:389`); a title of
work on a visit that is changed after a lost answer (`contracts/service.ts:798`).
