# Formal model of the payroll engine

This directory holds TLA+ specifications of the payroll engine: how it moves money (the
disbursement of a payroll batch, earned-wage advances, hardship grants, and the direct
debits that repay an advance where there is no employer's payroll) and what that rests on
(hours, the ledger, money arithmetic, eligibility, idempotency keys, login codes, people and
their records, and the daily jobs). TLC model-checks them all on small instances; TLAPS
proves the safety of most of them for every value of the constants. `PROJECT.json` is the
index: components, runs, mutants, the map from definitions to source lines, findings,
hazards and theorems.

## 1. The system

A Go service in front of PostgreSQL and Redis. HTTP handlers and webhooks write the
database; Asynq tasks (at-least-once, bounded retries, one goroutine each) call the
payment providers (Monnify, Paystack); providers call back; a scheduler runs
periodic jobs. Processes share nothing but the database and the queue, so every
interleaving of committed transactions and external calls is possible unless a row
lock, an advisory lock or a compare-and-set forbids it.

| component | state | operations | what makes it correct |
|---|---|---|---|
| Payroll creation | `payrolls`, `payroll_items` | `CreatePayroll` | one payroll per period; each advance netted once |
| Batch disbursement | status, `pending_count`, line status, attempt | `ProcessPayrollTask`, `failBatchBeforeSend`, `finalizePayroll` | nobody paid twice; the batch closes on its last line |
| Settlement | the same rows | payroll webhook, `SettlePayrollItem`, `reconcilePayrollStatus` | a callback counts once, for its own attempt, with the right amount |
| Retry, resolution | attempt, `resolved_by` | `RetryFailedItems`, `ResolveItem`, stuck-payout alert | new attempt = new reference; a line never stays at the bank for ever |
| Wage advances | `ewa_advances`, ledger entries | `RequestAdvance`, `CancelAdvance`, `WriteOffAdvance`, `SettleAdvancesForPayrollItem` | pay withheld only for money paid; books agree; caps hold |
| Advance worker | provider reference | `ProcessEWADisbursementTask` | a transfer exists at most once |
| Funding pool | ledger | funding webhook, `FundingExposure` | advances never exceed deposits |
| Termination | `employees.is_active` | `Terminate` | nothing outstanding is left behind |
| Ledger | accounts, entries | `PostTransaction` | debits equal credits; a key posts once |
| Hardship grants | `hardship_grants` | request, worker, webhook | as advances, with no recovery |
| Direct-debit collection | `d2c_debit_collections` | `SweepD2CCollections`, `InitiateD2CCollection`, webhook | one debit per advance; books agree; exhausted attempts are written off |
| Bank links, mandates | `d2c_bank_links`, consent records | link, `AuthorizeDebit`, revoke | no mandate after a withdrawal |
| Time entries | `time_entries` | submit, approve, reject, `GrossPay` | an approved hour is paid exactly once, at the right rate |
| Idempotency | one Redis key | middleware | a key's handler runs once |
| One-time codes | four Redis keys | issue, verify | bounded guesses, single use, the day's cap lifts |
| Policies, protected payday | one row each | update | a field not sent is left alone; a floor is held |
| Money | - | checked arithmetic, percent, parse | no overflow, no kobo lost |
| Eligibility, savings | advances, preferences | `eligibilityTx`, `SetSavingsPreference` | no more than earned; the protected pay arrives; the projection is true |
| Dependency scoring | the draws of 90 days | score, tier, cooling-off | one month does not restrict; heavy use is seen; it eases back |
| Bills | `ewa_bills` | add, remove, plan | dates are the next ones; the plan fits |
| Payday prediction, sweep | an account's movements | `PredictNextPayday`, the sweep | found in any order; due when it has come |
| Employer users, tokens | `employer_users`, JWTs | create, update, reset, change, refresh | an admin remains; sessions end |
| Employees | `employees`, `users` | hire, edit, terminate | a termination stands; the audit trail is true |
| BVN check | `bvn_verifications` | task | the outcome is kept; the check ends |
| Reconciliation | `reconciliation_runs` | the job | drift is what moved untracked |
| Reporting, payslips, compliance | rows | reads | - |

Interactions. `CreatePayroll` takes the organization's advisory lock, calls
`SettleAdvancesForPayrollItem` for each worker, commits and enqueues. The batch's
worker and the webhook meet only in the line's compare-and-set and the batch's
counter. `RetryFailedItems` and `ResolveItem` share the batch's advisory lock, which
neither the worker nor the webhook takes. Requests, grants and payroll creation share
the organization's lock; `Terminate`, the advance worker and the webhook do not take it.

Hard behaviours: a task delivered twice; a worker lost between its transaction and
the provider call; an unknown outcome of that call; callbacks repeated, late, lost,
or about a superseded attempt; values read outside the transaction that acts on
them; an admin acting on what looks stuck and is only slow. The list, line by line,
is under `hazards`.

## 2. Modules

| module | models |
|---|---|
| `DisbursementRun` | abstract: what disbursing a payroll promises, as due / out / paid lines with references |
| `PayrollBatch` | one batch after its creation: worker tasks, bank, webhook, resolution, retry, crashes |
| `MCPayrollBatch` | model values for TLC |
| `PayrollBatch_proofs` | theorems about `PayrollBatch`, with the refinement of `DisbursementRun` |
| `WageAdvance` | one organization's advances: request, payout task, callbacks, payroll netting, termination, pool, ledger |
| `MCWageAdvance` | model values for TLC |
| `WageAdvance_proofs` | theorems about `WageAdvance` |
| `D2CCollection` | one direct-to-consumer worker: bank links and mandates, the sweep, the debit rail, its callbacks |
| `MCD2CCollection` | model values for TLC |
| `Repayments` | composition of `WageAdvance` and `D2CCollection`, where everything overlaps |
| `BatchIntake` | how a batch reaches the worker and leaves it: commit then enqueue, claim then close, rejection and redelivery, retry |
| `HardshipGrant` | grants: issue, payout task, callbacks, ledger; the pool shared with advances |
| `TimeEntry` | hours: submission, approval, rejection, payment and weekly overtime in payroll runs |
| `Ledger` | `PostTransaction` by concurrent callers: accounts, keys, entries, the database's triggers |
| `Money` | `pkg/money` at a small width, each call against its meaning on integers |
| `EarlyPay`, `DependencyTiers` | one worker's wages, allowance, floor, savings and payday; the scales and caps of a tier |
| `Dependency` | `ScoreDependency` over a sliding history of draws |
| `PolicySettings` | updates of a policy and of a protected payday as overlapping transactions |
| `BillTiming` | due dates and the plan of bills through months of different lengths |
| `PaydaySweep` | `PredictNextPayday` and the daily sweep that acts on it |
| `Idempotency` | the middleware on one Redis key |
| `OneTimeCode` | one phone's four Redis keys |
| `EmployerAccess` | employer users, passwords and tokens |
| `EmployeeRecord` | the employee row and login under overlapping edits and terminations |
| `BVNCheck` | the BVN task with its retries |
| `Reconciliation` | the job beside the movements it compares |
| `BackgroundWork` | composition of `BatchIntake`, `HardshipGrant`, `BVNCheck` and `D2CCollection` |
| `SharedRecords` | composition of `Idempotency`, `OneTimeCode`, `TimeEntry` and `Ledger` |
| `PayRules` | composition of `EarlyPay`, `Dependency`, `BillTiming`, `PaydaySweep`, `TimeEntry` and `Money` |
| `Accounts` | composition of `EmployerAccess`, `EmployeeRecord`, `PolicySettings`, `OneTimeCode` and `Reconciliation` |
| `MoneyFlows` | composition of `PayrollBatch`, `WageAdvance` and `D2CCollection`, where the environment leaves each alone |
| `MCBackgroundWork`, `MCSharedRecords`, `MCPayRules`, `MCAccounts`, `MCMoneyFlows`, `MCRepayments`, `MCPolicySettings` | values for TLC |
| `BackgroundWork_proofs` | theorems about `HardshipGrant`, `BatchIntake`, `BVNCheck` and about `BackgroundWork` |
| `MoneyFlows_proofs` | theorems about `D2CCollection` and about `MoneyFlows` |
| `SharedRecords_proofs` | theorems about `Ledger` and `Idempotency` and about `SharedRecords` |
| `Accounts_proofs` | theorems about `EmployeeRecord`, `EmployerAccess`, `OneTimeCode`, `PolicySettings`, `Reconciliation` and about `Accounts` |
| `PayRules_proofs` | theorems about `Money`, `EarlyPay`, `TimeEntry`, `BillTiming`, `Dependency` and about `PayRules` |
| `Sums_proofs` | lemmas about sums over finite sets and folds over sequences, which the others use |

`BackgroundWork`, `SharedRecords`, `PayRules`, `Accounts`, `MoneyFlows` and `Repayments` each bring several
components together. They instantiate the components, rename variables that clash, and extend
one component, whose variables and properties keep their own names. `part` names one instance
and is chosen by the initial state: in a behaviour only that part moves and the others keep
their initial values, so the states of a run are the disjoint union of the states of its parts,
never their product. A property there is the component's own; its statement and its reasons
are in the component's module. The constants of the components are constants of the
composition, under the components' own assumptions, so that what is checked of it is also
proved of it.
Fairness is likewise each part's own. Where a component has several properties about one
record they are checked together, as a conjunction of named parts:

| property | its parts |
|---|---|
| `WorkIsTakenUp` | `WaitingIsTakenUp`, `CreatedIsTakenUp`, `EmptyIsClosed`; `CheckEnds` |
| `WorkIsKept` | `SomebodyIsAtIt`; `OutcomeKept`, `NotAskedAgain` |
| `GrantInv`, `GrantSettles` | `BooksFollowGrant`, `StatusMatchesMoney`, `PoolCovered`, `RecordedHasTask`; `GrantIsTakenUp`, `PaidIsDisbursed` |
| `KeyHasOneEffect` | `OneHandlerAtATime`, `ReplayIsOwn`, `SecondEffectNeedsLoss`, `ResponseStands` |
| `LocksAndCapsLift` | `LockIsReleased`; `CapLifts` |
| `LedgerInv` | `PostedOnce`, `OneAccountEach`, `TriggersStayQuiet`, `ExposureIsNet` |
| `DrawsLeavePay`, `PaydayLands` | `WithinUnpaidWages`, `SavingsLeavePay`; `FloorLands`, `AsProjected` |
| `ScoreTellsHabits` | `OneMonthNeverRestricts`, `AverageStaysHealthy`, `HeavyUseIsSeen`, `PatternEasesBack`, `Narrows` |
| `BillPlanHolds` | `DueIsNext`, `PlanFits`, `Stands` |
| `PredictionIsSound` | `ClusterIsAClass`, `OrderDoesNotMatter`, `DebitWaitsACycle` |
| `HoursPaidOnce` | `ApprovedDayFits`, `ItemPaysItsEntries`, `WeekCountsAcrossRuns`, `PaidIsFinal` |
| `AmountsExact` | `AddSubExact`, `MulExactNonNegative`, `PercentRoundsHalfEven`, `SumExact`, `ParseExact`, `MajorExact` |
| `SessionInv` | `FlagFollowsPassword`, `SessionEnds`, `FullTokenWasChosen` |
| `TerminationStands`, `ChangesAreTold` | `TerminatedStays`, `NoLoginAfterEnd`; `AuditIsCurrent`, `FormerPhoneHears` |
| `PolicyChangesStand` | `NilStays`, `AuditContinues` and `FloorStays` of a commit `InTime`; `SeamShows` |
| `CodeWithinLimits` | `CodeSpentOnce`, `DayBudget`, `FreshCodeHasAllGuesses` |
| `ReportsTellStrays` | `DriftsAddUp`, `AlertIsRight` |

The types of each component are a part too.

A definition named `Mut...` is a plausible bug, placed before the definition it
would replace; `PROJECT.json` names the property that must then fail.

### PayrollBatch

`status`, `pendingCount`, `itemStatus`, `attempt`, `resolvedBy` are columns. `task`
is an Asynq task together with the goroutine running it: its `sendable` and
`orphaned` are the lines `ProcessPayrollTask` read before claiming the batch, with the
references it will send. `handler` is a webhook request between its lookup (outside a
transaction) and its write. `retry` is `RetryFailedItems` between its status check and
its update, holding the advisory lock. `bank` is external: what the provider made of
each reference, decided once per reference. `sends` is a history variable.

One action is one transaction, one provider call, or one read whose result is used
after others may run:

| action | code |
|---|---|
| `EnqueueTask` | `Client.Enqueue` after the commit of `CreatePayroll` or a retry |
| `LoadBatch` / `ClaimBatch` / `ClaimStale` / `ClaimRollback` | `ProcessPayrollTask` phase 1: reads, then the transaction, its early return and its rollback |
| `FinalizePayroll` | nothing to send: `finalizePayroll`, a second transaction |
| `BulkTransferTaken` / `Lost` / `Rejected` | `InitiateBulkTransfer`: taken (answered or not), never arrived (`ErrOutcomeUnknown`), definitely refused |
| `FailBatchBeforeSend` | the refusal's transaction |
| `WorkerCrash` | the process dies, or a transaction errors; Asynq redelivers up to `MaxRetry` |
| `EndTask` | the last step of a task: it is acknowledged, or the process dies first and Asynq redelivers it, also after the bank took the list |
| `HandlePayrollItemWebhook` / `WebhookSettles` / `WebhookFails` | lookup with its early returns; the settling transaction; its failure |
| `ResolveItem` | the admin's resolution: lock, age check, settlement, audit columns |
| `RetryCheck` / `RetryApply` / `RetryEnds` | `RetryFailedItems` |
| `BankDecides`, `BecomesOverdue`, `EmployeeLeaves` | the provider, the clock, and termination or deletion of an employee |

Assumptions about what is not code:

- `Overlap` says which windows the environment uses. `"settlement"`: a callback is
  redelivered, or the line resolved, while an earlier delivery for the same line is
  still between its lookup and its write. `"retry"`: an admin retries while a task
  of the batch is queued or running. **Nothing in the code prevents either**; the
  constant exists so that each property can be stated under the weakest assumption
  that makes it true.
- `Attests`: the admin's resolution agrees with the provider's dashboard.
- A line does not become overdue while a worker that has read it still runs:
  `StuckAfter` is two hours, the task's timeout thirty minutes.
- "gone" is an employee row soft-deleted out of band; the code handles it although
  no operation of the service produces it.

### WageAdvance

Columns as in `ewa_advances`; `submitted` is "provider_reference is set".
`receivable` and `cash` are each advance's own entries in the two ledger accounts,
so `FundingExposure` is a sum over entries as in the code. `request`, `payroll` and
`leaving` are transactions between their reads and their writes. Requests and payroll
runs exclude each other by the organization's lock (`Locked`); a termination takes no
lock. The per-worker reads of one payroll run are one step, `PayrollRead`: the writers
that may interleave (callbacks, the payout worker, termination) act on one advance,
and a later read only brings the payroll nearer to its commit. A payroll run that rolls
back is no step of the model.

| action | code |
|---|---|
| `RequestRead`, `RequestDecide`, `RequestReplay` | `RequestAdvance`: eligibility under the lock; decision, posting, enqueue; the idempotent replay, which enqueues again |
| `LoadAdvance`, `TransferAccepted`, `TransferUnavailable`, `TransferRejected`, `RecordSubmission`, `CancelRejected`, `TaskCrash` | `ProcessEWADisbursementTask` |
| `WebhookConfirms`, `WebhookFails`, `FundingWebhook` | the callbacks |
| `PayrollRead`, `SettleAdvances` | `CreatePayroll` with `SettleAdvancesForPayrollItem` |
| `TerminateRead`, `TerminateApply` | `Terminate` |
| `BankDecides`, `NextMonth` | the provider, the clock |

Data abstractions: accrual, the protected payday and the tier's share become one
number `Cap`; cooling-off, the dependency tier and the minimum draw become a
nondeterministic refusal; currencies are left out. The provider takes one transfer
per advance because the advance's id is the transfer reference. A missing provider
for a currency behaves as `TransferUnavailable`. Ledger idempotency keys are not
state: each key belongs to one compare-and-set of one status, which
`AdvanceMovesForward` shows to happen once.

### D2CCollection

It starts where `ConfirmDisbursed` has run for each advance. `collection`, `debitAmount`
and `referenced` are the columns of `d2c_debit_collections`; a row is named by its
advance and the order of its insert (`attempt_number` is kept for audit only). `links`,
`linked` and `mandate` describe the current row of `d2c_bank_links`; the two consents
are what `HasActiveConsent` answers. `authorizing` is an `AuthorizeDebit` request that
waits for the provider. `sweeper` is each sweep process with what it has read. `rail`
is external; `withdrawn` is a history variable.

| action | code |
|---|---|
| `CompleteLink`, `Revoke`, `RevokeDebitMandate` | the bank-link handlers, each with its consent record |
| `AuthorizeRead`, `AuthorizeDebit`, `AuthorizeFails` | `AuthorizeDebit` around the call to the provider |
| `ConsentExpires` | a consent lapses (a withdrawal recorded elsewhere has the same effect) |
| `SweepRead`, `AttemptDue`, `AttemptSkipped`, `SweepEnds` | `SweepD2CCollections`: its queries, and the prediction for each advance |
| `InitiateRead`, `CreateCollection`, `CreateRefused` | the creating transaction: checks and reads; the insert, under the partial unique index |
| `DebitAccepted`, `DebitRejected` | `InitiateDebit`, outside any transaction; with `LostAnswers` an error may hide an accepted debit |
| `RecordReference`, `RecordFailure`, `SweeperCrash` | what follows the call, and its loss |
| `RailDecides`, `WebhookSucceeds`, `WebhookFails` | the rail; `ConfirmD2CCollectionSuccess` and `ConfirmD2CCollectionFailure` |

Assumptions: `Sweepers` says how many sweeps may run at once (the schedule starts one a
day and nothing else prevents a second); `LostAnswers` says whether a debit may be taken
and its answer lost. The sweep's two queries are one step. Consent records are taken in
commit order, and one `AuthorizeDebit` is in flight at a time. Payday prediction is a
choice. A direct-to-consumer organization has one worker and neither payrolls nor
terminations, so this module and `WageAdvance` share no advance.

### The other modules

One action is one transaction where the code holds the lock that makes it so, and
otherwise one read, one write or one command.

- **BatchIntake.** `batch` and `line` are the statuses of `PayrollBatch`, a line at the
  bank being settled in one step; `task` is an Asynq task with its tries. `faults`,
  chosen at the start, says whether an enqueue may fail (`"queue"`) and whether a worker may
  stop after its claim (`"stop"`).
- **HardshipGrant.** `IssueBegin` .. `IssueCommit` is `IssueHardshipGrant` under the
  organization's lock, with the enqueue inside the transaction; `LoadMissing` is a task
  that finds no grant yet. Advances appear as their draws on the pool. The provider
  repeats its answer for a reference it has seen.
- **TimeEntry.** A request is a transaction between its first reads, its lock on the
  worker's day and its commit. The run reads each worker's entries in a statement of its
  own. `Legacy` entries are pending rows older than the check at submission. A day holds
  three units of time in the runs.
- **Ledger.** READ COMMITTED: a read sees committed rows and the transaction's own, an
  insert waits for an uncommitted row with the same unique key. Callers are webhooks and
  tasks, which are delivered until they succeed.
- **Money.** `Half` is 2^63 in the program and 112 in the run, the least that holds every
  amount up to that of "1.11"; `Wrap` is two's
  complement. The operations find overflow from the wrapped result as the code does.
  Display formatting and the float conversions are left out.
- **EarlyPay.** Decisions hold the organization's lock, so each is one step. The tier is
  any of the four at each decision. `early`, chosen at the start, says whether an employer
  may run a payroll before the period is over; nothing in the code prevents it.
- **Dependency.** Time moves in steps of 15 days and shares are multiples of 5 percent; for
  these the code's floating point truncates where exact arithmetic does.
- **PolicySettings.** `Txns` are the transactions open at once: between its read, which takes
  no lock, and its upsert another may commit. `overtaken` is a history variable: the open
  transactions whose reads a commit has since replaced. The wage-advance and the payroll
  policy are updated by the same steps; one module stands for both.
- **BillTiming.** A date is a month and a day. Bills of one day come in any order: the rows
  are unordered and the sort is not stable.
- **PaydaySweep.** Amounts and days are integers; with at most five pays in a pattern every
  comparison of ratios in the code's floats is the exact one. The account is external.
- **Idempotency**, **OneTimeCode.** Every Redis command is a step that may fail and a process
  may stop between two; Lua scripts are one step; keys lapse. A stored response outlives the
  model: clients retry within its 24 hours. `SlowHandlers` says whether a handler may outlive
  its lock; `faults` of `OneTimeCode`, chosen at the start, whether a command may fail.
- **EmployerAccess.** The model follows one token per person. A tick is four hours. An update
  takes the advisory lock, a password change does not. `MaxOpen` bounds the requests under
  way at once. Users log in with their own address and password. The older login with an
  organization's id and its one password (`auth_handler.go:52-84`) is outside the model: its
  token names no user, so it passes `RequireActiveEmployerUser` without a look at any, and
  what `SessionInv` and `AdminRemains` say of users says nothing of its holder.
- **EmployeeRecord.** One bank account and the phone stand for the columns. An edit locks the
  row and saves all of it; a termination reads without a lock and writes one column. `told` is
  what the audit entries, each of which names the changed fields only, add up to.
- **BVNCheck.** `ErrorPages` says whether the provider may answer with an error page that is
  JSON.
- **Reconciliation.** Every movement is of one unit. `known` is a history variable: what has
  moved untracked, and been reported, when a pass last found everything at rest.

## 3. Runs

Bounds are constants named in the modules: `Tasks`, `MaxAttempt`, `MaxRetry`,
`Handlers` for the batch; `MaxAdvance`, `MaxPeriod`, `Amounts`, `Deposits`, `Tasks`
for advances; `MaxRows`, `MaxLinks` for collections, and `MaxAttempts` = 2 where the
code has 4. Two lines are enough for the batch to close on one line while another
is out, and a third with nothing to pay is complete from the start; two attempts give
one superseded reference; three tasks give the first, a retry and a duplicate. `batch_races` has one webhook request at a time, which may race every other step; its
property asks nothing of callbacks, and two requests at once appear in `batch_stale_callback`.
For
advances, two amounts and a pay of 2 make partial recovery, two advances of one worker
make "oldest first", and two months make an advance that outlives a payroll. For
collections, two links (in `money_flows`) make an authorization that outlives its link, two
sweeps and three rows (in `repayments`) make a debit created on what another sweep has since collected, and an
amount of 1 is enough because a debit always takes all that remains.
For the other modules: two grants of a pool that covers one and an advance, and one retry,
make a task that runs ahead of its commit; three entries, two on one day and all in one
week, two requests and two periods make a full day, a late approval and overtime across
runs; three requests with one key, one of them with another body, make a crash, a retry and
a replay; two codes, attempts and issues a day make every limit bind (one of each where only
the lifting of the cap is asked); a deposit delivered
twice, an advance and a grant make every pair of postings that share an account or a key;
every amount of a width, and every string of up to five characters, contain all the edges;
two periods of three days make a draw that outlives a payroll; six steps of 15 days are the
whole window; months of 28 to 31 days make every kind of clamping; three movements make
chains of amounts, two clusters of equal size and a history in any order; two updates
of a policy and two changes of a floor overlap, with a clock as long as a cooling-off period;
two people make
each other's demotion, and two requests under way at once are what a race takes; two edits
and two terminations overlap in every way; three passes
and three movements put a pass before, between and after the two halves of a movement; two
lines and two tasks make a duplicate task and a batch with nothing to send.
Symmetry is used only for tasks, handlers and deposits, in runs whose properties are
safety properties. Deadlock is not checked: a finished batch, and a bounded number of
requests, really stop.

| run | expects | shows |
|---|---|---|
| `batch_races` | pass | everything overlaps and no callback need ever arrive: every line handed to the bank leaves `processing` |
| `batch_serial` | pass | deliveries for one line one at a time: the counter, nobody paid twice, completed means paid, a callback settles its own attempt, and the refinement of `DisbursementRun` |
| `batch_stale_callback` | violation | a callback read before a retry and applied after it settles the new attempt |
| `repayments` | pass | one worker's advances through requests, duplicate payout tasks, callbacks, payroll runs and termination: recoveries are of money paid, the books match, the cap holds; two sweeps of direct debits at once and a rail whose answers may be lost: only what landed is booked and the books match |
| `advance_inflight_cancel` | violation | a payroll run cancels an advance the provider has accepted and pays |
| `d2c_lost_answer` | violation | a debit whose submission got no answer is recorded as failed and lands |
| `money_flows` | pass | a batch that no retry overtakes sends no reference twice, also when its task is delivered again after the bank took the list, and is completed only with everyone paid; two workers draw no more than was deposited; with one sweep at a time and a rail that answers nobody is debited twice, and no mandate outlives its withdrawal |
| `background_work` | pass | a batch on its way has somebody at it; with enqueues, commits, calls and workers that fail: a created batch, waiting lines and a grant are taken up, an empty batch is closed, a grant's books and status follow its money, a BVN check keeps its outcome and ends, a debit under way is decided, and an advance that keeps falling due is settled or written off |
| `shared_records` | pass | one handler of a key at a time, a response stands and goes to its own body; a key of the ledger posts once to accounts that are not doubled; a key's lock and a phone's cap lift, late hours are paid, every posting gets through |
| `pay_rules` | pass | advances within wages earned, the protected payday and the projection land; the score sees heavy use, spares one month and eases back; due dates and paydays agree with their references; hours are paid once with their overtime; arithmetic is exact or refused |
| `accounts` | pass | an admin remains, sessions end, a termination stands and leaves no login, the audit trail agrees with the rows, the first of two overlapping policy updates changes only what it carries and what the second undoes shows in the trail, a login code is spent once within its limits, drifts add up to what moved untracked |
| `policy_lost_update` | violation | of two updates of one policy at once, the later commit puts back a column it did not carry |

Each violation run contradicts a sentence of the repository, quoted under `findings`.

Fairness in `batch_races`. Weak fairness of the worker's steps: Asynq keeps delivering
until a task ends. Weak fairness of the bank's decision and of
the clock. Strong fairness of `ResolveItem`: `stuck_payouts.go` alerts on every overdue
line until somebody resolves it. Weak fairness of the end of a retry: a transaction
holding the lock ends. Nothing is assumed about callbacks arriving or succeeding, about
crashes stopping, or about an admin ever retrying.

Fairness of the debits in `background_work`. Weak fairness of each sweep's steps: the
scheduler starts one every day. For each advance, strong fairness of `InitiateRead` and
`CreateCollection`, because a sweep that crashes in them again and again is one the daily
schedule keeps restarting. Weak fairness of the rail's decision and of the callbacks, which
are repeated until answered 200. Nothing is assumed about the prediction or the worker:
after an on-time payment the predicted day moves on and nothing need ever fall due, so
`AdvanceIsResolved` has two parts. A collection that is pending on an open advance is decided,
whatever falls due. And if attempts fall due again and again, the advance is settled or written
off, unless the authorization lapses or a crash orphans a collection, for which the code has
no way out.

Fairness elsewhere, always of steps the code or its environment repeats:

- `background_work`. Grants: weak fairness of the task's steps, of the end of a
  transaction, of the provider's decision and of callbacks, which are redelivered until
  answered 200. BVN checks: weak fairness of the worker's steps. Batches: weak fairness of
  the worker's steps and of settlement (a callback, or an admin once the line is overdue),
  and strong fairness of a retry that gets queued: the error asks the admin to call again,
  and the queue is up some time.
- `shared_records`. Keys and codes: weak fairness of a request's own steps and of the expiry
  of a key that has one. Ledger: weak fairness of each caller's steps; a posting that was
  rolled back is tried again. Hours: strong fairness of the steps of a payroll run;
  employers run payroll every period, and a run that rolls back is started again.

Seen while modelling, and not kept as runs. Most are counterexamples TLC finds when the
named assumption is lifted:

- A retry that releases lines after a worker has read them and before it claims the batch
  leaves the batch completed with lines pending (`"retry"` in `Overlap`).
- `WriteOffAdvance` credits the receivable with the whole amount, also of an advance payroll
  has partly recovered.
- A batch whose enqueue failed after its creation is taken up by nothing, since a retry is
  for failed batches. A worker that stops between claiming and closing a batch with nothing
  to send leaves it processing (`faults` of `BatchIntake`: `CreatedIsTakenUp` and
  `EmptyIsClosed` are stated for behaviours without the fault).
- The approved hours of a worker who leaves before the run are paid by no run: it lists
  active employees.
- A handler slower than the key's lock of 60 seconds runs beside a duplicate of itself
  (`SlowHandlers`).
- If the EXPIRE after the first INCR of the day is lost, the phone stays refused (`faults` of
  `OneTimeCode`).
- Two changes of one floor at once: a lowering checked before a raise commits after it, with
  no wait. This is why `FloorStays` is asked of a commit `InTime`.
- `ParseMoney` reads some strings that are not decimal numbers as amounts, such as a sign
  after a sign. `MulInt` does not notice the smallest amount times -1.
- Three large draws right after payday, and none before, already make a worker elevated.
- The projected payday shown while a payout is under way, or to a worker who saves, is not
  what lands. After a payroll run before the period's end, the worker can draw again on wages
  it has paid (`early`).
- Two terminations of one employee at once both write the audit entry.
- A reconciliation between an approval and its payout, or a deposit and its webhook, alerts
  although nothing moved untracked.
- An error page of the BVN provider that is JSON is saved as a failed check.
- For a worker paid on the predicted day, the pay is in the history the sweep reads, the
  prediction has moved on by an interval, and nothing is collected: an advance may stay open
  for as long as its worker is paid on time.
- `Terminate` takes no lock: an advance approved between its read and its commit is
  still open afterwards, with no payroll to recover it.
- With two sweeps at once `DebitedAtMostOnce` fails although every answer arrives (17
  steps): one sweep reads the advance, the other's debit is confirmed, and the first
  then inserts its row, since the index covers pending rows only. The second success
  callback violates the CHECK on `recovered_kobo` and the row stays pending.
- A process lost between creating a collection and recording its reference leaves a
  pending row that no callback finds and that keeps every later sweep away.
- A withdrawal committed between the creating transaction and `InitiateDebit` does not
  stop the debit.
- A worker that read a pending line before the line failed and was retried sends it
  again under the reference it read. The bank ignores it, the new attempt is not
  sent, and the line waits for manual resolution. This is why `money_flows` checks
  `SentAtMostOnce` without `"retry"` in `Overlap`.
- With everything overlapping and three attempts, `PaidAtMostOnce` (one line, 24 steps)
  and `CounterExact` (two lines, four tasks) fail; both start from the stale callback
  of `batch_stale_callback`.
- The payroll run's update of `recovered_kobo` names no status, so an advance written
  off between the run's read and its update is deducted as well. `BooksMatch` therefore
  says nothing of a written-off advance's receivable.
- `failBatchBeforeSend` moves lines from processing to pending, which is not an edge of
  `validTransitions`; it writes the column directly. `RetryFailedItems` does not clear
  `resolved_by`.
- The guard on `recovered_kobo` in the payroll run never fires in this model: payroll
  runs exclude each other, and only direct-debit collection also writes the column.
- `eligibilityTx` reads the pool's exposure in NGN whatever the worker's currency
  (`ewa_service.go:532`).

## 4. Theorems

Proved by TLAPS for all values of the constants that the modules' assumptions allow: any
finite set of lines, workers, deposits, advances, grants, employers and time entries, any
number of tasks, handlers, sweeps, requests, attempts, retries, collections, links, periods
and months, any pay, amounts, caps and policies. The assumptions are what the code or the
database gives: amounts and limits are natural numbers and the sets that are summed over are
finite; `None` is not an account and `NoRow` not a policy; a posting has at
least one line, of account types the chart knows. What is assumed of the environment is
said with each theorem.

Sums. Caps, pools, balances, hours and withholdings are sums over sets (`MapThenSumSet`),
which the library defines by a `CHOOSE` over recursive functions. `Sums_proofs` shows once
that the recursion has one solution on a finite set (`SolutionExists`, `SolutionsAgree`) and
from that what the invariants need: the sum after an element is added, removed or changed,
of a part, of a pointwise smaller function, over a union, under a renaming. Where an
induction is needed it is a smallest counterexample, from the library's `WFMin`. The other
modules cite these lemmas; a sum in a module that is instantiated is turned into `SumOf`
first (`SumIs`).

### PayrollBatch_proofs

- `TypeCorrect`, `CompletedStaysCompleted`: with no assumption on `Overlap`.
- `SerialInvariant`: `"settlement" \notin Overlap` implies `[]SerialInv`. The counter's
  exactness is not inductive by itself; a settlement might act on a line read long ago,
  or a second worker might release lines the first is about to send. `SerialInv` adds
  `WorkerOwnsBatch` (at most one task is past its claim, the lines at the bank are the
  ones it holds, and the bank has not seen their references), `HandlerReadsCurrent` (a
  served callback still finds what it read), `BankAgrees` (older references are
  unsent or failed, newer ones unsent), `WorkerReadsKnown` (what a worker read before
  claiming is current, or already known to the bank) and `PendingIsNotOverdue`.
- `CounterStaysExact`, `CompletedMeansPaid`, `NobodyPaidTwice`, `SupersededIgnored`:
  consequences of it.
- `BatchImplementsRun`: every step is a step of `DisbursementRun` or stutters.

These hold with `"retry"` in `Overlap`: admins may retry while tasks run. Two more need
`Overlap = {}`, retries that wait for the batch's task:

- `PatientInvariant`: `PatientInv` adds to them `OneTask` (one task is live, none while a
  retry is decided), `ReadsStayCurrent` (the worker's references are current and it has
  seen every pending line), `NothingLeftBehind` (a batch that is out has no pending line)
  and `UnsentIsUnknown`.
- `NeverResent`, `CompletedPaidEveryone`: consequences. Without the assumption both fail;
  section 3 says how.

### WageAdvance_proofs

With no assumption on the environment:

- `TypeCorrect`; `BooksInvariant`: `BooksInv` adds to the two properties below that
  nothing is recovered of an advance that never reached the worker, that a request under
  decision has no advance yet, and that what a payroll run read as disbursed can since
  have been written off but not otherwise moved (the lock).
- `OnlyPaidIsRecovered`, `BooksAlwaysMatch`: consequences.
- `LimitsInvariant`: the cap and the pool are not inductive, since a request decides on
  what it read. `LimitsInv` adds `OneRequest` (the organization's lock) and
  `EligibleStays`: what was found to fit the cap and the pool still fits, because what runs
  without the lock (callbacks, the payout worker, termination) only lowers what is owed.
- `CapAlwaysHolds`, `PoolAlwaysCovered`: consequences.
- `ForwardOnly`: every change of status is an edge.

### BackgroundWork_proofs

- `GrantInvariant`: `GrantIInv` adds to `GrantInv` that the pool's lock has one holder
  (`LockExclusive`), whose headroom lasts until it commits (`HeadroomKept`), that the row is
  not visible before its commit and its task is queued by then (`IssueOrder`), and that a
  grant is failed only when its transfer is known not to be paid (`KnownUnpaid`).
- `GrantsAlwaysAgree`: `[]GrantInv`.
- `BatchAlwaysAttended`: the safety behind the liveness of `BatchIntake`. With `ClaimOwnsBatch`
  (a task past its claim finds the batch processing, with lines at the bank exactly if it sends
  some) it is inductive that a batch queued or claimed has the task it waits for, and one only.
- `CheckAlwaysKept`: a definitive failure ends the task, and while a check asks, the lookups
  are no more than the attempts that are over (`CheckInv`).
- `WorkAlwaysKept`: both, of the composition.

### MoneyFlows_proofs

About collections, with no assumption on the number of sweeps or on lost answers:

- `TypeCorrect`; `BooksAlwaysMatch` (`DebitBooksMatch` is inductive as it stands: the CHECK bounds what
  another success may add); `ResolvedStays`.
- `OpenKeepsAttempts`: the count that decides the write-off includes the failure that is
  being recorded, so `OpenHasAttemptsLeft` is inductive as it stands.
- `MandateAlwaysAuthorized`, from `AuthorizationInv`: an authorization under way either
  is for a link that is gone, or began after the last withdrawal.
- `OnlyLandedIsRecovered`, from `LandedInv`: each sweep works on a row of its own that
  no callback can find, and a row recorded as successful has landed at the rail.

With one sweep at a time and no lost answer (`OneSweepWithAnswers`):

- `CollectionsAgree`: `[]CollectionInv`. That a worker is debited once is not inductive:
  it needs `SweepReadsCurrent` (what the sweep read is still so when it acts),
  `RailAgrees` (a failed collection has nothing at the rail) and `OneCollection` (at most
  one collection of an advance is in flight or successful, and not of a closed one).
- `DebitedOnce`: `[]DebitedAtMostOnce`.

Both assumptions are needed: `d2c_lost_answer` and the overlap described in section 3
show what happens without them.

About the composition: `FlowsSendOnce`, `FlowsPayEveryone` and `FlowsStayCovered` are the
theorems of `PayrollBatch_proofs` and `WageAdvance_proofs`, restated for the instances. A step
of `MoneyFlows` is a step of the instance or leaves its variables alone, so the instance's
specification follows from that of the composition; its assumptions follow from the
composition's, whose `Overlap <- {}` is the assumption `NeverResent` needs. That excludes
retries beside a live task; it does not exclude the redelivery of a task whose worker died after
the bank took the list and before the acknowledgment, which finds the batch claimed
(`TaskEnds`).

### SharedRecords_proofs

- `LedgerInvariant`, `LedgerAlwaysAgrees`: that a key posts once is not inductive; the
  invariant says that the unique indexes cover the uncommitted rows too (`RowsUnique`,
  `KeysUnique`), that the accounts a transaction uses are committed or its own, and that
  what a posting inserts had passed `ValidatePosting`. The cash balance is then the net of
  the postings by the sum lemmas.
- `KeyInvariant`, `KeyAlwaysHasOneEffect`, `ResponseAlwaysStands`: while handlers are faster
  than `inflightTTL` (`SlowHandlers <- FALSE`). Whoever is in the handler, or has yet to store or
  release, has the lock (`WorkersHoldKey`), a stored response is of committed work
  (`ResponseIsWork`), and committed work whose response was not lost is what the key holds
  (`WorkHoldsKey`). `SharedKeysWorkOnce` is the same of the composition.

### Accounts_proofs

- `RecordInvariant`: an open edit has its row's lock and read the row as it is, so saving the
  whole row does not bring a terminated employee back; `TerminationAlwaysStands` and
  `ChangesAlwaysTold` follow.
- `AdminInvariant`, `AdminAlwaysRemains`: one update is past the advisory lock and what it
  found allowed stays allowed (`StillAllowed`). `SessionInvariant`, `SessionsEnd`: a token is
  tied to the last proof of the password by its start and its end (`SessionBounds`).
- `CodeInvariant`, `CodesAlwaysWithinLimits`, with any command failing: the day's count covers
  the codes stored and those that requests under way may still store (`CountCovers`), and the
  guesses made and still open are covered by the codes stored (`GuessesCovered`).
- `PolicyInvariant`, `PolicyChangesAlwaysStand`, for any number of transactions that overlap
  in any way: what a transaction read is in force when it commits, and what it found allowed is
  still so, unless another one overtook it (`ReadsStand`); the trail ends with the policy in
  force. So the first to commit stands, and an overtaken update that undoes a column it did not
  carry begins its entry with another policy than the one the trail ended with.
- `DriftsAlwaysAddUp`, `AlertsAlwaysRight`: the wallet and the ledger, less what has reached
  only one of them, change by untracked movements only (`Tracked`); a pass that has been at
  rest all along has the balances as they are (`StillPassReads`); reports and strays both lead
  from one pass at rest to the present (`ReportsFollow`).
- `AccountsKeepAnAdmin`, `AccountsEndSessions`, `AccountsLimitCodes`, `AccountsKeepPolicies`,
  `AccountsAreReconciled`: the same of the composition. The parts "admins" and "sessions"
  restrict the employer's logins to several people at one moment and to one person over time;
  the theorem they rest on has neither restriction.

### PayRules_proofs

Arithmetic:

- `AddSubAlwaysExact`, `MulAlwaysExact`, `PercentAlwaysRounds`, `MajorAlwaysExact`: for every
  width (`Half`), with arguments that have it, factors that are not negative, and denominators
  twice which is at most `Half` (in the code none is above 10000). Each is a lemma
  about what the wrapped result shows of an overflow.
- `SumAlwaysExact`, `ParseAlwaysExact`: a total and a decimal reading are folds over a
  sequence. `Sums_proofs` shows that a fold is the last value of the one function that starts
  with the base and takes an element at each step (`FoldsOver`, `FoldExists`); the model's
  fold and the reference's are then compared position by position, by a smallest
  counterexample. For `ParseMoney`: what stands before and after the point, where the sign
  is, and that padding with zeros multiplies by the missing power of ten.
- `AmountsAlwaysExact`: all of them and the types.

Early pay:

- `PayInvariant`: that draws stay within wages earned and unpaid is not inductive, because a
  payroll pays one period and closes the advances of all earlier ones. `Covered` is: some
  payroll still to run is for no earlier a period than any open advance, and earns all that is
  outstanding, a salary or the wages of the days so far. A run for a period no
  open advance is later than then closes every advance, and any other leaves that payroll to
  be run. `DrawsAlwaysWithinWages` follows,
  unless an employer runs payroll before the period is over (`early`), when it is false.
- `LandsInvariant`: with `WithheldIs` (what is withheld, advance by advance, is all that is
  due or the whole pay), what is outstanding respects the floor or was so before it
  (`FloorKept`), and what was shown with nothing under way can still land (`ShownKept`).
  `DrawsAlwaysLeavePay`, `FloorAlwaysReachesPayday` and `ProjectionAlwaysLands` follow; they
  hold with early payrolls too, where `DrawsLeavePay` says nothing of unpaid wages.

Hours:

- `HoursInvariant`, `ApprovedDayAlwaysFits`, `PaidAlwaysFinal`: a worker's day has one lock
  holder (`OneDayLock`), what it read of the day is still so (`LockedReads`), a submission is
  a new row, and what a payroll run has read is still approved and unpaid
  (`RunReadsStand`).
- `PaysInvariant`, `ItemAlwaysPaysEntries`, `WeekAlwaysCounts`: the loop of `GrossPay` splits
  the entries at the threshold one at a time, oldest first. The model's fold over them is
  shown to add up, whatever the order, to what the reference says of the whole week: the
  minutes so far beyond the threshold, less those that were beyond it before the run. `PaysInv`
  then says that an item is what its entries add up to, and that of an open run what is still
  to be paid.

Bills and scores:

- `BillInvariant`, `DueAlwaysNext`, `DateAlwaysStands`: the computed date is on a day on which
  the bill falls and none earlier is from today on, for months of any length of 28 to 31 days.
- `PlanAlwaysFits`: the loop of the plan keeps that what it has taken and what is left add up
  to what there was, and that a bill it passed over did not fit then, and so not later.
- `HabitInvariant`, `ScoreAlwaysTells`, `DrawAlwaysNarrows`: a month's draws stay within its
  limit and its pay, after quiet steps there are none to count, and the score of a worker who
  has stopped is at most the one the last draw left. Each of the four scales is monotone, which
  is what a further draw and an older window need.

About the composition: `RulesLeavePay`, `RulesLandPayday`, `RulesAmountsExact`,
`RulesPayHoursOnce`, `RulesHoldBills`, `RulesTellHabits`.

Two definitions were changed because of these proofs. A `CASE` with several true guards is any
of their values in TLA+, where TLC takes the first: the tiers of `tierFor` now have disjoint
guards. A sort by a strict order of rows that tie has, by the library's definition, no result:
the comparisons of `PaydaySweep` and the order of entries in `TimeEntry` are no longer strict,
and the proofs hold for every order that agrees with the code's comparison.

The inductive invariants, the type invariants of the first three modules, and
`CompletedIsFinal`, `AdvanceMovesForward`, `OpenHasAttemptsLeft` and `ResolvedIsFinal` are
theorems only: TLC agreed with them before they were proved, so that no run checks them
again. Every invariant the runs check is a theorem, and every action property but
`DebitWaitsACycle` of `PaydaySweep`.

Model-checked only:

- liveness under fairness, which is out of the prover's reach: `LineLeavesBank`,
  `AdvanceIsResolved`, `WorkIsTakenUp`, `GrantSettles`, `LocksAndCapsLift`,
  `ApprovedIsPaid`, `CallersAreServed`;
- `PredictionIsSound`: the prediction sorts (`SortSeq` chooses among permutations) and its
  reference is a transitive closure; both need an induction over the movements that the
  provers cannot be given.

## 5. Not modelled

- Webhook signatures, tenancy (a filter on every query, and row-level security below it),
  the rate limits (a library's token bucket in a cache), encryption of columns: filters
  and codecs that keep no state across requests that the modules could tell apart.
- Wire formats of the providers, configuration, startup and metrics: pure I/O. The
  outcomes the code distinguishes are in the modules.
- Dashboards, analytics, payslips, accrual snapshots, evidence collection, compliance
  exports: read-only aggregates.
- Currencies other than one at a time: each module has one.
- Provisioning of a reserved account: one external call and one write.

## 6. Plan

1. One abstract specification of a payout (submitted once, confirmed or reversed once),
   implemented by advances and grants, with the refinement proved for both.
2. `ClusterIsAClass` and `OrderDoesNotMatter` of `PaydaySweep` for every set of movements,
   from a description of a cluster that is neither a sort nor a closure.
