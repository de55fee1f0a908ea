--------------------------- MODULE HardshipGrant ---------------------------
(***************************************************************************)
(* Hardship grants: an admin gives a worker money from the employer's      *)
(* funding pool, a task submits the transfer, and the provider's callback  *)
(* confirms or reverses it.                                                *)
(*                                                                         *)
(* The task is enqueued inside the transaction that records the grant, so  *)
(* it may run before the grant is visible, and exists even if the commit   *)
(* fails.  The pool is shared with wage advances, under one lock.          *)
(***************************************************************************)
EXTENDS Integers, FiniteSetsExt

CONSTANTS
    Grants,      \* grants that may be issued
    Amount,      \* ewa_hardship_grants.amount_kobo
    Deposits,    \* what the employer has paid into the pool
    Coverage,    \* policy.RequireFundingCoverage
    MaxRetry     \* grantTaskMaxRetry

ASSUME GrantConstants ==
    /\ IsFiniteSet(Grants)
    /\ Amount \in [Grants -> Nat \ {0}]
    /\ Deposits \in Nat
    /\ Coverage \in BOOLEAN
    /\ MaxRetry \in Nat

VARIABLES
    status,      \* ewa_hardship_grants.status; "none" until the row is visible
    expense,     \* the grant's entries in hardship_grant_expense, debits less credits
    cash,        \* its entries in cash_settlement, credits less debits
    advanced,    \* what wage advances have drawn from the pool
    drawing,     \* a RequestAdvance that has the lock and found room, else 0
    issuing,     \* the transaction of each IssueHardshipGrant
    active,      \* employees.is_active of the worker
    configured,  \* the registry has a provider for the organization's currency
    task,        \* the payout task of each grant
    retries,     \* how often the task has been retried
    bank         \* external: what the provider made of the transfer

books == <<status, expense, cash>>
pool == <<advanced, drawing>>
queue == <<task, retries>>
world == <<active, configured>>
vars == <<status, expense, cash, advanced, drawing, issuing, active, configured,
          task, retries, bank>>

TypeOK ==
    /\ status \in [Grants -> {"none", "pending", "submitted", "disbursed", "failed"}]
    /\ expense \in [Grants -> Int]
    /\ cash \in [Grants -> Int]
    /\ advanced \in Nat
    /\ drawing \in Nat
    /\ issuing \in [Grants -> {"idle", "locked", "enqueued", "done"}]
    /\ active \in BOOLEAN
    /\ configured \in BOOLEAN
    /\ task \in [Grants -> {"none", "queued", "send", "record", "reject", "ended",
                            "archived"}]
    /\ retries \in [Grants -> 0 .. MaxRetry]
    /\ bank \in [Grants -> {"none", "accepted", "paid", "mispaid", "failed"}]

Init ==
    /\ status = [g \in Grants |-> "none"]
    /\ expense = [g \in Grants |-> 0]
    /\ cash = [g \in Grants |-> 0]
    /\ advanced = 0 /\ drawing = 0
    /\ issuing = [g \in Grants |-> "idle"]
    /\ active = TRUE
    /\ configured \in BOOLEAN
    /\ task = [g \in Grants |-> "none"]
    /\ retries = [g \in Grants |-> 0]
    /\ bank = [g \in Grants |-> "none"]

\* The advisory lock ewa_advance:<org> is free.
LockFree == drawing = 0 /\ \A g \in Grants : issuing[g] \notin {"locked", "enqueued"}

\* FundingExposure: what has been drawn less what has been deposited.
FundingExposure == advanced + MapThenSumSet(LAMBDA g : cash[g], Grants) - Deposits

\* The headroom is the exposure's opposite when it is negative, else zero.
Covered(x) == Coverage => x <= (IF FundingExposure < 0 THEN - FundingExposure ELSE 0)

-----------------------------------------------------------------------------
(* IssueHardshipGrant.                                                     *)

\* The lock, the worker and the pool; the row, its ledger entry and its audit
\* record are written, not yet visible.
IssueBegin(g) ==
    /\ issuing[g] = "idle"
    /\ LockFree
    /\ active
    /\ Covered(Amount[g])
    /\ issuing' = [issuing EXCEPT ![g] = "locked"]
    /\ UNCHANGED <<books, pool, world, queue, bank>>

\* EnqueueHardshipGrantDisbursement, the last statement.
EnqueueGrant(g) ==
    /\ issuing[g] = "locked"
    /\ issuing' = [issuing EXCEPT ![g] = "enqueued"]
    /\ task' = [task EXCEPT ![g] = "queued"]
    /\ UNCHANGED <<books, pool, world, retries, bank>>

\* The enqueue fails, or the commit does: nothing of the grant remains but the
\* task, if there is one.
IssueRollsBack(g) ==
    /\ issuing[g] \in {"locked", "enqueued"}
    /\ issuing' = [issuing EXCEPT ![g] = "done"]
    /\ UNCHANGED <<books, pool, world, queue, bank>>

IssueCommit(g) ==
    /\ issuing[g] = "enqueued"
    /\ issuing' = [issuing EXCEPT ![g] = "done"]
    /\ status' = [status EXCEPT ![g] = "pending"]
    /\ expense' = [expense EXCEPT ![g] = @ + Amount[g]]
    /\ cash' = [cash EXCEPT ![g] = @ + Amount[g]]
    /\ UNCHANGED <<pool, world, queue, bank>>

\* RequestAdvance draws on the same pool under the same lock: it checks the
\* pool, then posts and commits.
AdvanceBegin(x) ==
    /\ LockFree
    /\ Covered(x)
    /\ drawing' = x
    /\ UNCHANGED <<books, advanced, issuing, world, queue, bank>>

AdvanceCommit ==
    /\ drawing # 0
    /\ advanced' = advanced + drawing
    /\ drawing' = 0
    /\ UNCHANGED <<books, issuing, world, queue, bank>>

WorkerLeaves ==
    /\ active
    /\ active' = FALSE
    /\ UNCHANGED <<books, pool, issuing, configured, queue, bank>>

-----------------------------------------------------------------------------
(* The two ways a grant is resolved (models/hardship_grant.go), each a     *)
(* compare-and-set on pending or submitted.                                *)

Open(g) == status[g] \in {"pending", "submitted"}

\* FailGrant mirrors the ledger entry of the issue; a grant that has moved on is
\* left alone (ErrStaleStatus).
FailGrant(g) ==
    IF Open(g)
    THEN /\ status' = [status EXCEPT ![g] = "failed"]
         /\ expense' = [expense EXCEPT ![g] = @ - Amount[g]]
         /\ cash' = [cash EXCEPT ![g] = @ - Amount[g]]
    ELSE UNCHANGED books

ConfirmGrantDisbursed(g) ==
    /\ Open(g)
    /\ status' = [status EXCEPT ![g] = "disbursed"]
    /\ UNCHANGED <<expense, cash>>

-----------------------------------------------------------------------------
(* ProcessHardshipGrantDisbursementTask.                                   *)

Goto(g, pc) == task' = [task EXCEPT ![g] = pc]

\* The task returns an error: asynq runs it again, or archives it when its
\* retries are used up.
Retry(g) ==
    IF retries[g] < MaxRetry
    THEN /\ Goto(g, "queued")
         /\ retries' = [retries EXCEPT ![g] = @ + 1]
    ELSE Goto(g, "archived") /\ UNCHANGED retries

\* A missing grant ends the task.
MutMissing(g) ==
    /\ task[g] = "queued"
    /\ status[g] = "none"
    /\ Goto(g, "ended")
    /\ UNCHANGED <<books, pool, issuing, world, retries, bank>>

\* Not found is retried: the task may have run ahead of the commit.
LoadMissing(g) ==
    /\ task[g] = "queued"
    /\ status[g] = "none"
    /\ Retry(g)
    /\ UNCHANGED <<books, pool, issuing, world, bank>>

LoadGrant(g) ==
    /\ task[g] = "queued"
    /\ status[g] # "none"
    /\ IF status[g] = "pending" THEN Goto(g, "send") ELSE Goto(g, "ended")
    /\ UNCHANGED <<books, pool, issuing, world, retries, bank>>

\* No provider settles the currency: the grant is failed and the task not retried.
NoProvider(g) ==
    /\ task[g] = "send" /\ ~ configured
    /\ FailGrant(g)
    /\ Goto(g, "ended")
    /\ UNCHANGED <<pool, issuing, world, retries, bank>>

\* InitiateTransfer is keyed by the grant: the provider takes a reference once
\* and repeats its answer.
Taken(g) == bank' = IF bank[g] = "none" THEN [bank EXCEPT ![g] = "accepted"] ELSE bank

TransferAccepted(g) ==
    /\ task[g] = "send" /\ configured
    /\ Taken(g)
    /\ Goto(g, "record")
    /\ UNCHANGED <<books, pool, issuing, world, retries>>

\* An unreachable rail taken for a refusal.
MutUnavailable(g) ==
    /\ task[g] = "send" /\ configured
    /\ bank' = bank \/ Taken(g)
    /\ Goto(g, "reject")
    /\ UNCHANGED <<books, pool, issuing, world, retries>>

\* The rail cannot be reached or understood; the transfer may exist.
TransferUnavailable(g) ==
    /\ task[g] = "send" /\ configured
    /\ bank' = bank \/ Taken(g)
    /\ Retry(g)
    /\ UNCHANGED <<books, pool, issuing, world>>

TransferRejected(g) ==
    /\ task[g] = "send" /\ configured
    /\ bank[g] \in {"none", "failed"}
    /\ Goto(g, "reject")
    /\ UNCHANGED <<books, pool, issuing, world, retries, bank>>

FailRejected(g) ==
    /\ task[g] = "reject"
    /\ FailGrant(g)
    /\ Goto(g, "ended")
    /\ UNCHANGED <<pool, issuing, world, retries, bank>>

\* MarkGrantSubmitted, a compare-and-set on pending.  When it cannot be written
\* the task is not retried: the provider has the transfer.
RecordSubmission(g) ==
    /\ task[g] = "record"
    /\ \/ status' = [status EXCEPT ![g] = IF @ = "pending" THEN "submitted" ELSE @]
       \/ status' = status
    /\ Goto(g, "ended")
    /\ UNCHANGED <<expense, cash, pool, issuing, world, retries, bank>>

\* The worker dies and asynq recovers the task, or a write of the task fails.
TaskCrash(g) ==
    /\ task[g] \in {"send", "record", "reject"}
    /\ Retry(g)
    /\ UNCHANGED <<books, pool, issuing, world, bank>>

-----------------------------------------------------------------------------
(* The provider, and handleHardshipGrantWebhook: callbacks come once,      *)
(* again, late or never.                                                   *)

BankDecides(g) ==
    /\ bank[g] = "accepted"
    /\ \E o \in {"paid", "mispaid", "failed"} : bank' = [bank EXCEPT ![g] = o]
    /\ UNCHANGED <<books, pool, issuing, world, queue>>

\* A success callback with another amount than the grant's is refused.
WebhookConfirms(g) ==
    /\ bank[g] = "paid"
    /\ ConfirmGrantDisbursed(g)
    /\ UNCHANGED <<pool, issuing, world, queue, bank>>

WebhookFails(g) ==
    /\ bank[g] = "failed"
    /\ Open(g)
    /\ FailGrant(g)
    /\ UNCHANGED <<pool, issuing, world, queue, bank>>

TaskStep(g) ==
    \/ LoadMissing(g) \/ LoadGrant(g) \/ NoProvider(g)
    \/ TransferAccepted(g) \/ TransferUnavailable(g) \/ TransferRejected(g)
    \/ FailRejected(g) \/ RecordSubmission(g)

Next ==
    \/ \E g \in Grants :
          \/ IssueBegin(g) \/ EnqueueGrant(g) \/ IssueRollsBack(g) \/ IssueCommit(g)
          \/ TaskStep(g) \/ TaskCrash(g)
          \/ BankDecides(g) \/ WebhookConfirms(g) \/ WebhookFails(g)
    \/ \E x \in 1 .. Deposits : AdvanceBegin(x)
    \/ AdvanceCommit
    \/ WorkerLeaves

Spec == Init /\ [][Next]_vars

\* Asynq runs its tasks, transactions end, the provider decides and redelivers a
\* callback until it is answered.
Fairness ==
    \A g \in Grants :
        /\ WF_vars(TaskStep(g))
        /\ WF_vars(EnqueueGrant(g) \/ IssueRollsBack(g) \/ IssueCommit(g))
        /\ WF_vars(BankDecides(g))
        /\ WF_vars(WebhookConfirms(g) \/ WebhookFails(g))

FairSpec == Spec /\ Fairness

-----------------------------------------------------------------------------
(* Properties.                                                             *)

\* The ledger carries a grant exactly while it is or may still be paid, whichever of
\* the worker and the callback resolves it first (FailGrant's compare-and-set).
BooksFollowGrant ==
    \A g \in Grants :
        /\ expense[g] = cash[g]
        /\ cash[g] = IF status[g] \in {"none", "failed"} THEN 0 ELSE Amount[g]

\* A grant is reversed only when no transfer of it can still reach the worker, and
\* disbursed only when the worker has the grant's own amount.
StatusMatchesMoney ==
    \A g \in Grants :
        /\ status[g] = "failed" => bank[g] \in {"none", "failed"}
        /\ status[g] = "disbursed" => bank[g] = "paid"

\* Grants and advances together never draw more than was deposited, however their
\* transactions interleave (the lock and the headroom check).
PoolCovered == Coverage => FundingExposure <= 0

\* A grant is never recorded without a payout task (the enqueue inside the issue).
RecordedHasTask == \A g \in Grants : status[g] # "none" => task[g] # "none"

\* A recorded grant leaves pending unless its task used up its retries or ended with
\* the transfer in the provider's hands, even when the task ran ahead of the commit.
GrantIsTakenUp ==
    \A g \in Grants :
        status[g] = "pending" ~> \/ status[g] # "pending"
                                 \/ task[g] = "archived"
                                 \/ bank[g] = "mispaid"

\* Money that reached the worker in the grant's amount is recorded as disbursed.
PaidIsDisbursed == \A g \in Grants : bank[g] = "paid" ~> status[g] = "disbursed"

\* A grant's status, its entries and its task always agree with what the rail has
\* done with its money, and the pool covers it (IssueHardshipGrant, FailGrant,
\* ConfirmGrantDisbursed).
GrantInv ==
    TypeOK /\ BooksFollowGrant /\ StatusMatchesMoney /\ PoolCovered /\ RecordedHasTask

\* A grant does not stay pending, and one that was paid comes to be disbursed.
GrantSettles == GrantIsTakenUp /\ PaidIsDisbursed
=============================================================================
