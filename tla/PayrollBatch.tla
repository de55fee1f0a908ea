---------------------------- MODULE PayrollBatch ----------------------------
(***************************************************************************)
(* The life of one payroll batch after CreatePayroll has committed it: the *)
(* Asynq task that hands its lines to Monnify, the callbacks that settle   *)
(* them, an admin's retry of the failed lines and manual resolution of the *)
(* overdue ones, a worker that crashes, a job queue that refuses a task.   *)
(*                                                                         *)
(* One action is one database transaction, one call to the bank or one     *)
(* read whose result is used after other processes may have run.  Row      *)
(* locks make every transaction below atomic from its first UPDATE on; the *)
(* reads that come before it are steps of their own:                       *)
(*   - ProcessPayrollTask reads the lines, then claims the batch;          *)
(*   - the webhook looks the line up outside any transaction, then settles *)
(*     it in one;                                                          *)
(*   - RetryFailedItems reads the batch's status, then releases its lines. *)
(***************************************************************************)
EXTENDS Naturals, FiniteSets

CONSTANTS
    Items,       \* the payroll lines of the batch, one per employee
    ZeroNet,     \* lines with nothing to pay: completed at creation
    Leavers,     \* lines whose employee may leave or vanish
    Tasks,       \* bound: enqueue calls, one by CreatePayroll, one per retry
    Handlers,    \* webhook requests being served at the same time
    MaxAttempt,  \* bound: attempts at paying one line
    MaxRetry,    \* asynq.MaxRetry: deliveries of a task after the first
    Overlap      \* which windows other processes may run in (see below)

(***************************************************************************)
(* Overlap says what the environment does.  "settlement": a callback is    *)
(* redelivered, or the line resolved by hand, while an earlier delivery is *)
(* still being served.  "retry": an admin calls retry while a task of the  *)
(* batch is still queued or running.  Nothing in the code prevents either. *)
(***************************************************************************)
ASSUME ConstantsAssumption ==
    /\ IsFiniteSet(Items)
    /\ ZeroNet \subseteq Items
    /\ Leavers \subseteq Items
    /\ Tasks # {}
    /\ MaxAttempt \in Nat \ {0}
    /\ MaxRetry \in Nat
    /\ Overlap \subseteq {"settlement", "retry"}

VARIABLES
    status,        \* payrolls.status
    pendingCount,  \* payrolls.pending_count
    itemStatus,    \* payroll_items.status
    attempt,       \* payroll_items.attempt
    resolvedBy,    \* payroll_items.resolved_by is set
    overdue,       \* StuckAfter has passed since payroll_items.sent_at
    employee,      \* employees: active, inactive (terminated) or gone
    task,          \* Asynq tasks and the worker goroutine running each
    handler,       \* webhook requests between their lookup and their write
    retry,         \* an admin's retry holding the batch's advisory lock
    bank,          \* external: what Monnify made of each reference
    sends          \* history: accepted submissions of each reference

batchVars == <<status, pendingCount, itemStatus, attempt, resolvedBy>>
vars == <<status, pendingCount, itemStatus, attempt, resolvedBy, overdue,
          employee, task, handler, retry, bank, sends>>

PayrollStatus == {"pending", "processing", "completed", "failed"}

\* The reference a line is sent under names the line and its attempt.
Refs == Items \X (1 .. MaxAttempt)
ItemReference(i) == <<i, attempt[i]>>
LinesOf(refs) == {r[1] : r \in refs}

TaskRec ==
    [pc : {"unused", "enqueue", "queued", "claim", "finalize", "send",
           "rejected", "done"},
     sendable : SUBSET Refs, orphaned : SUBSET Items, tries : 0 .. MaxRetry]
TaskIdle == [pc |-> "unused", sendable |-> {}, orphaned |-> {}, tries |-> 0]
HandlerIdle == [pc |-> "idle"]
HandlerBusy ==
    [pc : {"settle"}, item : Items, prev : {"pending", "processing"},
     next : {"completed", "failed"}, ref : Refs]

TypeOK ==
    /\ status \in PayrollStatus
    /\ pendingCount \in Nat
    /\ itemStatus \in [Items -> PayrollStatus]
    /\ attempt \in [Items -> 1 .. MaxAttempt]
    /\ resolvedBy \in [Items -> BOOLEAN]
    /\ overdue \in [Items -> BOOLEAN]
    /\ employee \in [Items -> {"active", "inactive", "gone"}]
    /\ task \in [Tasks -> TaskRec]
    /\ handler \in [Handlers -> {HandlerIdle} \cup HandlerBusy]
    /\ retry \in BOOLEAN
    /\ bank \in [Refs -> {"none", "accepted", "paid", "mispaid", "failed"}]
    /\ sends \in [Refs -> Nat]

-----------------------------------------------------------------------------
(* The status machine shared by batches and lines (models.go).             *)

validTransitions ==
    [pending    |-> {"processing", "failed"},
     processing |-> {"completed", "failed"},
     failed     |-> {"pending", "processing"},
     completed  |-> {}]

CanTransition(from, to) == to \in validTransitions[from]

ItemsIn(s) == {i \in Items : itemStatus[i] = s}

\* Mutant: a batch fails only when every line of it has.
MutVerdict(lines) ==
    IF \A i \in Items : lines[i] = "failed" THEN "failed" ELSE "completed"

\* completed/failed, from the lines as they stand in the transaction.
BatchVerdict(lines) ==
    IF \E i \in Items : lines[i] = "failed" THEN "failed" ELSE "completed"

-----------------------------------------------------------------------------
(* CreatePayroll has committed the batch and is about to enqueue its task. *)

Init ==
    /\ status = "pending"
    /\ pendingCount = 0
    /\ itemStatus = [i \in Items |->
                        IF i \in ZeroNet THEN "completed" ELSE "pending"]
    /\ attempt = [i \in Items |-> 1]
    /\ resolvedBy = [i \in Items |-> FALSE]
    /\ overdue = [i \in Items |-> FALSE]
    /\ employee = [i \in Items |-> "active"]
    /\ \E t \in Tasks :
          task = [u \in Tasks |->
                     IF u = t THEN [TaskIdle EXCEPT !.pc = "enqueue"]
                              ELSE TaskIdle]
    /\ handler = [h \in Handlers |-> HandlerIdle]
    /\ retry = FALSE
    /\ bank = [r \in Refs |-> "none"]
    /\ sends = [r \in Refs |-> 0]

\* Client.Enqueue after the commit: the queue takes the task, or refuses it
\* (or the process dies first) and the caller is told to try again.
EnqueueTask(t) ==
    /\ task[t].pc = "enqueue"
    /\ \E pc \in {"queued", "done"} : task' = [task EXCEPT ![t].pc = pc]
    /\ UNCHANGED <<batchVars, overdue, employee, handler, retry, bank, sends>>

-----------------------------------------------------------------------------
(* ProcessPayrollTask.                                                     *)

\* Asynq delivers a task again after an error or a lost worker, until its
\* retries are used up; SkipRetry and success end it.
Redeliver(t) ==
    IF task[t].tries < MaxRetry
    THEN [pc |-> "queued", sendable |-> {}, orphaned |-> {},
          tries |-> task[t].tries + 1]
    ELSE [TaskIdle EXCEPT !.pc = "done"]

\* The task's work is over, and acknowledged.  A worker that dies just before the
\* acknowledgment leaves the task to be delivered again.
EndTask(t) ==
    \E rec \in {[TaskIdle EXCEPT !.pc = "done"], Redeliver(t)} :
        task' = [task EXCEPT ![t] = rec]

\* Mutant: a task delivered again sends the lines it had claimed.
MutLoadBatch(t) ==
    /\ task[t].pc = "queued"
    /\ LET S == IF status = "processing" THEN ItemsIn("processing") ELSE ItemsIn("pending")
       IN task' = [task EXCEPT ![t] =
                      [pc |-> IF status = "processing" THEN "send" ELSE "claim",
                       sendable |-> {ItemReference(i) : i \in S},
                       orphaned |-> {}, tries |-> task[t].tries]]
    /\ UNCHANGED <<batchVars, overdue, employee, handler, retry, bank, sends>>

\* Phase 1 reads: only pending lines may be sent, under the references read
\* here; a line whose employee has vanished can never produce a callback.
LoadBatch(t) ==
    /\ task[t].pc = "queued"
    /\ LET lost == {i \in ItemsIn("pending") : employee[i] = "gone"} IN
       task' = [task EXCEPT ![t] =
                   [pc |-> "claim",
                    sendable |-> {ItemReference(i) : i \in ItemsIn("pending") \ lost},
                    orphaned |-> lost, tries |-> task[t].tries]]
    /\ UNCHANGED <<batchVars, overdue, employee, handler, retry, bank, sends>>

\* Mutant: the WHERE clause excludes only completed batches.
MutClaimable == status # "completed"

\* The statuses the worker's compare-and-set starts from.
Claimable == status \in {"pending", "failed"}

\* Mutant: the lines are not marked processing before the bank is called.
MutClaim(t) ==
    LET S == LinesOf(task[t].sendable) IN
    /\ task[t].pc = "claim"
    /\ Claimable
    /\ status' = "processing"
    /\ pendingCount' = Cardinality(S)
    /\ task' = [task EXCEPT ![t].pc = IF S = {} THEN "finalize" ELSE "send"]
    /\ UNCHANGED <<itemStatus, overdue, attempt, resolvedBy, employee, handler,
                   retry, bank, sends>>

\* Phase 1 writes: the compare-and-set on the batch's status, the counter, the
\* lines to send and the orphaned lines, in one transaction.
ClaimBatch(t) ==
    LET S == LinesOf(task[t].sendable)
        lost == task[t].orphaned \cap ItemsIn("pending")
    IN
    /\ task[t].pc = "claim"
    /\ Claimable
    /\ S \subseteq ItemsIn("pending")
    /\ status' = "processing"
    /\ pendingCount' = Cardinality(S)
    /\ itemStatus' = [i \in Items |-> IF i \in S THEN "processing"
                                      ELSE IF i \in lost THEN "failed"
                                      ELSE itemStatus[i]]
    /\ overdue' = [i \in Items |-> overdue[i] /\ i \notin S]
    /\ task' = [task EXCEPT ![t].pc = IF S = {} THEN "finalize" ELSE "send"]
    /\ UNCHANGED <<attempt, resolvedBy, employee, handler, retry, bank, sends>>

\* A batch that is already processing or completed: a duplicate task, or one
\* delivered again after its list was taken.  SkipRetry ends it.
ClaimStale(t) ==
    /\ task[t].pc = "claim"
    /\ ~ Claimable
    /\ EndTask(t)
    /\ UNCHANGED <<batchVars, overdue, employee, handler, retry, bank, sends>>

\* Some line was no longer pending: the transaction rolls back, Asynq retries.
ClaimRollback(t) ==
    /\ task[t].pc = "claim"
    /\ Claimable
    /\ ~ LinesOf(task[t].sendable) \subseteq ItemsIn("pending")
    /\ task' = [task EXCEPT ![t] = Redeliver(t)]
    /\ UNCHANGED <<batchVars, overdue, employee, handler, retry, bank, sends>>

\* Nothing to send: the worker closes the batch itself, in a second
\* transaction.  An illegal transition is an error, which Asynq retries.
FinalizePayroll(t) ==
    LET next == BatchVerdict(itemStatus) IN
    /\ task[t].pc = "finalize"
    /\ IF CanTransition(status, next)
       THEN status' = next /\ EndTask(t)
       ELSE status' = status /\ task' = [task EXCEPT ![t] = Redeliver(t)]
    /\ UNCHANGED <<pendingCount, itemStatus, attempt, resolvedBy, overdue,
                   employee, handler, retry, bank, sends>>

\* InitiateBulkTransfer.  The bank takes the list, and answers or not; or it
\* never sees the list and the worker cannot tell (ErrOutcomeUnknown).  Either
\* way the lines stay processing and the task is over, or comes back beside them.
BulkTransferTaken(t) ==
    /\ task[t].pc = "send"
    /\ bank' = [r \in Refs |-> IF r \in task[t].sendable /\ bank[r] = "none"
                               THEN "accepted" ELSE bank[r]]
    /\ sends' = [r \in Refs |-> IF r \in task[t].sendable THEN sends[r] + 1 ELSE sends[r]]
    /\ EndTask(t)
    /\ UNCHANGED <<batchVars, overdue, employee, handler, retry>>

BulkTransferLost(t) ==
    /\ task[t].pc = "send"
    /\ EndTask(t)
    /\ UNCHANGED <<batchVars, overdue, employee, handler, retry, bank, sends>>

\* The bank definitely did not take the list.
BulkTransferRejected(t) ==
    /\ task[t].pc = "send"
    /\ task' = [task EXCEPT ![t].pc = "rejected"]
    /\ UNCHANGED <<batchVars, overdue, employee, handler, retry, bank, sends>>

\* The batch fails and every processing line goes back to pending; if the
\* batch has moved meanwhile, nothing changes.  The error makes Asynq retry.
FailBatchBeforeSend(t) ==
    /\ task[t].pc = "rejected"
    /\ \/ /\ status = "processing"
          /\ status' = "failed"
          /\ itemStatus' = [i \in Items |-> IF itemStatus[i] = "processing"
                                            THEN "pending" ELSE itemStatus[i]]
          /\ overdue' = [i \in Items |-> overdue[i] /\ itemStatus[i] # "processing"]
       \/ /\ status # "processing"
          /\ UNCHANGED <<status, itemStatus, overdue>>
    /\ task' = [task EXCEPT ![t] = Redeliver(t)]
    /\ UNCHANGED <<pendingCount, attempt, resolvedBy, employee, handler, retry,
                   bank, sends>>

\* The worker process dies, or its transaction fails, between two steps.
WorkerCrash(t) ==
    /\ task[t].pc \in {"claim", "finalize", "send", "rejected"}
    /\ task' = [task EXCEPT ![t] = Redeliver(t)]
    /\ UNCHANGED <<batchVars, overdue, employee, handler, retry, bank, sends>>

-----------------------------------------------------------------------------
(* Settlement: the provider's callback and the admin's resolution.         *)

\* SettlePayrollItem with reconcilePayrollStatus: the line's compare-and-set,
\* the guarded decrement, and the batch's closing by whoever reaches zero.
\* A line another writer has moved is left alone; an illegal batch transition
\* rolls everything back.
SettlePayrollItem(i, prev, next) ==
    LET lines == [itemStatus EXCEPT ![i] = next]
        closes == pendingCount = 1
        verdict == BatchVerdict(lines)
    IN
    IF itemStatus[i] = prev /\ (closes => CanTransition(status, verdict))
    THEN /\ itemStatus' = lines
         /\ pendingCount' = IF pendingCount > 0 THEN pendingCount - 1
                                                ELSE pendingCount
         /\ status' = IF closes THEN verdict ELSE status
    ELSE UNCHANGED <<itemStatus, pendingCount, status>>

Serving(i) == \E h \in Handlers : handler[h].pc = "settle" /\ handler[h].item = i

MaySettle(i) == "settlement" \in Overlap \/ ~ Serving(i)

EventStatus == [paid |-> "completed", mispaid |-> "completed", failed |-> "failed"]

\* Mutants: the webhook checks the attempt but not the amount, or the amount
\* but not the attempt.
MutAnyAmount(r) == bank[r] \in {"paid", "mispaid", "failed"} /\ r[2] = attempt[r[1]]
MutAnyAttempt(r) == bank[r] \in {"paid", "failed"}

\* A callback about a decided transfer, with the line's amount and attempt.
CallbackApplies(r) == bank[r] \in {"paid", "failed"} /\ r[2] = attempt[r[1]]

\* The webhook looks the line up.  It answers without touching anything when
\* the attempt is superseded, the line is final, the amount differs from the
\* line's (mispaid) or the move is not an edge; otherwise it goes on with what
\* it has read.  A decided reference is called back any number of times,
\* late, in any order, or never.
HandlePayrollItemWebhook(h, r) ==
    LET i == r[1] IN
    /\ handler[h].pc = "idle"
    /\ MaySettle(i)
    /\ CallbackApplies(r)
    /\ itemStatus[i] \notin {"completed", "failed"}
    /\ CanTransition(itemStatus[i], EventStatus[bank[r]])
    /\ handler' = [handler EXCEPT ![h] =
                      [pc |-> "settle", item |-> i, prev |-> itemStatus[i],
                       next |-> EventStatus[bank[r]], ref |-> r]]
    /\ UNCHANGED <<batchVars, overdue, employee, task, retry, bank, sends>>

WebhookSettles(h) ==
    /\ handler[h].pc = "settle"
    /\ SettlePayrollItem(handler[h].item, handler[h].prev, handler[h].next)
    /\ handler' = [handler EXCEPT ![h] = HandlerIdle]
    /\ UNCHANGED <<attempt, resolvedBy, overdue, employee, task, retry, bank,
                   sends>>

\* The transaction fails: 500, and the provider delivers again later.
WebhookFails(h) ==
    /\ handler[h].pc = "settle"
    /\ handler' = [handler EXCEPT ![h] = HandlerIdle]
    /\ UNCHANGED <<batchVars, overdue, employee, task, retry, bank, sends>>

\* What the admin finds at the provider: the evidence a resolution quotes.
Attests(i, next) ==
    IF next = "completed"
    THEN bank[ItemReference(i)] \in {"paid", "mispaid"}
    ELSE bank[ItemReference(i)] \in {"none", "failed"}

\* Mutants: a line may be resolved however recently it was sent, or only when
\* the provider knows its reference.
MutAnyAge(i) == itemStatus[i] = "processing"
MutKnownOnly(i) ==
    itemStatus[i] = "processing" /\ overdue[i] /\ bank[ItemReference(i)] # "none"

\* Only a line sent StuckAfter ago and still processing may be resolved by hand.
Resolvable(i) == itemStatus[i] = "processing" /\ overdue[i]

ResolveItem(i, next) ==
    /\ ~ retry
    /\ MaySettle(i)
    /\ Resolvable(i)
    /\ Attests(i, next)
    /\ SettlePayrollItem(i, "processing", next)
    /\ resolvedBy' = [resolvedBy EXCEPT ![i] = @ \/ itemStatus'[i] = next]
    /\ UNCHANGED <<attempt, overdue, employee, task, handler, retry, bank, sends>>

-----------------------------------------------------------------------------
(* RetryFailedItems.                                                       *)

Live(t) == task[t].pc \notin {"unused", "done"}

MayRetry == "retry" \in Overlap \/ \A t \in Tasks : ~ Live(t)

Retryable == {i \in ItemsIn("failed") : employee[i] = "active"}

\* The advisory lock is taken and the batch found failed.
RetryCheck ==
    /\ ~ retry
    /\ MayRetry
    /\ status = "failed"
    /\ retry' = TRUE
    /\ UNCHANGED <<batchVars, overdue, employee, task, handler, bank, sends>>

\* The failed lines of active employees become pending under a new attempt;
\* lines already pending are resumed.  After the commit a task is enqueued.
RetryApply(t) ==
    /\ retry
    /\ task[t].pc = "unused"
    /\ \A i \in Retryable : attempt[i] < MaxAttempt
    /\ ItemsIn("pending") \cup Retryable # {}
    /\ itemStatus' = [i \in Items |-> IF i \in Retryable THEN "pending"
                                                        ELSE itemStatus[i]]
    /\ attempt' = [i \in Items |-> IF i \in Retryable THEN attempt[i] + 1
                                                     ELSE attempt[i]]
    /\ overdue' = [i \in Items |-> overdue[i] /\ i \notin Retryable]
    /\ retry' = FALSE
    /\ task' = [task EXCEPT ![t].pc = "enqueue"]
    /\ UNCHANGED <<status, pendingCount, resolvedBy, employee, handler, bank,
                   sends>>

\* Nothing to retry, an error, or a lost connection: the lock goes with the
\* transaction.
RetryEnds ==
    /\ retry
    /\ retry' = FALSE
    /\ UNCHANGED <<batchVars, overdue, employee, task, handler, bank, sends>>

-----------------------------------------------------------------------------
(* The environment: the bank, the clock, employees.                        *)

BankDecides(r) ==
    /\ bank[r] = "accepted"
    /\ \E o \in {"paid", "mispaid", "failed"} : bank' = [bank EXCEPT ![r] = o]
    /\ UNCHANGED <<batchVars, overdue, employee, task, handler, retry, sends>>

\* StuckAfter (2h) is longer than a worker can hold a line it has read or
\* claimed (Asynq's 30m task timeout), so no line is overdue meanwhile.
BecomesOverdue(i) ==
    /\ itemStatus[i] = "processing"
    /\ ~ overdue[i]
    /\ \A t \in Tasks :
          task[t].pc \in {"claim", "send", "rejected"}
             => i \notin LinesOf(task[t].sendable)
    /\ overdue' = [overdue EXCEPT ![i] = TRUE]
    /\ UNCHANGED <<batchVars, employee, task, handler, retry, bank, sends>>

\* Terminate clears is_active; a record can also be soft-deleted by an operator.
EmployeeLeaves(i) ==
    /\ i \in Leavers
    /\ \E e \in {"inactive", "gone"} :
          /\ employee[i] # "gone"
          /\ employee[i] # e
          /\ employee' = [employee EXCEPT ![i] = e]
    /\ UNCHANGED <<batchVars, overdue, task, handler, retry, bank, sends>>

Worker(t) ==
    \/ LoadBatch(t)
    \/ ClaimBatch(t)
    \/ ClaimStale(t)
    \/ ClaimRollback(t)
    \/ FinalizePayroll(t)
    \/ BulkTransferTaken(t)
    \/ BulkTransferLost(t)
    \/ BulkTransferRejected(t)
    \/ FailBatchBeforeSend(t)

Next ==
    \/ \E t \in Tasks : EnqueueTask(t)
    \/ \E t \in Tasks : Worker(t)
    \/ \E t \in Tasks : WorkerCrash(t)
    \/ \E h \in Handlers, r \in Refs : HandlePayrollItemWebhook(h, r)
    \/ \E h \in Handlers : WebhookSettles(h)
    \/ \E h \in Handlers : WebhookFails(h)
    \/ \E i \in Items, next \in {"completed", "failed"} : ResolveItem(i, next)
    \/ RetryCheck
    \/ \E t \in Tasks : RetryApply(t)
    \/ RetryEnds
    \/ \E r \in Refs : BankDecides(r)
    \/ \E i \in Items : BecomesOverdue(i)
    \/ \E i \in Items : EmployeeLeaves(i)

Spec == Init /\ [][Next]_vars

\* Asynq keeps delivering, the bank decides, the stuck-payout alert makes an admin look at
\* an overdue line again and again, and a request holding the advisory lock ends.  No
\* callback need ever arrive or succeed.
Fairness ==
    /\ \A t \in Tasks : WF_vars(Worker(t))
    /\ WF_vars(\E r \in Refs : BankDecides(r))
    /\ \A i \in Items :
          /\ WF_vars(BecomesOverdue(i))
          /\ SF_vars(\E next \in {"completed", "failed"} : ResolveItem(i, next))
    /\ WF_vars(RetryEnds)

FairSpec == Spec /\ Fairness

-----------------------------------------------------------------------------
(* What makes the batch correct.                                           *)

\* The counter a settlement decrements is exactly the number of lines still
\* with the bank, and only a processing batch has such lines: the batch closes
\* on the last settlement, neither earlier nor twice (UPDATE ... RETURNING in
\* SettlePayrollItem, the compare-and-set of ProcessPayrollTask).
CounterExact ==
    /\ status = "processing" => pendingCount = Cardinality(ItemsIn("processing"))
    /\ status # "processing" => ItemsIn("processing") = {}

\* A paid line is never touched again and a completed batch never reopens,
\* whichever of the worker, a callback, a retry or a resolution comes next.
CompletedIsFinal ==
    [][/\ \A i \in Items : itemStatus[i] = "completed"
                              => itemStatus'[i] = "completed"
       /\ status = "completed" => status' = "completed"]_vars

\* Over all its attempts the bank pays a line at most once, with callbacks
\* lost, repeated and late, workers crashing and outcomes unknown.
PaidAtMostOnce ==
    \A i \in Items :
        Cardinality({a \in 1 .. MaxAttempt :
                        bank[<<i, a>>] \in {"paid", "mispaid"}}) <= 1

\* No reference is handed to the bank a second time once it has been taken:
\* ErrOutcomeUnknown and a redelivered task never resend.
SentAtMostOnce == \A r \in Refs : sends[r] <= 1

\* A line recorded as completed was paid by the bank in full under its current
\* reference, or resolved by an admin, or had nothing to pay: the webhook's
\* amount check and attempt check.
CompletedLineIsPaid ==
    \A i \in Items \ ZeroNet :
        itemStatus[i] = "completed" =>
            \/ bank[ItemReference(i)] = "paid"
            \/ bank[ItemReference(i)] = "mispaid" /\ resolvedBy[i]

\* The batch does what DisbursementRun promises: pending and failed lines are
\* due, processing ones are out, and the attempt is the reference.
LineState ==
    [pending |-> "due", failed |-> "due", processing |-> "out", completed |-> "paid"]

Run == INSTANCE DisbursementRun
          WITH Lines <- Items,
               line <- [i \in Items |-> LineState[itemStatus[i]]],
               ref <- attempt

\* Only one run of a batch is ever out, its lines are paid or come back, and no
\* line changes its reference while the bank may act on it, although tasks are
\* duplicated and retries race them (ProcessPayrollTask, RetryFailedItems).
ImplementsRun == Run!Spec

\* A completed batch has paid everyone: no line of it is failed, or pending
\* and never to be sent (reconcilePayrollStatus, finalizePayroll).
CompletedBatchPaidEveryone ==
    status = "completed" => \A i \in Items : itemStatus[i] = "completed"

\* A callback changes a line only while the attempt it is about is the current
\* one (handlePayrollItemWebhook's attempt check).
SupersededCallbackIgnored ==
    [][\A h \in Handlers :
          handler[h].pc = "settle" /\ handler'[h] # handler[h]
          /\ itemStatus' # itemStatus
          => handler[h].ref = ItemReference(handler[h].item)]_vars

\* Every line handed to the bank eventually leaves processing, whatever the
\* worker, the network and the callbacks do: ResolveItem is the way out.
LineLeavesBank ==
    \A i \in Items : itemStatus[i] = "processing" ~> itemStatus[i] # "processing"

-----------------------------------------------------------------------------
(* Why the money properties hold when the deliveries for one line are      *)
(* served one at a time ("settlement" \notin Overlap): an invariant that   *)
(* is inductive with TypeOK.                                               *)

Active(t) == task[t].pc \in {"finalize", "send", "rejected"}
Holds(t) == task[t].pc \in {"claim", "send", "rejected"}

\* One worker at a time has the batch; the lines with the bank are exactly the
\* ones it is about to send, and nobody else can move them.
WorkerOwnsBatch ==
    \A t \in Tasks : Active(t) =>
        /\ status = "processing"
        /\ ItemsIn("processing") = LinesOf(task[t].sendable)
        /\ task[t].pc = "finalize" => task[t].sendable = {}
        /\ \A u \in Tasks : Active(u) => u = t
        /\ \A i \in LinesOf(task[t].sendable) :
              bank[ItemReference(i)] = "none" /\ ~ overdue[i]

\* A request being served still finds the line as it read it.
HandlerReadsCurrent ==
    \A h \in Handlers : handler[h].pc = "settle" =>
        LET i == handler[h].item
            r == handler[h].ref
        IN /\ itemStatus[i] = "processing" /\ handler[h].prev = "processing"
           /\ r = ItemReference(i)
           /\ bank[r] \in {"paid", "failed"} /\ handler[h].next = EventStatus[bank[r]]
           /\ \A g \in Handlers :
                 handler[g].pc = "settle" /\ handler[g].item = i => g = h

\* What the bank can have made of each reference, given where the line is.
BankAgrees ==
    \A i \in Items :
        /\ \A a \in 1 .. MaxAttempt :
              /\ a > attempt[i] => bank[<<i, a>>] = "none"
              /\ a < attempt[i] => bank[<<i, a>>] \in {"none", "failed"}
        /\ itemStatus[i] = "pending" => bank[ItemReference(i)] = "none"
        /\ itemStatus[i] = "failed" => bank[ItemReference(i)] \in {"none", "failed"}

\* A reference a worker has read is the current one or one the bank has seen.
WorkerReadsKnown ==
    \A t \in Tasks : Holds(t) =>
        /\ \A i \in task[t].orphaned : employee[i] = "gone"
        /\ \A r \in task[t].sendable :
              /\ r[2] <= attempt[r[1]]
              /\ r[2] < attempt[r[1]] => bank[r] # "none"
              /\ itemStatus[r[1]] = "failed" /\ r[2] = attempt[r[1]]
                    => bank[r] # "none" \/ employee[r[1]] = "gone"
              /\ ~ overdue[r[1]]

PendingIsNotOverdue == \A i \in Items : itemStatus[i] = "pending" => ~ overdue[i]

SerialInv ==
    /\ CounterExact
    /\ WorkerOwnsBatch
    /\ HandlerReadsCurrent
    /\ BankAgrees
    /\ WorkerReadsKnown
    /\ PendingIsNotOverdue
    /\ CompletedLineIsPaid
=============================================================================
