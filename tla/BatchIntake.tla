---------------------------- MODULE BatchIntake ----------------------------
(***************************************************************************)
(* How a payroll batch gets to the worker and out of its hands: a batch is *)
(* committed and then queued, claimed in one transaction and, when it has  *)
(* nothing to send, closed in another; the bank rejects a list and the     *)
(* task is tried again; an admin's retry releases failed lines and queues  *)
(* the batch once more.  Any of these may be the last thing that happens.  *)
(*                                                                         *)
(* What lines are worth, and what callbacks may do, is PayrollBatch's; a   *)
(* line with the bank is settled here in one step.                         *)
(***************************************************************************)
EXTENDS Integers, FiniteSets

CONSTANTS
    Lines,
    Tasks,        \* tasks on the queue at a time
    MaxRetry,     \* asynq.MaxRetry
    MaxReleases   \* bound on the lines released by retries

BatchIntakeConstants ==
    IsFiniteSet(Lines) /\ MaxRetry \in Nat /\ MaxReleases \in Nat

VARIABLES
    faults,   \* "queue": an enqueue may fail; "stop": a worker may stop, or its
              \* database fail, after the claim
    batch,    \* payrolls.status, "none" before it is created
    line,     \* payroll_items.status
    task,     \* where each task is
    tries,    \* tries left to each task
    released  \* lines released so far

vars == <<faults, batch, line, task, tries, released>>

Free == {t \in Tasks : task[t] = "none"}
In(status) == {l \in Lines : line[l] = status}

\* The statuses are the model's, and only a batch being processed has lines with
\* the bank.
TypeOK ==
    /\ faults \subseteq {"queue", "stop"}
    /\ batch \in {"none", "pending", "processing", "completed", "failed"}
    /\ line \in [Lines -> {"pending", "processing", "completed", "failed"}]
    /\ task \in [Tasks -> {"none", "queued", "closing", "sending"}]
    /\ tries \in [Tasks -> 0 .. MaxRetry]
    /\ released \in 0 .. MaxReleases
    /\ batch # "processing" => In("processing") = {}

Init ==
    /\ faults \in SUBSET {"queue", "stop"}
    /\ batch = "none"
    /\ line = [l \in Lines |-> "pending"]
    /\ task = [t \in Tasks |-> "none"] /\ tries = [t \in Tasks |-> 0]
    /\ released = 0

-----------------------------------------------------------------------------
(* The queue. *)
Enqueue ==
    \/ \E t \in Free :
        /\ task' = [task EXCEPT ![t] = "queued"]
        /\ tries' = [tries EXCEPT ![t] = MaxRetry]
    \/ "queue" \in faults /\ UNCHANGED <<task, tries>>

\* An error, or a worker that stopped: the task is delivered again, or archived.
Again(t) ==
    IF tries[t] > 0
    THEN task' = [task EXCEPT ![t] = "queued"] /\ tries' = [tries EXCEPT ![t] = @ - 1]
    ELSE task' = [task EXCEPT ![t] = "none"] /\ UNCHANGED tries

Over(t) == task' = [task EXCEPT ![t] = "none"] /\ UNCHANGED tries

-----------------------------------------------------------------------------
\* CreatePayroll: lines with nothing to pay are settled at once, the rest wait;
\* the enqueue follows the commit.
CreatePayroll(nothing) ==
    /\ batch = "none"
    /\ batch' = "pending"
    /\ line' = [l \in Lines |-> IF l \in nothing THEN "completed" ELSE "pending"]
    /\ Enqueue
    /\ UNCHANGED <<faults, released>>

Claimable == batch \in {"pending", "failed"}

\* Phase 1 of ProcessPayrollTask: lines whose employee has vanished fail, the
\* others go to the bank.  A batch that is not there to claim ends the task.
Claim(t, orphaned) ==
    LET sendable == In("pending") \ orphaned IN
    /\ task[t] = "queued" /\ Claimable
    /\ orphaned \subseteq In("pending")
    /\ batch' = "processing"
    /\ line' = [l \in Lines |-> IF l \in orphaned THEN "failed"
                                ELSE IF l \in sendable THEN "processing" ELSE line[l]]
    /\ task' = [task EXCEPT ![t] = IF sendable = {} THEN "closing" ELSE "sending"]
    /\ UNCHANGED <<faults, tries, released>>

ClaimStale(t) ==
    /\ task[t] = "queued" /\ ~Claimable
    /\ Over(t)
    /\ UNCHANGED <<faults, batch, line, released>>

Outcome(failed) == IF failed = {} THEN "completed" ELSE "failed"

\* finalizePayroll.
Close(t) ==
    /\ task[t] = "closing"
    /\ batch' = Outcome(In("failed"))
    /\ Over(t)
    /\ UNCHANGED <<faults, line, released>>

\* What the claim committed stays; a bank that was being called may have the list.
StopAfterClaim(t) ==
    /\ "stop" \in faults /\ task[t] \in {"closing", "sending"}
    /\ Again(t)
    /\ UNCHANGED <<faults, batch, line, released>>

\* The bank took the list, or may have: the task is over.
Sent(t) ==
    /\ task[t] = "sending"
    /\ Over(t)
    /\ UNCHANGED <<faults, batch, line, released>>

\* failBatchBeforeSend: nothing was sent, the lines wait again.
Rejected(t) ==
    /\ task[t] = "sending"
    /\ batch' = "failed"
    /\ line' = [l \in Lines |-> IF line[l] = "processing" THEN "pending" ELSE line[l]]
    /\ Again(t)
    /\ UNCHANGED <<faults, released>>

\* A callback, or an admin once it is overdue; the last one closes the batch.
Settle(l, to) ==
    /\ line[l] = "processing" /\ \A t \in Tasks : task[t] # "sending"
    /\ line' = [line EXCEPT ![l] = to]
    /\ batch' = IF In("processing") = {l}
                THEN Outcome(In("failed") \cup {k \in {l} : to = "failed"})
                ELSE batch
    /\ UNCHANGED <<faults, task, tries, released>>

\* Bug: without failed lines there is nothing to retry.
MutToSend(retry) == retry

\* The lines a retry finds waiting: just released, or by a retry never queued.
ToSend(retry) == retry \cup In("pending")

\* RetryFailedItems: lines of people still employed are released, and whatever
\* waits is queued after the commit.
RetryFailedItems(retry) ==
    /\ batch = "failed"
    /\ retry \subseteq In("failed") /\ released + Cardinality(retry) <= MaxReleases
    /\ ToSend(retry) # {}
    /\ line' = [l \in Lines |-> IF l \in retry THEN "pending" ELSE line[l]]
    /\ released' = released + Cardinality(retry)
    /\ Enqueue
    /\ UNCHANGED <<faults, batch>>

Next ==
    \/ \E s \in SUBSET Lines : CreatePayroll(s) \/ RetryFailedItems(s)
    \/ \E t \in Tasks :
        \/ \E s \in SUBSET Lines : Claim(t, s)
        \/ ClaimStale(t) \/ Close(t) \/ StopAfterClaim(t) \/ Sent(t) \/ Rejected(t)
    \/ \E l \in Lines, to \in {"completed", "failed"} : Settle(l, to)

Spec == Init /\ [][Next]_vars

(* Workers run; lines with the bank are settled, if need be by hand; and an admin
   whose retry could not be queued calls again, which works some time, as the
   error asks. *)
Queued(s) == RetryFailedItems(s) /\ \E t \in Tasks : task[t] = "none" /\ task'[t] = "queued"

Fairness ==
    /\ \A t \in Tasks :
        /\ WF_vars(ClaimStale(t) \/ \E s \in SUBSET Lines : Claim(t, s))
        /\ WF_vars(Close(t) \/ Sent(t) \/ Rejected(t) \/ StopAfterClaim(t))
    /\ \A l \in Lines : WF_vars(\E to \in {"completed", "failed"} : Settle(l, to))
    /\ SF_vars(\E s \in SUBSET Lines : Queued(s))

FairSpec == Spec /\ Fairness

-----------------------------------------------------------------------------
(* Properties *)

\* What keeps a batch from being forgotten, state by state: one that was queued is on
\* the queue until it is claimed, one that was claimed with nothing to send has the task
\* that will close it, and no two tasks are past a claim (the status checks of
\* ProcessPayrollTask), as far as the faults of the behaviour allow.
SomebodyIsAtIt ==
    /\ batch = "pending" /\ "queue" \notin faults => \E t \in Tasks : task[t] = "queued"
    /\ batch = "processing" /\ In("processing") = {} /\ "stop" \notin faults
          => \E t \in Tasks : task[t] = "closing"
    /\ \A t, u \in Tasks : {task[t], task[u]} \subseteq {"closing", "sending"} => t = u

\* RetryFailedItems "also resumes a batch whose retry was committed but never
\* queued": lines waiting in a failed batch are taken up, however often the queue
\* is down or the bank rejects the list.
WaitingIsTakenUp ==
    (batch = "failed" /\ In("pending") # {}) ~> batch = "processing"

\* CreatePayroll and its worker: a batch that is created is taken up, while the queue
\* takes what it is given.  (Nothing takes up a batch that could not be queued.)
CreatedIsTakenUp ==
    (batch = "pending" /\ "queue" \notin faults) ~> batch # "pending"

\* "Nothing left to disburse - resolve the batch here; no webhook will ever
\* arrive": a claimed batch with nothing at the bank is closed, while workers do not
\* stop.  (One that stops between the claim and the close leaves it for good.)
EmptyIsClosed ==
    (batch = "processing" /\ In("processing") = {} /\ "stop" \notin faults)
        ~> batch \in {"completed", "failed"}

\* No batch is left to itself: new ones and lines that wait are taken up, and one
\* with nothing to send is closed (CreatePayroll, ProcessPayrollTask,
\* RetryFailedItems), as far as the faults of the behaviour allow.
BatchIsTakenUp == WaitingIsTakenUp /\ CreatedIsTakenUp /\ EmptyIsClosed
=============================================================================
