------------------------------ MODULE BVNCheck ------------------------------
(***************************************************************************)
(* The BVN check of one new employee: a task on the low-priority queue,    *)
(* run at least once and at most MaxRetry times more, that asks Dojah and  *)
(* saves the outcome.  The queue redelivers a task whose worker stopped,   *)
(* as one more retry.                                                      *)
(***************************************************************************)
EXTENDS Integers

CONSTANTS
    MaxRetry,   \* asynq.MaxRetry
    ErrorPages  \* Dojah may answer with an error page that is JSON (a 5xx, a 429)

BVNCheckConstants == MaxRetry \in Nat /\ ErrorPages \in BOOLEAN

VARIABLES
    valid,    \* whether the BVN is the employee's: Dojah's answer once it has one
    task,     \* "none", "queued", "asking", "saving", "done", "dead" or "lost"
    retried,  \* retries used up
    outcome,  \* the row about to be saved
    rows,     \* bvn_verifications: how many rows of each status
    lookups,  \* history: answers Dojah gave, and billed
    refused   \* history: the task ended with a "failed" row

vars == <<valid, task, retried, outcome, rows, lookups, refused>>

\* The task's fields are well formed, and a lookup is paid for once per attempt.
TypeOK ==
    /\ valid \in BOOLEAN /\ refused \in BOOLEAN
    /\ task \in {"none", "queued", "asking", "saving", "done", "dead", "lost"}
    /\ retried \in 0 .. MaxRetry
    /\ outcome \in {"verified", "failed"}
    /\ rows \in [{"verified", "failed"} -> Nat]
    /\ lookups \in 0 .. retried + 1

Init ==
    /\ valid \in BOOLEAN
    /\ task = "none" /\ retried = 0 /\ outcome = "failed"
    /\ rows = [s \in {"verified", "failed"} |-> 0]
    /\ lookups = 0 /\ refused = FALSE

-----------------------------------------------------------------------------
\* CreateEmployee, after its commit; an enqueue that fails is logged, no more.
Enqueue ==
    /\ task = "none"
    /\ task' \in {"queued", "lost"}
    /\ UNCHANGED <<valid, retried, outcome, rows, lookups, refused>>

Start ==
    /\ task = "queued"
    /\ task' = "asking"
    /\ UNCHANGED <<valid, retried, outcome, rows, lookups, refused>>

\* An error of the handler, or its worker stopping: again later, or never.
Retry ==
    IF retried < MaxRetry
    THEN task' = "queued" /\ retried' = retried + 1
    ELSE task' = "dead" /\ UNCHANGED retried

\* Not configured, unreachable, an answer that is not JSON; or the worker stops.
AskFails ==
    /\ task = "asking"
    /\ Retry
    /\ UNCHANGED <<valid, outcome, rows, lookups, refused>>

\* Dojah answers: verified on 200 without an error, else failed.
Answer ==
    /\ task = "asking"
    /\ outcome' = IF valid THEN "verified" ELSE "failed"
    /\ lookups' = lookups + 1
    /\ task' = "saving"
    /\ UNCHANGED <<valid, retried, rows, refused>>

\* An error page decodes like an answer, and its status is not 200.
AnswerErrorPage ==
    /\ ErrorPages /\ task = "asking"
    /\ outcome' = "failed"
    /\ task' = "saving"
    /\ UNCHANGED <<valid, retried, rows, lookups, refused>>

\* saveBVNVerification fails, or the worker stops before it.
SaveFails ==
    /\ task = "saving"
    /\ Retry
    /\ UNCHANGED <<valid, outcome, rows, lookups, refused>>

Keep == rows' = [rows EXCEPT ![outcome] = @ + 1]

\* Bug: a failed check is an error like any other, and tried again.
MutSave ==
    /\ task = "saving"
    /\ Keep
    /\ refused' = (refused \/ outcome = "failed")
    /\ IF outcome = "verified" THEN task' = "done" /\ UNCHANGED retried ELSE Retry
    /\ UNCHANGED <<valid, outcome, lookups>>

\* The row is saved; a failed check ends the task too (SkipRetry).
Save ==
    /\ task = "saving"
    /\ Keep
    /\ refused' = (refused \/ outcome = "failed")
    /\ task' = IF outcome = "verified" THEN "done" ELSE "dead"
    /\ UNCHANGED <<valid, retried, outcome, lookups>>

\* The worker stops between the commit and the acknowledgement.
SaveUnacknowledged ==
    /\ task = "saving"
    /\ Keep
    /\ Retry
    /\ UNCHANGED <<valid, outcome, lookups, refused>>

Next ==
    \/ Enqueue \/ Start
    \/ AskFails \/ Answer \/ AnswerErrorPage
    \/ Save \/ SaveFails \/ SaveUnacknowledged

Spec == Init /\ [][Next]_vars

\* A queue with a worker running takes up what is queued and runs it to an end.
Fairness ==
    /\ WF_vars(Start)
    /\ WF_vars(AskFails \/ Answer \/ AnswerErrorPage)
    /\ WF_vars(Save \/ SaveFails \/ SaveUnacknowledged)

FairSpec == Spec /\ Fairness

-----------------------------------------------------------------------------
(* Properties *)

\* A task that ends well left the outcome in bvn_verifications: no result is lost
\* on the way, whatever failed and was tried again.
OutcomeKept ==
    /\ task = "done" => rows["verified"] > 0
    /\ refused => rows["failed"] > 0
    /\ task = "dead" /\ retried < MaxRetry => refused

\* ProcessBVNTask, on a definitive failure: "retrying would only re-bill the same
\* lookup and write another failed row".  It is not asked again.
NotAskedAgain == [][refused => lookups' = lookups]_vars

\* Every check that was queued comes to an end.
CheckEnds == task = "queued" ~> task \in {"done", "dead"}

\* A check ends with its outcome kept, and a definitive answer is asked for once
\* (ProcessBVNTask, saveBVNVerification).
CheckIsKept == [](TypeOK /\ OutcomeKept) /\ NotAskedAgain
=============================================================================
