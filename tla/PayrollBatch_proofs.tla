------------------------ MODULE PayrollBatch_proofs ------------------------
(* Proofs about PayrollBatch, for every batch, task queue and bound.        *)
EXTENDS PayrollBatch, FiniteSetTheorems, TLAPS

-----------------------------------------------------------------------------
(* Typing.                                                                  *)

\* The tasks a finished, crashed or failed delivery leaves behind are tasks.
LEMMA TaskTypes ==
    ASSUME TypeOK, NEW t \in Tasks
    PROVE  /\ TaskIdle \in TaskRec
           /\ [TaskIdle EXCEPT !.pc = "enqueue"] \in TaskRec
           /\ [TaskIdle EXCEPT !.pc = "done"] \in TaskRec
           /\ Redeliver(t) \in TaskRec
<1>1. MaxRetry \in Nat
  BY ConstantsAssumption
<1>2. task[t] \in TaskRec
  BY DEF TypeOK, TaskRec
<1>3. TaskIdle \in TaskRec
  BY <1>1 DEF TaskIdle, TaskRec
<1>4. \A pc \in {"queued", "enqueue", "done"} :
         [TaskIdle EXCEPT !.pc = pc] \in TaskRec
  BY <1>3 DEF TaskIdle, TaskRec
<1>5. ASSUME task[t].tries < MaxRetry
      PROVE  task[t].tries + 1 \in 0 .. MaxRetry
  BY <1>1, <1>2, <1>5 DEF TaskRec
<1>6. Redeliver(t) \in TaskRec
  BY <1>4, <1>5 DEF Redeliver, TaskRec
<1> QED
  BY <1>3, <1>4, <1>6

\* Settling a line keeps the batch well typed, whatever the line was.
LEMMA SettleTypes ==
    ASSUME TypeOK, NEW i \in Items, NEW prev, NEW next \in {"completed", "failed"},
           SettlePayrollItem(i, prev, next)
    PROVE  /\ status' \in PayrollStatus
           /\ pendingCount' \in Nat
           /\ itemStatus' \in [Items -> PayrollStatus]
<1>1. BatchVerdict([itemStatus EXCEPT ![i] = next]) \in PayrollStatus
  BY DEF BatchVerdict, PayrollStatus
<1>2. [itemStatus EXCEPT ![i] = next] \in [Items -> PayrollStatus]
  BY DEF TypeOK, PayrollStatus
<1> QED
  BY <1>1, <1>2 DEF SettlePayrollItem, TypeOK

\* Each step of a task moves it to another record of its type.
LEMMA TaskStepTypes ==
    ASSUME TypeOK, NEW t \in Tasks
    PROVE  /\ \A pc \in {"enqueue", "queued", "claim", "finalize", "send", "rejected", "done"} :
                 [task EXCEPT ![t].pc = pc] \in [Tasks -> TaskRec]
           /\ \A rec \in TaskRec : [task EXCEPT ![t] = rec] \in [Tasks -> TaskRec]
  BY DEF TypeOK, TaskRec

\* A task that ends is done, or queued to be delivered again.
LEMMA TaskEnds ==
    ASSUME TypeOK, NEW t \in Tasks, EndTask(t)
    PROVE  /\ task' \in [Tasks -> TaskRec]
           /\ task'[t].pc \in {"queued", "done"}
           /\ \A u \in Tasks \ {t} : task'[u] = task[u]
<1>1. PICK rec \in {[TaskIdle EXCEPT !.pc = "done"], Redeliver(t)} :
         task' = [task EXCEPT ![t] = rec]
  BY DEF EndTask
<1>2. rec \in TaskRec
  BY <1>1, TaskTypes
<1>3. rec.pc \in {"queued", "done"}
  BY <1>1 DEF Redeliver, TaskIdle
<1> QED
  BY <1>1, <1>2, <1>3, TaskStepTypes DEF TypeOK

\* Initially every variable has its type.
LEMMA InitTypes == Init => TypeOK
<1> SUFFICES ASSUME Init PROVE TypeOK
  OBVIOUS
<1>1. TaskIdle \in TaskRec /\ [TaskIdle EXCEPT !.pc = "enqueue"] \in TaskRec
  BY ConstantsAssumption DEF TaskIdle, TaskRec
<1>2. task \in [Tasks -> TaskRec]
  BY <1>1 DEF Init
<1>3. 1 \in 1 .. MaxAttempt
  BY ConstantsAssumption
<1> QED
  BY <1>2, <1>3 DEF Init, TypeOK, PayrollStatus

\* Every action keeps every variable in its type.
LEMMA NextTypes == TypeOK /\ [Next]_vars => TypeOK'
<1> SUFFICES ASSUME TypeOK, [Next]_vars PROVE TypeOK'
  OBVIOUS
<1>1. ASSUME NEW t \in Tasks, EnqueueTask(t) PROVE TypeOK'
  <2>1. PICK pc \in {"queued", "done"} : task' = [task EXCEPT ![t].pc = pc]
    BY <1>1 DEF EnqueueTask
  <2>2. task' \in [Tasks -> TaskRec]
    BY <2>1, TaskStepTypes
  <2> QED
    BY <1>1, <2>2 DEF EnqueueTask, TypeOK, batchVars
<1>2. ASSUME NEW t \in Tasks, Worker(t) PROVE TypeOK'
  <2>1. CASE LoadBatch(t)
    <3> DEFINE lost == {i \in ItemsIn("pending") : employee[i] = "gone"}
               rec == [pc |-> "claim",
                       sendable |-> {ItemReference(i) : i \in ItemsIn("pending") \ lost},
                       orphaned |-> lost, tries |-> task[t].tries]
    <3>1. rec.sendable \in SUBSET Refs
      BY DEF ItemReference, ItemsIn, Refs, TypeOK
    <3>2. rec \in TaskRec
      BY <3>1 DEF TypeOK, TaskRec, ItemsIn
    <3>3. task' = [task EXCEPT ![t] = rec]
      BY <2>1 DEF LoadBatch
    <3>4. task' \in [Tasks -> TaskRec]
      BY <3>2, <3>3, TaskStepTypes
    <3> QED
      BY <2>1, <3>4 DEF LoadBatch, TypeOK, batchVars
  <2>2. CASE ClaimBatch(t)
    <3>1. LinesOf(task[t].sendable) \in SUBSET Items
      BY DEF TypeOK, TaskRec, LinesOf, Refs
    <3>2. Cardinality(LinesOf(task[t].sendable)) \in Nat
      BY <3>1, ConstantsAssumption, FS_Subset, FS_CardinalityType
    <3>3. task' \in [Tasks -> TaskRec]
      BY <2>2, TaskStepTypes DEF ClaimBatch, Claimable
    <3>4. overdue' \in [Items -> BOOLEAN]
      BY <2>2 DEF ClaimBatch, Claimable
    <3>5. itemStatus' \in [Items -> PayrollStatus]
      BY <2>2 DEF ClaimBatch, Claimable, TypeOK, PayrollStatus
    <3> QED
      BY <2>2, <3>2, <3>3, <3>4, <3>5 DEF ClaimBatch, Claimable, TypeOK, PayrollStatus
  <2>3. CASE ClaimStale(t)
    BY <2>3, TaskEnds DEF ClaimStale, TypeOK, batchVars
  <2>4. CASE ClaimRollback(t)
    BY <2>4, TaskTypes, TaskStepTypes DEF ClaimRollback, TypeOK, batchVars
  <2>5. CASE FinalizePayroll(t)
    <3>1. EndTask(t) \/ task' = [task EXCEPT ![t] = Redeliver(t)]
      BY <2>5 DEF FinalizePayroll
    <3>2. task' \in [Tasks -> TaskRec]
      <4>1. Redeliver(t) \in TaskRec
        BY TaskTypes
      <4>2. CASE EndTask(t)
        BY <4>2, TaskEnds
      <4>3. CASE task' = [task EXCEPT ![t] = Redeliver(t)]
        BY <4>1, <4>3, TaskStepTypes
      <4> QED
        BY <3>1, <4>2, <4>3
    <3>3. status' \in PayrollStatus
      BY <2>5 DEF FinalizePayroll, BatchVerdict, TypeOK, PayrollStatus
    <3> QED
      BY <2>5, <3>2, <3>3 DEF FinalizePayroll, TypeOK
  <2>6. CASE BulkTransferTaken(t)
    <3>1. task' \in [Tasks -> TaskRec]
      BY <2>6, TaskEnds DEF BulkTransferTaken
    <3>2. bank' \in [Refs -> {"none", "accepted", "paid", "mispaid", "failed"}]
      BY <2>6 DEF BulkTransferTaken, TypeOK
    <3>3. sends' \in [Refs -> Nat]
      BY <2>6 DEF BulkTransferTaken, TypeOK
    <3> QED
      BY <2>6, <3>1, <3>2, <3>3 DEF BulkTransferTaken, TypeOK, batchVars
  <2>7. CASE BulkTransferLost(t)
    BY <2>7, TaskEnds DEF BulkTransferLost, TypeOK, batchVars
  <2>8. CASE BulkTransferRejected(t)
    BY <2>8, TaskStepTypes DEF BulkTransferRejected, TypeOK, batchVars
  <2>9. CASE FailBatchBeforeSend(t)
    <3>1. overdue' \in [Items -> BOOLEAN]
      BY <2>9 DEF FailBatchBeforeSend, TypeOK
    <3>2. task' \in [Tasks -> TaskRec]
      BY <2>9, TaskTypes, TaskStepTypes DEF FailBatchBeforeSend
    <3>3. itemStatus' \in [Items -> PayrollStatus] /\ status' \in PayrollStatus
      BY <2>9 DEF FailBatchBeforeSend, TypeOK, PayrollStatus
    <3> QED
      BY <2>9, <3>1, <3>2, <3>3 DEF FailBatchBeforeSend, TypeOK
  <2> QED
    BY <1>2, <2>1, <2>2, <2>3, <2>4, <2>5, <2>6, <2>7, <2>8, <2>9 DEF Worker
<1>3. ASSUME NEW t \in Tasks, WorkerCrash(t) PROVE TypeOK'
  BY <1>3, TaskTypes, TaskStepTypes DEF WorkerCrash, TypeOK, batchVars
<1>4. ASSUME NEW h \in Handlers, NEW r \in Refs, HandlePayrollItemWebhook(h, r)
      PROVE  TypeOK'
  <2>1. r[1] \in Items
    BY DEF Refs
  <2>2. itemStatus[r[1]] \in {"pending", "processing"}
    BY <1>4, <2>1 DEF HandlePayrollItemWebhook, CallbackApplies, TypeOK, PayrollStatus
  <2>3. EventStatus[bank[r]] \in {"completed", "failed"}
    BY <1>4 DEF HandlePayrollItemWebhook, CallbackApplies, EventStatus
  <2>4. [pc |-> "settle", item |-> r[1], prev |-> itemStatus[r[1]],
         next |-> EventStatus[bank[r]], ref |-> r] \in HandlerBusy
    BY <2>1, <2>2, <2>3 DEF HandlerBusy
  <2> QED
    BY <1>4, <2>4 DEF HandlePayrollItemWebhook, CallbackApplies, TypeOK, batchVars
<1>5. ASSUME NEW h \in Handlers, WebhookSettles(h) PROVE TypeOK'
  <2>1. handler[h] \in HandlerBusy
    BY <1>5 DEF WebhookSettles, TypeOK, HandlerIdle
  <2>2. handler[h].item \in Items /\ handler[h].next \in {"completed", "failed"}
    BY <2>1 DEF HandlerBusy
  <2> QED
    BY <1>5, <2>2, SettleTypes DEF WebhookSettles, TypeOK
<1>6. ASSUME NEW h \in Handlers, WebhookFails(h) PROVE TypeOK'
  BY <1>6 DEF WebhookFails, TypeOK, batchVars
<1>7. ASSUME NEW i \in Items, NEW next \in {"completed", "failed"}, ResolveItem(i, next)
      PROVE  TypeOK'
  <2>1. resolvedBy' \in [Items -> BOOLEAN]
    BY <1>7 DEF ResolveItem, Resolvable, TypeOK
  <2> QED
    BY <1>7, <2>1, SettleTypes DEF ResolveItem, Resolvable, TypeOK
<1>8. ASSUME RetryCheck PROVE TypeOK'
  BY <1>8 DEF RetryCheck, TypeOK, batchVars
<1>9. ASSUME NEW t \in Tasks, RetryApply(t) PROVE TypeOK'
  <2>1. overdue' \in [Items -> BOOLEAN]
    BY <1>9 DEF RetryApply, TypeOK
  <2>2. attempt' \in [Items -> 1 .. MaxAttempt]
    BY <1>9, ConstantsAssumption DEF RetryApply, TypeOK
  <2>3. itemStatus' \in [Items -> PayrollStatus]
    BY <1>9 DEF RetryApply, TypeOK, PayrollStatus
  <2> QED
    BY <1>9, <2>1, <2>2, <2>3, TaskStepTypes DEF RetryApply, TypeOK
<1>10. ASSUME RetryEnds PROVE TypeOK'
  BY <1>10 DEF RetryEnds, TypeOK, batchVars
<1>11. ASSUME NEW r \in Refs, BankDecides(r) PROVE TypeOK'
  BY <1>11 DEF BankDecides, TypeOK, batchVars
<1>12. ASSUME NEW i \in Items, BecomesOverdue(i) PROVE TypeOK'
  BY <1>12 DEF BecomesOverdue, TypeOK, batchVars
<1>13. ASSUME NEW i \in Items, EmployeeLeaves(i) PROVE TypeOK'
  BY <1>13 DEF EmployeeLeaves, TypeOK, batchVars
<1>14. CASE UNCHANGED vars
  BY <1>14 DEF vars, TypeOK
<1> QED
  BY <1>1, <1>2, <1>3, <1>4, <1>5, <1>6, <1>7, <1>8, <1>9, <1>10, <1>11, <1>12,
     <1>13, <1>14 DEF Next

\* The rows, the queue, the requests and the bank only ever hold values of
\* their types: in particular every line keeps one of the four statuses and
\* the counter never goes below zero (the WHERE pending_count > 0 guard).
THEOREM TypeCorrect == Spec => []TypeOK
  BY InitTypes, NextTypes, PTL DEF Spec

-----------------------------------------------------------------------------
(* Finality: needs no assumption about what overlaps.                       *)

\* A paid line stays paid and a completed batch stays completed in every step:
\* each writer names the statuses it moves away from in its WHERE clause.
THEOREM CompletedStaysCompleted == Spec => CompletedIsFinal
<1>1. TypeOK /\ [Next]_vars =>
        [/\ \A i \in Items : itemStatus[i] = "completed" => itemStatus'[i] = "completed"
         /\ status = "completed" => status' = "completed"]_vars
  <2> SUFFICES ASSUME TypeOK, Next
               PROVE  /\ \A i \in Items : itemStatus[i] = "completed"
                                             => itemStatus'[i] = "completed"
                      /\ status = "completed" => status' = "completed"
    OBVIOUS
  <2>1. ASSUME NEW i \in Items, NEW prev \in {"pending", "processing"},
               NEW next \in {"completed", "failed"}, SettlePayrollItem(i, prev, next)
        PROVE  /\ \A j \in Items : itemStatus[j] = "completed"
                                      => itemStatus'[j] = "completed"
               /\ status = "completed" => status' = "completed"
    BY <2>1 DEF SettlePayrollItem, CanTransition, validTransitions, TypeOK
  <2>2. ASSUME NEW h \in Handlers, WebhookSettles(h)
        PROVE  /\ handler[h].item \in Items
               /\ handler[h].prev \in {"pending", "processing"}
               /\ handler[h].next \in {"completed", "failed"}
    <3>1. handler[h] \in HandlerBusy
      BY <2>2 DEF WebhookSettles, TypeOK, HandlerIdle
    <3> QED
      BY <3>1 DEF HandlerBusy
  <2>3. CASE \E h \in Handlers : WebhookSettles(h)
    BY <2>1, <2>2, <2>3 DEF WebhookSettles
  <2>4. CASE \E i \in Items, next \in {"completed", "failed"} : ResolveItem(i, next)
    BY <2>1, <2>4 DEF ResolveItem, Resolvable
  <2>5. ASSUME NEW t \in Tasks, Worker(t)
        PROVE  /\ \A i \in Items : itemStatus[i] = "completed"
                                      => itemStatus'[i] = "completed"
               /\ status = "completed" => status' = "completed"
    BY <2>5 DEF Worker, LoadBatch, ClaimBatch, Claimable, ClaimStale, ClaimRollback,
                FinalizePayroll, CanTransition, validTransitions,
                BulkTransferTaken, BulkTransferLost, BulkTransferRejected,
                FailBatchBeforeSend, batchVars, TypeOK, ItemsIn
  <2> QED
    BY <2>3, <2>4, <2>5
       DEF Next, EnqueueTask, WorkerCrash, HandlePayrollItemWebhook, WebhookFails,
           RetryCheck, RetryApply, RetryEnds, Retryable, ItemsIn, BankDecides,
           BecomesOverdue, EmployeeLeaves, batchVars, TypeOK
<1> QED
  BY <1>1, TypeCorrect, PTL DEF Spec, CompletedIsFinal

-----------------------------------------------------------------------------
(* The serial invariant.                                                    *)

LEMMA LinesAreFinite ==
    ASSUME NEW S \in SUBSET Items
    PROVE  IsFiniteSet(S) /\ Cardinality(S) \in Nat
  BY ConstantsAssumption, FS_Subset, FS_CardinalityType

\* Settling a processing line moves exactly that line, keeps the counter exact
\* and closes the batch if and only if it was the last one out.
LEMMA SettleEffect ==
    ASSUME TypeOK, CounterExact, NEW i \in Items, itemStatus[i] = "processing",
           NEW next \in {"completed", "failed"},
           SettlePayrollItem(i, "processing", next)
    PROVE  /\ itemStatus' = [itemStatus EXCEPT ![i] = next]
           /\ status = "processing"
           /\ CounterExact'
<1> DEFINE Out == ItemsIn("processing")
<1>1. i \in Out /\ Out \in SUBSET Items
  BY DEF ItemsIn
<1>2. status = "processing" /\ pendingCount = Cardinality(Out)
  BY <1>1 DEF CounterExact
<1>3. /\ IsFiniteSet(Out) /\ Cardinality(Out) \in Nat
      /\ IsFiniteSet(Out \ {i}) /\ Cardinality(Out \ {i}) \in Nat
      /\ Cardinality(Out \ {i}) = Cardinality(Out) - 1
  BY <1>1, LinesAreFinite, FS_RemoveElement
<1>4. CanTransition(status, BatchVerdict([itemStatus EXCEPT ![i] = next]))
  BY <1>2 DEF CanTransition, validTransitions, BatchVerdict
<1>5. /\ itemStatus' = [itemStatus EXCEPT ![i] = next]
      /\ pendingCount' = IF pendingCount > 0 THEN pendingCount - 1 ELSE pendingCount
      /\ status' = IF pendingCount = 1 THEN BatchVerdict([itemStatus EXCEPT ![i] = next])
                                        ELSE status
  BY <1>4 DEF SettlePayrollItem
<1>6. Out' = Out \ {i}
  BY <1>5 DEF ItemsIn, TypeOK
<1>7. CASE pendingCount = 1
  <2>1. Cardinality(Out \ {i}) = 0
    BY <1>2, <1>3, <1>7
  <2>2. Out' = {}
    BY <1>3, <1>6, <2>1, FS_EmptySet
  <2>3. status' # "processing"
    BY <1>5, <1>7 DEF BatchVerdict
  <2> QED
    BY <1>2, <1>5, <2>2, <2>3 DEF CounterExact
<1>8. CASE pendingCount # 1
  <2>1. status' = "processing"
    BY <1>2, <1>5, <1>8
  <2>2. pendingCount' = Cardinality(Out) - 1
    BY <1>2, <1>3, <1>5
  <2>3. pendingCount' = Cardinality(Out')
    BY <1>3, <1>6, <2>2
  <2> QED
    BY <1>2, <1>5, <2>1, <2>3 DEF CounterExact
<1> QED
  BY <1>7, <1>8

\* A step in which no task comes to own the batch or to hold a reference.
LEMMA TasksLetGo ==
    ASSUME WorkerOwnsBatch, WorkerReadsKnown,
           \A u \in Tasks : Active(u)' =>
              /\ Active(u) /\ task'[u].sendable = task[u].sendable
              /\ task'[u].pc = "finalize" => task[u].pc = "finalize",
           \A u \in Tasks : Holds(u)' =>
              /\ Holds(u) /\ task'[u].sendable = task[u].sendable
              /\ task'[u].orphaned = task[u].orphaned,
           UNCHANGED <<status, itemStatus, attempt, overdue, employee, bank>>
    PROVE  WorkerOwnsBatch' /\ WorkerReadsKnown'
<1>1. WorkerOwnsBatch'
  <2> SUFFICES ASSUME NEW u \in Tasks, Active(u)'
               PROVE  (/\ status = "processing"
                       /\ ItemsIn("processing") = LinesOf(task[u].sendable)
                       /\ task[u].pc = "finalize" => task[u].sendable = {}
                       /\ \A v \in Tasks : Active(v) => v = u
                       /\ \A i \in LinesOf(task[u].sendable) :
                             bank[ItemReference(i)] = "none" /\ ~ overdue[i])'
    BY DEF WorkerOwnsBatch
  <2>1. /\ Active(u) /\ task'[u].sendable = task[u].sendable
        /\ task'[u].pc = "finalize" => task[u].pc = "finalize"
    OBVIOUS
  <2>2. \A v \in Tasks : Active(v)' => v = u
    BY <2>1 DEF WorkerOwnsBatch
  <2>3. ItemsIn("processing")' = ItemsIn("processing")
    BY DEF ItemsIn
  <2>4. LinesOf(task[u].sendable)' = LinesOf(task[u].sendable)
    BY <2>1 DEF LinesOf
  <2>5. \A i : ItemReference(i)' = ItemReference(i)
    BY DEF ItemReference
  <2> QED
    BY <2>1, <2>2, <2>3, <2>4, <2>5 DEF WorkerOwnsBatch
<1>2. WorkerReadsKnown'
  BY DEF WorkerReadsKnown
<1> QED
  BY <1>1, <1>2

\* A task that is queued, ended or only now enqueued owns and holds nothing.
LEMMA TaskRetires ==
    ASSUME TypeOK, SerialInv, NEW t \in Tasks,
           task'[t].pc \in {"enqueue", "queued", "done"},
           \A u \in Tasks \ {t} : task'[u] = task[u],
           UNCHANGED <<status, itemStatus, attempt, overdue, employee, bank>>
    PROVE  WorkerOwnsBatch' /\ WorkerReadsKnown'
<1>1. ~ Active(t)' /\ ~ Holds(t)'
  BY DEF Active, Holds
<1>2. \A u \in Tasks : Active(u)' => Active(u) /\ task'[u] = task[u]
  BY <1>1 DEF Active
<1>3. \A u \in Tasks : Holds(u)' => Holds(u) /\ task'[u] = task[u]
  BY <1>1 DEF Holds
<1> QED
  BY <1>2, <1>3, TasksLetGo DEF SerialInv

\* The handlers, the bank's record and the counter do not depend on the task.
LEMMA TaskIrrelevant ==
    ASSUME SerialInv,
           UNCHANGED <<status, pendingCount, itemStatus, attempt, resolvedBy,
                       overdue, handler, bank>>
    PROVE  /\ CounterExact' /\ HandlerReadsCurrent' /\ BankAgrees'
           /\ PendingIsNotOverdue' /\ CompletedLineIsPaid'
<1>1. CounterExact'
  BY DEF SerialInv, CounterExact, ItemsIn
<1>2. HandlerReadsCurrent'
  BY DEF SerialInv, HandlerReadsCurrent, ItemReference
<1>3. BankAgrees'
  BY DEF SerialInv, BankAgrees, ItemReference
<1>4. PendingIsNotOverdue'
  BY DEF SerialInv, PendingIsNotOverdue
<1>5. CompletedLineIsPaid'
  BY DEF SerialInv, CompletedLineIsPaid, ItemReference
<1> QED
  BY <1>1, <1>2, <1>3, <1>4, <1>5

\* A line with the bank that has been decided, or is overdue, belongs to no
\* worker, so settling it disturbs nothing the invariant says of the others.
LEMMA SettleKeepsInv ==
    ASSUME TypeOK, SerialInv, NEW i \in Items, itemStatus[i] = "processing",
           NEW next \in {"completed", "failed"},
           SettlePayrollItem(i, "processing", next),
           bank[ItemReference(i)] # "none" \/ overdue[i],
           next = "failed" => bank[ItemReference(i)] \in {"none", "failed"},
           UNCHANGED <<attempt, overdue, employee, task, bank>>
    PROVE  /\ itemStatus' = [itemStatus EXCEPT ![i] = next]
           /\ CounterExact' /\ WorkerOwnsBatch' /\ BankAgrees'
           /\ WorkerReadsKnown' /\ PendingIsNotOverdue'
<1>1. itemStatus' = [itemStatus EXCEPT ![i] = next] /\ CounterExact'
  BY SettleEffect DEF SerialInv
<1>2. \A t \in Tasks : ~ Active(t)
  BY DEF SerialInv, WorkerOwnsBatch, ItemsIn
<1>3. WorkerOwnsBatch'
  BY <1>2 DEF WorkerOwnsBatch, Active
<1>4. BankAgrees'
  BY <1>1 DEF SerialInv, BankAgrees, ItemReference, TypeOK
<1>5. WorkerReadsKnown'
  <2> SUFFICES ASSUME NEW t \in Tasks, Holds(t)
               PROVE  /\ \A j \in task[t].orphaned : employee[j] = "gone"
                      /\ \A r \in task[t].sendable :
                            /\ r[2] <= attempt[r[1]]
                            /\ r[2] < attempt[r[1]] => bank[r] # "none"
                            /\ itemStatus'[r[1]] = "failed" /\ r[2] = attempt[r[1]]
                                  => bank[r] # "none" \/ employee[r[1]] = "gone"
                            /\ ~ overdue[r[1]]
    BY DEF WorkerReadsKnown, Holds
  <2>1. ASSUME NEW r \in task[t].sendable,
               itemStatus'[r[1]] = "failed", r[2] = attempt[r[1]]
        PROVE  bank[r] # "none" \/ employee[r[1]] = "gone"
    <3>1. r \in Refs /\ r[1] \in Items /\ r = <<r[1], r[2]>>
      BY DEF TypeOK, TaskRec, Refs
    <3>2. CASE r[1] = i
      <4>1. r = ItemReference(i)
        BY <2>1, <3>1, <3>2 DEF ItemReference
      <4>2. ~ overdue[i]
        BY <3>2 DEF SerialInv, WorkerReadsKnown
      <4> QED
        BY <4>1, <4>2
    <3>3. CASE r[1] # i
      <4>1. itemStatus[r[1]] = "failed"
        BY <1>1, <2>1, <3>1, <3>3 DEF TypeOK
      <4> QED
        BY <2>1, <4>1 DEF SerialInv, WorkerReadsKnown
    <3> QED
      BY <3>2, <3>3
  <2> QED
    BY <2>1 DEF SerialInv, WorkerReadsKnown
<1>6. PendingIsNotOverdue'
  BY <1>1 DEF SerialInv, PendingIsNotOverdue, TypeOK
<1> QED
  BY <1>1, <1>3, <1>4, <1>5, <1>6

\* Claiming: the batch had no line with the bank, so nobody is serving one, and
\* the lines now out are the pending ones read, whose references are unused.
LEMMA ClaimKeepsInv ==
    ASSUME TypeOK, TypeOK', SerialInv, NEW t \in Tasks, ClaimBatch(t)
    PROVE  SerialInv'
<1> DEFINE S == LinesOf(task[t].sendable)
           lost == task[t].orphaned \cap ItemsIn("pending")
<1>1. /\ task[t].pc = "claim" /\ status \in {"pending", "failed"}
      /\ S \subseteq ItemsIn("pending")
      /\ status' = "processing" /\ pendingCount' = Cardinality(S)
      /\ itemStatus' = [i \in Items |-> IF i \in S THEN "processing"
                                         ELSE IF i \in lost THEN "failed"
                                         ELSE itemStatus[i]]
      /\ overdue' = [i \in Items |-> overdue[i] /\ i \notin S]
      /\ task' = [task EXCEPT ![t].pc = IF S = {} THEN "finalize" ELSE "send"]
      /\ UNCHANGED <<attempt, resolvedBy, employee, handler, retry, bank, sends>>
  BY DEF ClaimBatch, Claimable
<1>2. ItemsIn("processing") = {}
  BY <1>1 DEF SerialInv, CounterExact
<1>3. ItemsIn("processing")' = S
  BY <1>1, <1>2 DEF ItemsIn
<1>4. /\ task'[t].pc = IF S = {} THEN "finalize" ELSE "send"
      /\ task'[t].sendable = task[t].sendable /\ task'[t].orphaned = task[t].orphaned
      /\ \A u \in Tasks \ {t} : task'[u] = task[u]
  BY <1>1 DEF TypeOK, TaskRec
<1>5. CounterExact'
  BY <1>1, <1>3 DEF CounterExact
<1>6. WorkerOwnsBatch'
  <2>1. \A u \in Tasks : ~ Active(u)
    BY <1>1 DEF SerialInv, WorkerOwnsBatch
  <2>2. \A u \in Tasks : Active(u)' => u = t
    BY <1>4, <2>1 DEF Active
  <2>3. S = {} => task[t].sendable = {}
    BY DEF LinesOf
  <2>4. \A i \in S : bank'[ItemReference(i)'] = "none" /\ ~ overdue'[i]
    BY <1>1 DEF SerialInv, BankAgrees, ItemsIn, ItemReference
  <2>5. LinesOf(task[t].sendable)' = S
    BY <1>4 DEF LinesOf
  <2> QED
    BY <1>1, <1>3, <1>4, <2>2, <2>3, <2>4, <2>5 DEF WorkerOwnsBatch
<1>7. HandlerReadsCurrent'
  <2>1. \A h \in Handlers : handler[h].pc # "settle"
    <3>1. \A h \in Handlers : handler[h].pc = "settle" => handler[h].item \in Items
      BY DEF TypeOK, HandlerBusy, HandlerIdle
    <3> QED
      BY <1>2, <3>1 DEF SerialInv, HandlerReadsCurrent, ItemsIn
  <2> QED
    BY <1>1, <2>1 DEF HandlerReadsCurrent
<1>8. BankAgrees'
  BY <1>1 DEF SerialInv, BankAgrees, ItemReference, ItemsIn
<1>9. WorkerReadsKnown'
  <2>1. \A u \in Tasks : Holds(u)' => /\ Holds(u)
                                      /\ task'[u].sendable = task[u].sendable
                                      /\ task'[u].orphaned = task[u].orphaned
    BY <1>1, <1>4 DEF Holds
  <2>2. \A u \in Tasks : \A r \in task[u].sendable : r[1] \in Items
    BY DEF TypeOK, TaskRec, Refs
  <2>3. \A i \in lost : employee[i] = "gone"
    BY <1>1 DEF SerialInv, WorkerReadsKnown, Holds
  <2>4. \A i \in Items : /\ overdue'[i] => overdue[i]
                         /\ itemStatus'[i] = "failed" => itemStatus[i] = "failed" \/ i \in lost
    BY <1>1 DEF TypeOK
  <2> QED
    BY <1>1, <2>1, <2>2, <2>3, <2>4 DEF SerialInv, WorkerReadsKnown
<1>10. PendingIsNotOverdue'
  BY <1>1 DEF SerialInv, PendingIsNotOverdue
<1>11. CompletedLineIsPaid'
  BY <1>1 DEF SerialInv, CompletedLineIsPaid, ItemReference
<1> QED
  BY <1>5, <1>6, <1>7, <1>8, <1>9, <1>10, <1>11 DEF SerialInv

\* Sending: only references the bank has never seen change, and each of them is
\* the current one of a processing line.
LEMMA SendKeepsInv ==
    ASSUME TypeOK, SerialInv, NEW t \in Tasks, BulkTransferTaken(t)
    PROVE  SerialInv'
<1> DEFINE R == task[t].sendable
<1>1. /\ task[t].pc = "send"
      /\ bank' = [r \in Refs |-> IF r \in R /\ bank[r] = "none"
                                 THEN "accepted" ELSE bank[r]]
      /\ task'[t].pc \in {"queued", "done"} /\ \A u \in Tasks \ {t} : task'[u] = task[u]
      /\ UNCHANGED <<status, pendingCount, itemStatus, attempt, resolvedBy, overdue,
                     employee, handler>>
  BY TaskEnds DEF BulkTransferTaken, batchVars
<1>2. Active(t) /\ Holds(t)
  BY <1>1 DEF Active, Holds
<1>3. \A r \in Refs : /\ bank[r] # "none" => bank'[r] = bank[r]
                      /\ bank'[r] # bank[r] => r \in R
  BY <1>1 DEF TypeOK
<1>4. \A r \in R : r \in Refs /\ r[1] \in Items /\ r = <<r[1], r[2]>> /\ r[2] \in Nat
  BY DEF TypeOK, TaskRec, Refs
<1>5. \A r \in R : bank[r] = "none" =>
         r = ItemReference(r[1]) /\ itemStatus[r[1]] = "processing"
  <2> SUFFICES ASSUME NEW r \in R, bank[r] = "none"
               PROVE  r = ItemReference(r[1]) /\ itemStatus[r[1]] = "processing"
    OBVIOUS
  <2>1. r[2] = attempt[r[1]]
    <3>1. r[2] <= attempt[r[1]] /\ ~ r[2] < attempt[r[1]]
      BY <1>2 DEF SerialInv, WorkerReadsKnown
    <3>2. attempt[r[1]] \in Nat
      BY <1>4, ConstantsAssumption DEF TypeOK
    <3> QED
      BY <1>4, <3>1, <3>2
  <2>2. r[1] \in ItemsIn("processing")
    BY <1>2 DEF SerialInv, WorkerOwnsBatch, LinesOf
  <2> QED
    BY <1>4, <2>1, <2>2 DEF ItemReference, ItemsIn
<1>6. CounterExact'
  BY <1>1 DEF SerialInv, CounterExact, ItemsIn
<1>7. WorkerOwnsBatch'
  <2>1. \A u \in Tasks : ~ Active(u)'
    BY <1>1, <1>2 DEF SerialInv, WorkerOwnsBatch, Active
  <2> QED
    BY <2>1 DEF WorkerOwnsBatch
<1>8. HandlerReadsCurrent'
  <2>1. \A h \in Handlers : handler[h].pc = "settle" =>
           handler[h].ref \in Refs /\ handler[h].item \in Items
    BY DEF TypeOK, HandlerBusy, HandlerIdle
  <2>2. \A h \in Handlers : handler[h].pc = "settle" =>
           bank'[handler[h].ref] = bank[handler[h].ref]
    <3> SUFFICES ASSUME NEW h \in Handlers, handler[h].pc = "settle"
                 PROVE  bank'[handler[h].ref] = bank[handler[h].ref]
      OBVIOUS
    <3>1. bank[handler[h].ref] \in {"paid", "failed"}
      BY DEF SerialInv, HandlerReadsCurrent
    <3> QED
      BY <1>1, <2>1, <3>1
  <2> QED
    BY <1>1, <2>2 DEF SerialInv, HandlerReadsCurrent, ItemReference
<1>9. BankAgrees'
  <2>1. \A i \in Items, a \in 1 .. MaxAttempt :
           <<i, a>> \in Refs /\ attempt[i] \in 1 .. MaxAttempt
    BY DEF Refs, TypeOK
  <2>2. \A i \in Items, a \in 1 .. MaxAttempt :
           bank'[<<i, a>>] # bank[<<i, a>>] =>
              a = attempt[i] /\ itemStatus[i] = "processing"
    <3> SUFFICES ASSUME NEW i \in Items, NEW a \in 1 .. MaxAttempt,
                        bank'[<<i, a>>] # bank[<<i, a>>]
                 PROVE  a = attempt[i] /\ itemStatus[i] = "processing"
      OBVIOUS
    <3>1. <<i, a>> \in R /\ bank[<<i, a>>] = "none"
      BY <1>1, <2>1
    <3>2. <<i, a>>[1] = i
      OBVIOUS
    <3>3. <<i, a>> = ItemReference(i) /\ itemStatus[i] = "processing"
      BY <1>5, <3>1, <3>2
    <3> QED
      BY <3>3 DEF ItemReference
  <2>3. \A i \in Items : itemStatus[i] # "processing" =>
           bank'[ItemReference(i)'] = bank[ItemReference(i)]
    <3> SUFFICES ASSUME NEW i \in Items, itemStatus[i] # "processing"
                 PROVE  bank'[ItemReference(i)'] = bank[ItemReference(i)]
      OBVIOUS
    <3>1. attempt[i] \in 1 .. MaxAttempt
      BY DEF TypeOK
    <3>2. bank'[<<i, attempt[i]>>] = bank[<<i, attempt[i]>>]
      BY <2>2, <3>1
    <3> QED
      BY <1>1, <3>2 DEF ItemReference
  <2>4. \A i \in Items, a \in 1 .. MaxAttempt :
           a # attempt[i] => bank'[<<i, a>>] = bank[<<i, a>>]
    BY <2>2
  <2>5. \A i \in Items, a \in 1 .. MaxAttempt :
           /\ a > attempt[i] => bank'[<<i, a>>] = "none"
           /\ a < attempt[i] => bank'[<<i, a>>] \in {"none", "failed"}
    <3> SUFFICES ASSUME NEW i \in Items, NEW a \in 1 .. MaxAttempt
                 PROVE  /\ a > attempt[i] => bank'[<<i, a>>] = "none"
                        /\ a < attempt[i] => bank'[<<i, a>>] \in {"none", "failed"}
      OBVIOUS
    <3>1. attempt[i] \in Nat /\ a \in Nat
      BY ConstantsAssumption DEF TypeOK
    <3>2. /\ a > attempt[i] => bank[<<i, a>>] = "none"
          /\ a < attempt[i] => bank[<<i, a>>] \in {"none", "failed"}
      BY DEF SerialInv, BankAgrees
    <3>3. a # attempt[i] => bank'[<<i, a>>] = bank[<<i, a>>]
      BY <2>4
    <3> QED
      BY <3>1, <3>2, <3>3
  <2> QED
    BY <1>1, <2>3, <2>5 DEF SerialInv, BankAgrees
<1>10. WorkerReadsKnown'
  <2>1. \A u \in Tasks : Holds(u)' => Holds(u) /\ task'[u] = task[u]
    BY <1>1 DEF Holds
  <2>2. \A u \in Tasks : \A r \in task[u].sendable : r \in Refs
    BY DEF TypeOK, TaskRec
  <2>3. \A r \in Refs : bank[r] # "none" => bank'[r] # "none"
    BY <1>3
  <2>4. UNCHANGED <<itemStatus, attempt, overdue, employee>>
    BY <1>1
  <2> QED
    BY <2>1, <2>2, <2>3, <2>4 DEF SerialInv, WorkerReadsKnown
<1>11. PendingIsNotOverdue'
  BY <1>1 DEF SerialInv, PendingIsNotOverdue
<1>12. CompletedLineIsPaid'
  <2>1. \A i \in Items : ItemReference(i) \in Refs
    BY DEF ItemReference, Refs, TypeOK
  <2> QED
    BY <1>1, <1>3, <2>1 DEF SerialInv, CompletedLineIsPaid, ItemReference
<1> QED
  BY <1>6, <1>7, <1>8, <1>9, <1>10, <1>11, <1>12 DEF SerialInv

\* A refused list: the worker's own lines, untouched by anyone, come back.
LEMMA RejectKeepsInv ==
    ASSUME TypeOK, SerialInv, NEW t \in Tasks, FailBatchBeforeSend(t)
    PROVE  SerialInv'
<1>1. /\ task[t].pc = "rejected" /\ Active(t) /\ status = "processing"
      /\ ItemsIn("processing") = LinesOf(task[t].sendable)
      /\ \A u \in Tasks : Active(u) => u = t
      /\ \A i \in ItemsIn("processing") : bank[ItemReference(i)] = "none"
  BY DEF FailBatchBeforeSend, SerialInv, WorkerOwnsBatch, Active
<1>2. /\ status' = "failed"
      /\ itemStatus' = [i \in Items |-> IF itemStatus[i] = "processing"
                                         THEN "pending" ELSE itemStatus[i]]
      /\ overdue' = [i \in Items |-> overdue[i] /\ itemStatus[i] # "processing"]
      /\ task' = [task EXCEPT ![t] = Redeliver(t)]
      /\ UNCHANGED <<pendingCount, attempt, resolvedBy, employee, handler, bank>>
  BY <1>1 DEF FailBatchBeforeSend
<1>3. Redeliver(t).pc \in {"queued", "done"}
  BY DEF Redeliver, TaskIdle
<1>4. CounterExact'
  BY <1>2 DEF CounterExact, ItemsIn
<1>5. WorkerOwnsBatch'
  <2>1. \A u \in Tasks : ~ Active(u)'
    BY <1>1, <1>2, <1>3 DEF Active, TypeOK
  <2> QED
    BY <2>1 DEF WorkerOwnsBatch
<1>6. HandlerReadsCurrent'
  <2>1. \A h \in Handlers : handler[h].pc # "settle"
    <3> SUFFICES ASSUME NEW h \in Handlers, handler[h].pc = "settle" PROVE FALSE
      OBVIOUS
    <3>1. handler[h].item \in Items
      BY DEF TypeOK, HandlerBusy, HandlerIdle
    <3>2. /\ handler[h].item \in ItemsIn("processing")
          /\ bank[ItemReference(handler[h].item)] \in {"paid", "failed"}
      BY <3>1 DEF SerialInv, HandlerReadsCurrent, ItemsIn
    <3> QED
      BY <1>1, <3>2
  <2> QED
    BY <1>2, <2>1 DEF HandlerReadsCurrent
<1>7. BankAgrees'
  BY <1>1, <1>2 DEF SerialInv, BankAgrees, ItemReference, ItemsIn
<1>8. WorkerReadsKnown'
  <2>1. \A u \in Tasks : Holds(u)' => Holds(u) /\ task'[u] = task[u]
    BY <1>2, <1>3 DEF Holds, TypeOK
  <2>2. \A u \in Tasks : \A r \in task[u].sendable : r[1] \in Items
    BY DEF TypeOK, TaskRec, Refs
  <2> QED
    BY <1>2, <2>1, <2>2 DEF SerialInv, WorkerReadsKnown
<1>9. PendingIsNotOverdue'
  BY <1>2 DEF SerialInv, PendingIsNotOverdue
<1>10. CompletedLineIsPaid'
  BY <1>2 DEF SerialInv, CompletedLineIsPaid, ItemReference
<1> QED
  BY <1>4, <1>5, <1>6, <1>7, <1>8, <1>9, <1>10 DEF SerialInv

\* Every step of a worker.
LEMMA WorkerKeepsInv ==
    ASSUME TypeOK, TypeOK', SerialInv, NEW t \in Tasks, Worker(t)
    PROVE  SerialInv'
<1>0. /\ [TaskIdle EXCEPT !.pc = "done"].pc = "done"
      /\ Redeliver(t).pc \in {"queued", "done"}
  BY DEF TaskIdle, Redeliver
<1>1. CASE LoadBatch(t)
  <2> DEFINE lost == {i \in ItemsIn("pending") : employee[i] = "gone"}
             refs == {ItemReference(i) : i \in ItemsIn("pending") \ lost}
  <2>1. /\ task[t].pc = "queued"
        /\ task'[t].pc = "claim" /\ task'[t].sendable = refs /\ task'[t].orphaned = lost
        /\ \A u \in Tasks \ {t} : task'[u] = task[u]
        /\ UNCHANGED <<status, pendingCount, itemStatus, attempt, resolvedBy,
                       overdue, employee, handler, bank>>
    BY <1>1 DEF LoadBatch, batchVars, TypeOK
  <2>2. WorkerOwnsBatch'
    <3>1. \A u \in Tasks : Active(u)' => Active(u) /\ task'[u] = task[u]
      BY <2>1 DEF Active
    <3> QED
      BY <2>1, <3>1 DEF SerialInv, WorkerOwnsBatch, ItemsIn, ItemReference, LinesOf
  <2>3. WorkerReadsKnown'
    <3>1. \A u \in Tasks \ {t} : Holds(u)' => Holds(u) /\ task'[u] = task[u]
      BY <2>1 DEF Holds
    <3>2. \A r \in refs : /\ r[1] \in Items /\ r[2] = attempt[r[1]]
                          /\ itemStatus[r[1]] = "pending"
      BY DEF ItemsIn, ItemReference
    <3>3. \A i \in Items : attempt[i] \in Nat
      BY ConstantsAssumption DEF TypeOK
    <3>4. \A r \in refs : r[2] <= attempt[r[1]] /\ ~ r[2] < attempt[r[1]] /\ ~ overdue[r[1]]
      BY <3>2, <3>3 DEF SerialInv, PendingIsNotOverdue
    <3> QED
      BY <2>1, <3>1, <3>2, <3>4 DEF SerialInv, WorkerReadsKnown
  <2> QED
    BY <2>1, <2>2, <2>3, TaskIrrelevant DEF SerialInv
<1>2. CASE ClaimBatch(t)
  BY <1>2, ClaimKeepsInv
<1>3. CASE ClaimStale(t) \/ BulkTransferLost(t)
  <2>1. /\ EndTask(t)
        /\ UNCHANGED <<status, pendingCount, itemStatus, attempt, resolvedBy,
                       overdue, employee, handler, bank>>
    BY <1>3 DEF ClaimStale, BulkTransferLost, batchVars
  <2>2. /\ task'[t].pc \in {"enqueue", "queued", "done"}
        /\ \A u \in Tasks \ {t} : task'[u] = task[u]
    BY <2>1, TaskEnds
  <2>3. WorkerOwnsBatch' /\ WorkerReadsKnown'
    BY <2>1, <2>2, TaskRetires
  <2> QED
    BY <2>1, <2>3, TaskIrrelevant DEF SerialInv
<1>4. CASE ClaimRollback(t)
  <2>1. /\ task' = [task EXCEPT ![t] = Redeliver(t)]
        /\ UNCHANGED <<status, pendingCount, itemStatus, attempt, resolvedBy,
                       overdue, employee, handler, bank>>
    BY <1>4 DEF ClaimRollback, batchVars
  <2>2. /\ task'[t].pc \in {"enqueue", "queued", "done"}
        /\ \A u \in Tasks \ {t} : task'[u] = task[u]
    BY <1>0, <2>1 DEF TypeOK
  <2>3. WorkerOwnsBatch' /\ WorkerReadsKnown'
    BY <2>1, <2>2, TaskRetires
  <2> QED
    BY <2>1, <2>3, TaskIrrelevant DEF SerialInv
<1>5. CASE FinalizePayroll(t)
  <2>1. /\ status = "processing" /\ ItemsIn("processing") = {}
        /\ \A u \in Tasks : Active(u) => u = t
    BY <1>5 DEF FinalizePayroll, SerialInv, WorkerOwnsBatch, Active, LinesOf
  <2>2. /\ status' \in {"completed", "failed"}
        /\ task'[t].pc \in {"queued", "done"} /\ \A u \in Tasks \ {t} : task'[u] = task[u]
        /\ UNCHANGED <<pendingCount, itemStatus, attempt, resolvedBy, overdue,
                       employee, handler, bank>>
    BY <1>5, <2>1, TaskEnds
       DEF FinalizePayroll, CanTransition, validTransitions, BatchVerdict
  <2>3. CounterExact'
    BY <2>1, <2>2 DEF CounterExact, ItemsIn
  <2>4. WorkerOwnsBatch'
    <3>1. \A u \in Tasks : ~ Active(u)'
      BY <1>0, <2>1, <2>2 DEF Active, TypeOK
    <3> QED
      BY <3>1 DEF WorkerOwnsBatch
  <2>5. WorkerReadsKnown'
    <3>1. \A u \in Tasks : Holds(u)' => Holds(u) /\ task'[u] = task[u]
      BY <1>0, <2>2 DEF Holds, TypeOK
    <3> QED
      BY <2>2, <3>1 DEF SerialInv, WorkerReadsKnown
  <2>6. HandlerReadsCurrent' /\ BankAgrees' /\ PendingIsNotOverdue' /\ CompletedLineIsPaid'
    BY <2>2 DEF SerialInv, HandlerReadsCurrent, BankAgrees, PendingIsNotOverdue,
                CompletedLineIsPaid, ItemReference
  <2> QED
    BY <2>3, <2>4, <2>5, <2>6 DEF SerialInv
<1>6. CASE BulkTransferTaken(t)
  BY <1>6, SendKeepsInv
<1>7. CASE BulkTransferRejected(t)
  <2>1. /\ task[t].pc = "send" /\ task'[t].pc = "rejected"
        /\ task'[t].sendable = task[t].sendable /\ task'[t].orphaned = task[t].orphaned
        /\ \A u \in Tasks \ {t} : task'[u] = task[u]
        /\ UNCHANGED <<status, pendingCount, itemStatus, attempt, resolvedBy,
                       overdue, employee, handler, bank>>
    BY <1>7 DEF BulkTransferRejected, batchVars, TypeOK, TaskRec
  <2>2. \A u \in Tasks : /\ task'[u].sendable = task[u].sendable
                         /\ task'[u].orphaned = task[u].orphaned
    BY <2>1
  <2>3. \A u \in Tasks : Active(u)' =>
           /\ Active(u) /\ task'[u].sendable = task[u].sendable
           /\ task'[u].pc = "finalize" => task[u].pc = "finalize"
    BY <2>1, <2>2 DEF Active
  <2>4. \A u \in Tasks : Holds(u)' =>
           /\ Holds(u) /\ task'[u].sendable = task[u].sendable
           /\ task'[u].orphaned = task[u].orphaned
    BY <2>1, <2>2 DEF Holds
  <2>5. WorkerOwnsBatch' /\ WorkerReadsKnown'
    BY <2>1, <2>3, <2>4, TasksLetGo DEF SerialInv
  <2> QED
    BY <2>1, <2>5, TaskIrrelevant DEF SerialInv
<1>8. CASE FailBatchBeforeSend(t)
  BY <1>8, RejectKeepsInv
<1> QED
  BY <1>1, <1>2, <1>3, <1>4, <1>5, <1>6, <1>7, <1>8 DEF Worker

\* A retry renews only failed lines: none of them is with the bank, is served
\* or is owned, and whatever a worker has read of them the bank has seen.
LEMMA RetryKeepsInv ==
    ASSUME TypeOK, TypeOK', SerialInv, NEW t \in Tasks, RetryApply(t)
    PROVE  SerialInv'
<1>1. /\ task[t].pc = "unused"
      /\ task' = [task EXCEPT ![t].pc = "enqueue"]
      /\ itemStatus' = [i \in Items |-> IF i \in Retryable THEN "pending"
                                                           ELSE itemStatus[i]]
      /\ attempt' = [i \in Items |-> IF i \in Retryable THEN attempt[i] + 1
                                                        ELSE attempt[i]]
      /\ overdue' = [i \in Items |-> overdue[i] /\ i \notin Retryable]
      /\ UNCHANGED <<status, pendingCount, resolvedBy, employee, handler, bank>>
  BY DEF RetryApply
<1>2. \A i \in Retryable : /\ i \in Items /\ itemStatus[i] = "failed"
                           /\ employee[i] = "active"
  BY DEF Retryable, ItemsIn
<1>3. /\ task'[t].pc = "enqueue"
      /\ \A u \in Tasks \ {t} : task'[u] = task[u]
  BY <1>1 DEF TypeOK, TaskRec
<1>4. \A u \in Tasks : Active(u)' => Active(u) /\ task'[u] = task[u]
  BY <1>3 DEF Active
<1>5. \A u \in Tasks : Holds(u)' => Holds(u) /\ task'[u] = task[u]
  BY <1>3 DEF Holds
<1>6. \A i \in Items : itemStatus[i] = "processing" =>
         /\ itemStatus'[i] = "processing" /\ attempt'[i] = attempt[i]
         /\ overdue'[i] => overdue[i]
  BY <1>1, <1>2
<1>7. ItemsIn("processing")' = ItemsIn("processing")
  BY <1>1, <1>2 DEF ItemsIn
<1>8. CounterExact'
  BY <1>1, <1>7 DEF SerialInv, CounterExact
<1>9. WorkerOwnsBatch'
  <2> SUFFICES ASSUME NEW u \in Tasks, Active(u)'
               PROVE  (/\ status = "processing"
                       /\ ItemsIn("processing") = LinesOf(task[u].sendable)
                       /\ task[u].pc = "finalize" => task[u].sendable = {}
                       /\ \A v \in Tasks : Active(v) => v = u
                       /\ \A i \in LinesOf(task[u].sendable) :
                             bank[ItemReference(i)] = "none" /\ ~ overdue[i])'
    BY DEF WorkerOwnsBatch
  <2>1. Active(u) /\ task'[u] = task[u]
    BY <1>4
  <2>2. \A v \in Tasks : Active(v)' => v = u
    BY <1>4, <2>1 DEF SerialInv, WorkerOwnsBatch
  <2>3. LinesOf(task[u].sendable)' = LinesOf(task[u].sendable)
    BY <2>1 DEF LinesOf
  <2>4. \A i \in LinesOf(task[u].sendable) :
           i \in Items /\ itemStatus[i] = "processing"
    BY <2>1 DEF SerialInv, WorkerOwnsBatch, ItemsIn
  <2>5. \A i \in LinesOf(task[u].sendable) :
           ItemReference(i)' = ItemReference(i) /\ ~ overdue'[i]
    BY <1>6, <2>1, <2>4 DEF SerialInv, WorkerOwnsBatch, ItemReference
  <2> QED
    BY <1>1, <1>7, <2>1, <2>2, <2>3, <2>5 DEF SerialInv, WorkerOwnsBatch
<1>10. HandlerReadsCurrent'
  <2>1. \A h \in Handlers : handler[h].pc = "settle" => handler[h].item \in Items
    BY DEF TypeOK, HandlerBusy, HandlerIdle
  <2> QED
    BY <1>1, <1>6, <2>1 DEF SerialInv, HandlerReadsCurrent, ItemReference
<1>11. BankAgrees'
  <2> SUFFICES ASSUME NEW i \in Items
               PROVE  (/\ \A a \in 1 .. MaxAttempt :
                             /\ a > attempt[i] => bank[<<i, a>>] = "none"
                             /\ a < attempt[i] => bank[<<i, a>>] \in {"none", "failed"}
                       /\ itemStatus[i] = "pending" => bank[ItemReference(i)] = "none"
                       /\ itemStatus[i] = "failed"
                             => bank[ItemReference(i)] \in {"none", "failed"})'
    BY DEF BankAgrees
  <2>1. /\ attempt[i] \in Nat /\ attempt'[i] \in 1 .. MaxAttempt
        /\ 1 .. MaxAttempt \subseteq Nat
    BY ConstantsAssumption DEF TypeOK
  <2>2. CASE i \in Retryable
    <3>1. attempt'[i] = attempt[i] + 1 /\ itemStatus'[i] = "pending"
      BY <1>1, <2>2
    <3>2. bank[<<i, attempt[i]>>] \in {"none", "failed"}
      BY <1>2, <2>2 DEF SerialInv, BankAgrees, ItemReference
    <3>3. bank[<<i, attempt[i] + 1>>] = "none"
      BY <2>1, <3>1 DEF SerialInv, BankAgrees
    <3>4. ASSUME NEW a \in 1 .. MaxAttempt
          PROVE  /\ a > attempt[i] + 1 => bank[<<i, a>>] = "none"
                 /\ a < attempt[i] + 1 => bank[<<i, a>>] \in {"none", "failed"}
      <4>1. CASE a = attempt[i]
        BY <2>1, <3>2, <4>1
      <4>2. CASE a # attempt[i]
        BY <2>1, <4>2 DEF SerialInv, BankAgrees
      <4> QED
        BY <4>1, <4>2
    <3> QED
      BY <1>1, <3>1, <3>3, <3>4 DEF ItemReference
  <2>3. CASE i \notin Retryable
    BY <1>1, <2>3 DEF SerialInv, BankAgrees, ItemReference
  <2> QED
    BY <2>2, <2>3
<1>12. WorkerReadsKnown'
  <2> SUFFICES ASSUME NEW u \in Tasks, Holds(u)'
               PROVE  (/\ \A i \in task[u].orphaned : employee[i] = "gone"
                       /\ \A r \in task[u].sendable :
                             /\ r[2] <= attempt[r[1]]
                             /\ r[2] < attempt[r[1]] => bank[r] # "none"
                             /\ itemStatus[r[1]] = "failed" /\ r[2] = attempt[r[1]]
                                   => bank[r] # "none" \/ employee[r[1]] = "gone"
                             /\ ~ overdue[r[1]])'
    BY DEF WorkerReadsKnown
  <2>1. Holds(u) /\ task'[u] = task[u]
    BY <1>5
  <2>2. ASSUME NEW r \in task[u].sendable
        PROVE  /\ r[2] <= attempt'[r[1]]
               /\ r[2] < attempt'[r[1]] => bank[r] # "none"
               /\ itemStatus'[r[1]] = "failed" /\ r[2] = attempt'[r[1]]
                     => bank[r] # "none" \/ employee[r[1]] = "gone"
               /\ ~ overdue'[r[1]]
    <3>1. r[1] \in Items /\ r[2] \in Nat /\ attempt[r[1]] \in Nat
      BY ConstantsAssumption DEF TypeOK, TaskRec, Refs
    <3>2. /\ r[2] <= attempt[r[1]]
          /\ r[2] < attempt[r[1]] => bank[r] # "none"
          /\ itemStatus[r[1]] = "failed" /\ r[2] = attempt[r[1]]
                => bank[r] # "none" \/ employee[r[1]] = "gone"
          /\ ~ overdue[r[1]]
      BY <2>1 DEF SerialInv, WorkerReadsKnown
    <3>3. CASE r[1] \in Retryable
      <4>1. attempt'[r[1]] = attempt[r[1]] + 1 /\ itemStatus'[r[1]] = "pending"
        BY <1>1, <3>1, <3>3
      <4>2. itemStatus[r[1]] = "failed" /\ employee[r[1]] # "gone"
        BY <1>2, <3>3
      <4>3. r[2] < attempt[r[1]] \/ r[2] = attempt[r[1]]
        BY <3>1, <3>2
      <4>4. bank[r] # "none"
        <5>1. r[2] < attempt[r[1]] => bank[r] # "none"
          BY <3>2
        <5>2. r[2] = attempt[r[1]] => bank[r] # "none"
          BY <3>2, <4>2
        <5> QED
          BY <4>3, <5>1, <5>2
      <4>5. ~ overdue'[r[1]]
        BY <1>1, <3>1, <3>3
      <4>6. r[2] <= attempt'[r[1]]
        BY <3>1, <3>2, <4>1
      <4> QED
        BY <4>1, <4>4, <4>5, <4>6
    <3>4. CASE r[1] \notin Retryable
      BY <1>1, <3>1, <3>2, <3>4
    <3> QED
      BY <3>3, <3>4
  <2> QED
    BY <1>1, <2>1, <2>2 DEF SerialInv, WorkerReadsKnown
<1>13. PendingIsNotOverdue'
  BY <1>1 DEF SerialInv, PendingIsNotOverdue
<1>14. CompletedLineIsPaid'
  BY <1>1, <1>2 DEF SerialInv, CompletedLineIsPaid, ItemReference
<1> QED
  BY <1>8, <1>9, <1>10, <1>11, <1>12, <1>13, <1>14 DEF SerialInv

\* Every step keeps the invariant when deliveries for a line are served one at
\* a time.
LEMMA SerialStep ==
    ASSUME "settlement" \notin Overlap, TypeOK, TypeOK', SerialInv, [Next]_vars
    PROVE  SerialInv'
<1>1. ASSUME NEW t \in Tasks, EnqueueTask(t) PROVE SerialInv'
  <2>1. /\ task'[t].pc \in {"queued", "done"}
        /\ \A u \in Tasks \ {t} : task'[u] = task[u]
        /\ UNCHANGED <<status, pendingCount, itemStatus, attempt, resolvedBy,
                       overdue, employee, handler, bank>>
    BY <1>1 DEF EnqueueTask, batchVars, TypeOK, TaskRec
  <2>2. WorkerOwnsBatch' /\ WorkerReadsKnown'
    BY <2>1, TaskRetires
  <2> QED
    BY <2>1, <2>2, TaskIrrelevant DEF SerialInv
<1>2. ASSUME NEW t \in Tasks, Worker(t) PROVE SerialInv'
  BY <1>2, WorkerKeepsInv
<1>3. ASSUME NEW t \in Tasks, WorkerCrash(t) PROVE SerialInv'
  <2>1. Redeliver(t).pc \in {"queued", "done"}
    BY DEF TaskIdle, Redeliver
  <2>2. /\ task'[t].pc \in {"queued", "done"}
        /\ \A u \in Tasks \ {t} : task'[u] = task[u]
        /\ UNCHANGED <<status, pendingCount, itemStatus, attempt, resolvedBy,
                       overdue, employee, handler, bank>>
    BY <1>3, <2>1 DEF WorkerCrash, batchVars, TypeOK
  <2>3. WorkerOwnsBatch' /\ WorkerReadsKnown'
    BY <2>2, TaskRetires
  <2> QED
    BY <2>2, <2>3, TaskIrrelevant DEF SerialInv
<1>4. ASSUME NEW h \in Handlers, NEW r \in Refs, HandlePayrollItemWebhook(h, r)
      PROVE  SerialInv'
  <2>1. r[1] \in Items /\ r = <<r[1], r[2]>>
    BY DEF Refs
  <2>2. /\ r = ItemReference(r[1]) /\ bank[r] \in {"paid", "failed"}
        /\ itemStatus[r[1]] \in {"pending", "processing"}
        /\ \A g \in Handlers : handler[g].pc = "settle" => handler[g].item # r[1]
    BY <1>4, <2>1
       DEF HandlePayrollItemWebhook, CallbackApplies, ItemReference, MaySettle, Serving, TypeOK,
           PayrollStatus
  <2>3. itemStatus[r[1]] = "processing"
    BY <2>1, <2>2 DEF SerialInv, BankAgrees
  <2>4. /\ handler' = [handler EXCEPT ![h] =
                          [pc |-> "settle", item |-> r[1], prev |-> itemStatus[r[1]],
                           next |-> EventStatus[bank[r]], ref |-> r]]
        /\ UNCHANGED <<status, pendingCount, itemStatus, attempt, resolvedBy,
                       overdue, employee, task, bank>>
    BY <1>4 DEF HandlePayrollItemWebhook, CallbackApplies, batchVars
  <2>5. HandlerReadsCurrent'
    <3>1. \A g \in Handlers \ {h} : handler'[g] = handler[g]
      BY <2>4 DEF TypeOK
    <3>2. /\ handler'[h].item = r[1] /\ handler'[h].ref = r
          /\ handler'[h].prev = "processing" /\ handler'[h].next = EventStatus[bank[r]]
      BY <2>3, <2>4 DEF TypeOK
    <3>3. ASSUME NEW g \in Handlers, handler'[g].pc = "settle", g # h
          PROVE  handler[g].pc = "settle" /\ handler'[g] = handler[g]
                 /\ handler[g].item # r[1]
      BY <2>2, <3>1, <3>3
    <3> QED
      BY <2>2, <2>3, <2>4, <3>1, <3>2, <3>3
         DEF SerialInv, HandlerReadsCurrent, ItemReference
  <2>6. WorkerOwnsBatch' /\ WorkerReadsKnown'
    BY <2>4 DEF SerialInv, WorkerOwnsBatch, WorkerReadsKnown, Active, Holds,
                ItemsIn, ItemReference, LinesOf
  <2>7. CounterExact' /\ BankAgrees' /\ PendingIsNotOverdue' /\ CompletedLineIsPaid'
    BY <2>4 DEF SerialInv, CounterExact, BankAgrees, PendingIsNotOverdue,
                CompletedLineIsPaid, ItemsIn, ItemReference
  <2> QED
    BY <2>5, <2>6, <2>7 DEF SerialInv
<1>5. ASSUME NEW h \in Handlers, WebhookSettles(h) PROVE SerialInv'
  <2> DEFINE i == handler[h].item
  <2>1. handler[h] \in HandlerBusy
    BY <1>5 DEF WebhookSettles, TypeOK, HandlerIdle
  <2>2. i \in Items /\ handler[h].next \in {"completed", "failed"}
    BY <2>1 DEF HandlerBusy
  <2>3. /\ itemStatus[i] = "processing" /\ handler[h].prev = "processing"
        /\ bank[ItemReference(i)] \in {"paid", "failed"}
        /\ handler[h].next = EventStatus[bank[ItemReference(i)]]
        /\ \A g \in Handlers : handler[g].pc = "settle" /\ handler[g].item = i => g = h
    BY <1>5 DEF WebhookSettles, SerialInv, HandlerReadsCurrent
  <2>4. /\ SettlePayrollItem(i, "processing", handler[h].next)
        /\ handler' = [handler EXCEPT ![h] = HandlerIdle]
        /\ UNCHANGED <<attempt, resolvedBy, overdue, employee, task, bank>>
    BY <1>5, <2>3 DEF WebhookSettles
  <2>5. handler[h].next = "failed" => bank[ItemReference(i)] \in {"none", "failed"}
    BY <2>3 DEF EventStatus
  <2>6. /\ itemStatus' = [itemStatus EXCEPT ![i] = handler[h].next]
        /\ CounterExact' /\ WorkerOwnsBatch' /\ BankAgrees'
        /\ WorkerReadsKnown' /\ PendingIsNotOverdue'
    BY <2>2, <2>3, <2>4, <2>5, SettleKeepsInv
  <2>7. HandlerReadsCurrent'
    <3>1. \A g \in Handlers : handler'[g].pc = "settle" =>
             /\ g # h /\ handler'[g] = handler[g] /\ handler[g].item # i
             /\ handler[g].item \in Items
      BY <2>3, <2>4 DEF TypeOK, HandlerIdle, HandlerBusy
    <3>2. \A j \in Items \ {i} : itemStatus'[j] = itemStatus[j]
      BY <2>6 DEF TypeOK
    <3> QED
      BY <2>4, <3>1, <3>2 DEF SerialInv, HandlerReadsCurrent, ItemReference
  <2>8. CompletedLineIsPaid'
    <3>1. handler[h].next = "completed" => bank[ItemReference(i)] = "paid"
      BY <2>3 DEF EventStatus
    <3>2. \A j \in Items : itemStatus'[j] = IF j = i THEN handler[h].next ELSE itemStatus[j]
      BY <2>6 DEF TypeOK
    <3> QED
      BY <2>4, <3>1, <3>2 DEF SerialInv, CompletedLineIsPaid, ItemReference
  <2> QED
    BY <2>6, <2>7, <2>8 DEF SerialInv
<1>6. ASSUME NEW h \in Handlers, WebhookFails(h) PROVE SerialInv'
  <2>1. /\ handler' = [handler EXCEPT ![h] = HandlerIdle]
        /\ UNCHANGED <<status, pendingCount, itemStatus, attempt, resolvedBy,
                       overdue, employee, task, bank>>
    BY <1>6 DEF WebhookFails, batchVars
  <2>2. HandlerReadsCurrent'
    <3>1. \A g \in Handlers : handler'[g].pc = "settle" => handler'[g] = handler[g]
      BY <2>1 DEF TypeOK, HandlerIdle
    <3> QED
      BY <2>1, <3>1 DEF SerialInv, HandlerReadsCurrent, ItemReference
  <2>3. WorkerOwnsBatch' /\ WorkerReadsKnown'
    BY <2>1 DEF SerialInv, WorkerOwnsBatch, WorkerReadsKnown, Active, Holds,
                ItemsIn, ItemReference, LinesOf
  <2>4. CounterExact' /\ BankAgrees' /\ PendingIsNotOverdue' /\ CompletedLineIsPaid'
    BY <2>1 DEF SerialInv, CounterExact, BankAgrees, PendingIsNotOverdue,
                CompletedLineIsPaid, ItemsIn, ItemReference
  <2> QED
    BY <2>2, <2>3, <2>4 DEF SerialInv
<1>7. ASSUME NEW i \in Items, NEW next \in {"completed", "failed"}, ResolveItem(i, next)
      PROVE  SerialInv'
  <2>1. /\ itemStatus[i] = "processing" /\ overdue[i]
        /\ next = "failed" => bank[ItemReference(i)] \in {"none", "failed"}
        /\ next = "completed" => bank[ItemReference(i)] \in {"paid", "mispaid"}
        /\ SettlePayrollItem(i, "processing", next)
        /\ resolvedBy' = [resolvedBy EXCEPT ![i] = @ \/ itemStatus'[i] = next]
        /\ UNCHANGED <<attempt, overdue, employee, task, handler, bank>>
        /\ \A g \in Handlers : handler[g].pc = "settle" => handler[g].item # i
    BY <1>7 DEF ResolveItem, Resolvable, Attests, MaySettle, Serving
  <2>2. /\ itemStatus' = [itemStatus EXCEPT ![i] = next]
        /\ CounterExact' /\ WorkerOwnsBatch' /\ BankAgrees'
        /\ WorkerReadsKnown' /\ PendingIsNotOverdue'
    BY <2>1, SettleKeepsInv
  <2>3. HandlerReadsCurrent'
    <3>1. \A g \in Handlers : handler[g].pc = "settle" => handler[g].item \in Items
      BY DEF TypeOK, HandlerIdle, HandlerBusy
    <3>2. \A j \in Items \ {i} : itemStatus'[j] = itemStatus[j]
      BY <2>2 DEF TypeOK
    <3> QED
      BY <2>1, <3>1, <3>2 DEF SerialInv, HandlerReadsCurrent, ItemReference
  <2>4. CompletedLineIsPaid'
    <3>1. \A j \in Items : itemStatus'[j] = IF j = i THEN next ELSE itemStatus[j]
      BY <2>2 DEF TypeOK
    <3>2. resolvedBy'[i] /\ \A j \in Items \ {i} : resolvedBy'[j] = resolvedBy[j]
      BY <2>1, <3>1 DEF TypeOK
    <3> QED
      BY <2>1, <3>1, <3>2 DEF SerialInv, CompletedLineIsPaid, ItemReference
  <2> QED
    BY <2>2, <2>3, <2>4 DEF SerialInv
<1>8. ASSUME NEW t \in Tasks, RetryApply(t) PROVE SerialInv'
  BY <1>8, RetryKeepsInv
<1>9. CASE RetryCheck \/ RetryEnds \/ UNCHANGED vars
  <2>1. UNCHANGED <<status, pendingCount, itemStatus, attempt, resolvedBy, overdue,
                    employee, task, handler, bank>>
    BY <1>9 DEF RetryCheck, RetryEnds, batchVars, vars
  <2>2. WorkerOwnsBatch' /\ WorkerReadsKnown'
    BY <2>1 DEF SerialInv, WorkerOwnsBatch, WorkerReadsKnown, Active, Holds,
                ItemsIn, ItemReference, LinesOf
  <2> QED
    BY <2>1, <2>2, TaskIrrelevant DEF SerialInv
<1>10. ASSUME NEW r \in Refs, BankDecides(r) PROVE SerialInv'
  <2>1. /\ UNCHANGED <<status, pendingCount, itemStatus, attempt, resolvedBy, overdue,
                       employee, task, handler>>
        /\ \A q \in Refs : bank[q] # "accepted" => bank'[q] = bank[q]
        /\ \A q \in Refs : bank[q] # "none" => bank'[q] # "none"
    BY <1>10 DEF BankDecides, batchVars, TypeOK
  <2>2. /\ \A i \in Items : ItemReference(i) \in Refs /\ ItemReference(i)' = ItemReference(i)
        /\ \A i \in Items, a \in 1 .. MaxAttempt : <<i, a>> \in Refs
    BY <2>1 DEF ItemReference, Refs, TypeOK
  <2>3. WorkerOwnsBatch'
    <3>1. \A t \in Tasks : LinesOf(task[t].sendable) \in SUBSET Items
      BY DEF LinesOf, TypeOK, TaskRec, Refs
    <3>2. \A t \in Tasks : /\ LinesOf(task[t].sendable)' = LinesOf(task[t].sendable)
                           /\ Active(t)' <=> Active(t)
      BY <2>1 DEF LinesOf, Active
    <3>3. ItemsIn("processing")' = ItemsIn("processing")
      BY <2>1 DEF ItemsIn
    <3>4. \A i \in Items : bank[ItemReference(i)] = "none"
                               => bank'[ItemReference(i)'] = "none"
      BY <2>1, <2>2
    <3> QED
      BY <2>1, <3>1, <3>2, <3>3, <3>4 DEF SerialInv, WorkerOwnsBatch
  <2>4. HandlerReadsCurrent'
    <3>1. \A h \in Handlers : handler[h].pc = "settle" =>
             handler[h].item \in Items /\ handler[h].ref \in Refs
      BY DEF TypeOK, HandlerIdle, HandlerBusy
    <3>2. \A q \in Refs : bank[q] \in {"paid", "failed"} => bank'[q] = bank[q]
      BY <2>1
    <3> QED
      BY <2>1, <2>2, <3>1, <3>2 DEF SerialInv, HandlerReadsCurrent
  <2>5. BankAgrees'
    <3>1. \A q \in Refs : bank[q] \in {"none", "failed"} => bank'[q] = bank[q]
      BY <2>1
    <3> QED
      BY <2>1, <2>2, <3>1 DEF SerialInv, BankAgrees
  <2>6. WorkerReadsKnown'
    <3>1. \A t \in Tasks : \A q \in task[t].sendable : q \in Refs
      BY DEF TypeOK, TaskRec
    <3> QED
      BY <2>1, <3>1 DEF SerialInv, WorkerReadsKnown, Holds
  <2>7. CompletedLineIsPaid'
    <3>1. \A q \in Refs : bank[q] \in {"paid", "mispaid"} => bank'[q] = bank[q]
      BY <2>1
    <3> QED
      BY <2>1, <2>2, <3>1 DEF SerialInv, CompletedLineIsPaid
  <2>8. CounterExact' /\ PendingIsNotOverdue'
    BY <2>1 DEF SerialInv, CounterExact, PendingIsNotOverdue, ItemsIn
  <2> QED
    BY <2>3, <2>4, <2>5, <2>6, <2>7, <2>8 DEF SerialInv
<1>11. ASSUME NEW i \in Items, BecomesOverdue(i) PROVE SerialInv'
  <2>1. /\ itemStatus[i] = "processing"
        /\ \A t \in Tasks : Holds(t) => i \notin LinesOf(task[t].sendable)
        /\ overdue' = [overdue EXCEPT ![i] = TRUE]
        /\ UNCHANGED <<status, pendingCount, itemStatus, attempt, resolvedBy,
                       employee, task, handler, bank>>
    BY <1>11 DEF BecomesOverdue, batchVars, Holds
  <2>2. \A j \in Items \ {i} : overdue'[j] = overdue[j]
    BY <2>1 DEF TypeOK
  <2>3. WorkerOwnsBatch'
    <3>1. \A t \in Tasks : Active(t) => i \notin LinesOf(task[t].sendable)
      BY <2>1 DEF SerialInv, WorkerOwnsBatch, Active, Holds, LinesOf
    <3>2. \A t \in Tasks : LinesOf(task[t].sendable) \in SUBSET Items
      BY DEF LinesOf, TypeOK, TaskRec, Refs
    <3>3. \A t \in Tasks : /\ LinesOf(task[t].sendable)' = LinesOf(task[t].sendable)
                           /\ Active(t)' <=> Active(t)
      BY <2>1 DEF LinesOf, Active
    <3>4. /\ ItemsIn("processing")' = ItemsIn("processing")
          /\ \A j \in Items : ItemReference(j)' = ItemReference(j)
      BY <2>1 DEF ItemsIn, ItemReference
    <3> QED
      BY <2>1, <2>2, <3>1, <3>2, <3>3, <3>4 DEF SerialInv, WorkerOwnsBatch
  <2>4. WorkerReadsKnown'
    <3>1. \A t \in Tasks : Holds(t) =>
             \A r \in task[t].sendable : r[1] \in Items /\ r[1] # i
      BY <2>1 DEF LinesOf, TypeOK, TaskRec, Refs
    <3> QED
      BY <2>1, <2>2, <3>1 DEF SerialInv, WorkerReadsKnown, Holds
  <2>5. PendingIsNotOverdue'
    BY <2>1, <2>2 DEF SerialInv, PendingIsNotOverdue
  <2>6. CounterExact' /\ HandlerReadsCurrent' /\ BankAgrees' /\ CompletedLineIsPaid'
    BY <2>1 DEF SerialInv, CounterExact, HandlerReadsCurrent, BankAgrees,
                CompletedLineIsPaid, ItemsIn, ItemReference
  <2> QED
    BY <2>3, <2>4, <2>5, <2>6 DEF SerialInv
<1>12. ASSUME NEW i \in Items, EmployeeLeaves(i) PROVE SerialInv'
  <2>1. /\ UNCHANGED <<status, pendingCount, itemStatus, attempt, resolvedBy, overdue,
                       task, handler, bank>>
        /\ \A j \in Items : employee[j] = "gone" => employee'[j] = "gone"
    BY <1>12 DEF EmployeeLeaves, batchVars, TypeOK
  <2>2. WorkerOwnsBatch'
    BY <2>1 DEF SerialInv, WorkerOwnsBatch, Active, ItemsIn, ItemReference, LinesOf
  <2>3. WorkerReadsKnown'
    <3>1. \A t \in Tasks : /\ task[t].orphaned \in SUBSET Items
                           /\ \A r \in task[t].sendable : r[1] \in Items
      BY DEF TypeOK, TaskRec, Refs
    <3> QED
      BY <2>1, <3>1 DEF SerialInv, WorkerReadsKnown, Holds
  <2> QED
    BY <2>1, <2>2, <2>3, TaskIrrelevant DEF SerialInv
<1> QED
  BY <1>1, <1>2, <1>3, <1>4, <1>5, <1>6, <1>7, <1>8, <1>9, <1>10, <1>11, <1>12 DEF Next

\* Initially nothing is with the bank, owned or served.
LEMMA SerialInit == Init => SerialInv
<1> SUFFICES ASSUME Init PROVE SerialInv
  OBVIOUS
<1>1. /\ status = "pending" /\ handler = [h \in Handlers |-> HandlerIdle]
      /\ overdue = [i \in Items |-> FALSE]
      /\ attempt = [i \in Items |-> 1] /\ bank = [r \in Refs |-> "none"]
      /\ itemStatus = [i \in Items |-> IF i \in ZeroNet THEN "completed" ELSE "pending"]
  BY DEF Init
<1>2. \A t \in Tasks : task[t].pc \in {"unused", "enqueue"}
  BY DEF Init, TaskIdle
<1>3. CounterExact
  BY <1>1 DEF CounterExact, ItemsIn
<1>4. WorkerOwnsBatch /\ WorkerReadsKnown
  BY <1>2 DEF WorkerOwnsBatch, WorkerReadsKnown, Active, Holds
<1>5. HandlerReadsCurrent
  BY <1>1 DEF HandlerReadsCurrent, HandlerIdle
<1>6. BankAgrees
  <2>1. \A i \in Items : ItemReference(i) \in Refs
    BY <1>1, ConstantsAssumption DEF ItemReference, Refs
  <2>2. \A i \in Items, a \in 1 .. MaxAttempt : bank[<<i, a>>] = "none"
    BY <1>1 DEF Refs
  <2> QED
    BY <1>1, <2>1, <2>2 DEF BankAgrees
<1>7. PendingIsNotOverdue /\ CompletedLineIsPaid
  BY <1>1 DEF PendingIsNotOverdue, CompletedLineIsPaid
<1> QED
  BY <1>3, <1>4, <1>5, <1>6, <1>7 DEF SerialInv

\* The invariant behind the theorems below: with deliveries for a line served
\* one at a time, one worker owns the batch, requests read what they settle,
\* and the bank's record agrees with the lines, for every number of tasks,
\* requests, retries and attempts.
THEOREM SerialInvariant ==
    ASSUME "settlement" \notin Overlap
    PROVE  Spec => []SerialInv
<1>1. TypeOK /\ TypeOK' /\ SerialInv /\ [Next]_vars => SerialInv'
  BY SerialStep
<1> QED
  BY <1>1, SerialInit, TypeCorrect, PTL DEF Spec

\* pending_count is exact and only a processing batch has lines with the bank.
THEOREM CounterStaysExact ==
    ASSUME "settlement" \notin Overlap
    PROVE  Spec => []CounterExact
<1>1. SerialInv => CounterExact
  BY DEF SerialInv
<1> QED
  BY <1>1, SerialInvariant, PTL

\* Nobody is recorded as paid whom the bank has not paid.
THEOREM CompletedMeansPaid ==
    ASSUME "settlement" \notin Overlap
    PROVE  Spec => []CompletedLineIsPaid
<1>1. SerialInv => CompletedLineIsPaid
  BY DEF SerialInv
<1> QED
  BY <1>1, SerialInvariant, PTL

\* Nobody is paid twice: of all the references of a line only the current one
\* can have been paid.
THEOREM NobodyPaidTwice ==
    ASSUME "settlement" \notin Overlap
    PROVE  Spec => []PaidAtMostOnce
<1>1. TypeOK /\ SerialInv => PaidAtMostOnce
  <2> SUFFICES ASSUME TypeOK, SerialInv, NEW i \in Items
               PROVE  Cardinality({a \in 1 .. MaxAttempt :
                                     bank[<<i, a>>] \in {"paid", "mispaid"}}) <= 1
    BY DEF PaidAtMostOnce
  <2> DEFINE P == {a \in 1 .. MaxAttempt : bank[<<i, a>>] \in {"paid", "mispaid"}}
  <2>1. attempt[i] \in Nat /\ 1 .. MaxAttempt \subseteq Nat
    BY ConstantsAssumption DEF TypeOK
  <2>2. P \in SUBSET {attempt[i]}
    BY <2>1 DEF SerialInv, BankAgrees
  <2>3. IsFiniteSet({attempt[i]}) /\ Cardinality({attempt[i]}) = 1
    BY FS_Singleton
  <2>4. IsFiniteSet(P) /\ Cardinality(P) <= Cardinality({attempt[i]})
    BY <2>2, <2>3, FS_Subset
  <2> QED
    BY <2>3, <2>4
<1> QED
  BY <1>1, SerialInvariant, TypeCorrect, PTL

\* A callback only moves a line whose current attempt it is about.
THEOREM SupersededIgnored ==
    ASSUME "settlement" \notin Overlap
    PROVE  Spec => SupersededCallbackIgnored
<1>1. SerialInv /\ [Next]_vars =>
        [\A h \in Handlers :
            handler[h].pc = "settle" /\ handler'[h] # handler[h] /\ itemStatus' # itemStatus
            => handler[h].ref = ItemReference(handler[h].item)]_vars
  BY DEF SerialInv, HandlerReadsCurrent
<1> QED
  BY <1>1, SerialInvariant, PTL DEF Spec, SupersededCallbackIgnored

-----------------------------------------------------------------------------
(* Refinement: the batch implements DisbursementRun.                        *)

\* Lines as DisbursementRun sees them.
LEMMA AbstractLines ==
    ASSUME TypeOK
    PROVE  /\ Run!Out = ItemsIn("processing")
           /\ Run!Due = {i \in Items : itemStatus[i] \in {"pending", "failed"}}
  BY DEF Run!Out, Run!Due, ItemsIn, LineState, TypeOK, PayrollStatus

\* Settling a line with the bank is a payment or a return of that line.
LEMMA SettleIsAbstract ==
    ASSUME TypeOK, NEW i \in Items, itemStatus[i] = "processing",
           NEW next \in {"completed", "failed"},
           itemStatus' = [itemStatus EXCEPT ![i] = next], attempt' = attempt
    PROVE  Run!Next
<1>1. \A l \in Items : itemStatus'[l] = IF l = i THEN next ELSE itemStatus[l]
  BY DEF TypeOK
<1>2. CASE next = "completed"
  <2>1. Run!PayOut(i)
    BY <1>1, <1>2 DEF Run!PayOut, Run!Become, LineState
  <2> QED
    BY <2>1 DEF Run!Next
<1>3. CASE next = "failed"
  <2>1. Run!Return(i)
    BY <1>1, <1>3 DEF Run!Return, Run!Become, LineState
  <2> QED
    BY <2>1 DEF Run!Next
<1> QED
  BY <1>2, <1>3

\* Every step of the batch is a step of the run or leaves it alone.
LEMMA StepIsAbstract ==
    ASSUME "settlement" \notin Overlap, TypeOK, SerialInv, [Next]_vars
    PROVE  [Run!Next]_(Run!vars)
<1>1. ASSUME UNCHANGED <<itemStatus, attempt>> PROVE UNCHANGED Run!vars
  BY <1>1 DEF Run!vars
<1>2. ASSUME NEW t \in Tasks, ClaimBatch(t) PROVE Run!Next
  <2> DEFINE S == LinesOf(task[t].sendable)
             lost == task[t].orphaned \cap ItemsIn("pending")
  <2>1. /\ status # "processing" /\ S \subseteq ItemsIn("pending")
        /\ itemStatus' = [i \in Items |-> IF i \in S THEN "processing"
                                           ELSE IF i \in lost THEN "failed"
                                           ELSE itemStatus[i]]
        /\ attempt' = attempt
    BY <1>2 DEF ClaimBatch, Claimable
  <2>2. Run!Out = {}
    BY <2>1, AbstractLines DEF SerialInv, CounterExact
  <2>3. S \in SUBSET Run!Due
    BY <2>1, AbstractLines DEF ItemsIn
  <2>4. Run!Become(S, "out")
    <3>1. \A i \in Items : LineState[itemStatus'[i]] =
                              IF i \in S THEN "out" ELSE LineState[itemStatus[i]]
      BY <2>1 DEF LineState, ItemsIn
    <3> QED
      BY <2>1, <3>1 DEF Run!Become
  <2>5. Run!Claim(S)
    BY <2>2, <2>4 DEF Run!Claim
  <2>6. \E T \in SUBSET Run!Due : Run!Claim(T) \/ Run!Renew(T)
    BY <2>3, <2>5 DEF Run!Claim, Run!Become
  <2> QED
    BY <2>6 DEF Run!Next
<1>3. ASSUME NEW t \in Tasks, FailBatchBeforeSend(t) PROVE [Run!Next]_(Run!vars)
  <2>1. CASE status # "processing"
    BY <1>1, <1>3, <2>1 DEF FailBatchBeforeSend
  <2>2. CASE status = "processing"
    <3>1. Run!ReturnAll
      BY <1>3, <2>2, AbstractLines
         DEF FailBatchBeforeSend, Run!ReturnAll, Run!Become, LineState, ItemsIn
    <3> QED
      BY <3>1 DEF Run!Next
  <2> QED
    BY <2>1, <2>2
<1>4. ASSUME NEW t \in Tasks, Worker(t) PROVE [Run!Next]_(Run!vars)
  <2>1. \/ ClaimBatch(t) \/ FailBatchBeforeSend(t) \/ UNCHANGED <<itemStatus, attempt>>
    BY <1>4 DEF Worker, LoadBatch, ClaimStale, ClaimRollback, FinalizePayroll,
                BulkTransferTaken, BulkTransferLost, BulkTransferRejected, batchVars
  <2> QED
    BY <1>1, <1>2, <1>3, <2>1
<1>5. ASSUME NEW h \in Handlers, WebhookSettles(h) PROVE Run!Next
  <2>1. handler[h] \in HandlerBusy
    BY <1>5 DEF WebhookSettles, TypeOK, HandlerIdle
  <2>2. /\ handler[h].item \in Items /\ handler[h].next \in {"completed", "failed"}
        /\ itemStatus[handler[h].item] = "processing" /\ handler[h].prev = "processing"
    BY <1>5, <2>1 DEF HandlerBusy, WebhookSettles, SerialInv, HandlerReadsCurrent
  <2>3. itemStatus' = [itemStatus EXCEPT ![handler[h].item] = handler[h].next]
    BY <1>5, <2>2, SettleEffect DEF WebhookSettles, SerialInv
  <2> QED
    BY <1>5, <2>2, <2>3, SettleIsAbstract DEF WebhookSettles
<1>6. ASSUME NEW i \in Items, NEW next \in {"completed", "failed"}, ResolveItem(i, next)
      PROVE  Run!Next
  <2>1. itemStatus[i] = "processing" /\ itemStatus' = [itemStatus EXCEPT ![i] = next]
    BY <1>6, SettleEffect DEF ResolveItem, Resolvable, SerialInv
  <2> QED
    BY <1>6, <2>1, SettleIsAbstract DEF ResolveItem, Resolvable
<1>7. ASSUME NEW t \in Tasks, RetryApply(t) PROVE Run!Next
  <2>1. Retryable \in SUBSET Run!Due
    BY AbstractLines DEF Retryable, ItemsIn
  <2>2. Run!Renew(Retryable)
    <3>1. /\ itemStatus' = [i \in Items |-> IF i \in Retryable THEN "pending"
                                                            ELSE itemStatus[i]]
          /\ attempt' = [i \in Items |-> IF i \in Retryable THEN attempt[i] + 1
                                                         ELSE attempt[i]]
      BY <1>7 DEF RetryApply
    <3>2. \A i \in Items : LineState[itemStatus'[i]] = LineState[itemStatus[i]]
      BY <3>1 DEF LineState, Retryable, ItemsIn
    <3> QED
      BY <3>1, <3>2 DEF Run!Renew
  <2>3. \E T \in SUBSET Run!Due : Run!Claim(T) \/ Run!Renew(T)
    BY <2>1, <2>2 DEF Run!Renew
  <2> QED
    BY <2>3 DEF Run!Next
<1>8. CASE \/ \E t \in Tasks : EnqueueTask(t) \/ WorkerCrash(t)
           \/ \E h \in Handlers, r \in Refs : HandlePayrollItemWebhook(h, r)
           \/ \E h \in Handlers : WebhookFails(h)
           \/ RetryCheck \/ RetryEnds
           \/ \E r \in Refs : BankDecides(r)
           \/ \E i \in Items : BecomesOverdue(i) \/ EmployeeLeaves(i)
           \/ UNCHANGED vars
  <2>1. UNCHANGED <<itemStatus, attempt>>
    BY <1>8 DEF EnqueueTask, WorkerCrash, HandlePayrollItemWebhook, WebhookFails,
                RetryCheck, RetryEnds, BankDecides, BecomesOverdue, EmployeeLeaves,
                batchVars, vars
  <2> QED
    BY <1>1, <2>1
<1> QED
  BY <1>4, <1>5, <1>6, <1>7, <1>8 DEF Next

\* The batch keeps DisbursementRun's promise: one run out at a time, every line
\* sent out paid or returned, and no reference renewed while it is out.
THEOREM BatchImplementsRun ==
    ASSUME "settlement" \notin Overlap
    PROVE  Spec => ImplementsRun
<1>1. Init => Run!Init
  BY DEF Init, Run!Init, LineState
<1>2. TypeOK /\ SerialInv /\ [Next]_vars => [Run!Next]_(Run!vars)
  BY StepIsAbstract
<1> QED
  BY <1>1, <1>2, SerialInvariant, TypeCorrect, PTL DEF Spec, ImplementsRun, Run!Spec

-----------------------------------------------------------------------------
(* Retries that wait for the batch's task: what holds when neither overlaps. *)

\* One task of the batch is queued or running, and none while an admin's retry is
\* decided.
OneTask ==
    /\ \A t, u \in Tasks : Live(t) /\ Live(u) => t = u
    /\ retry => status = "failed" /\ \A t \in Tasks : ~ Live(t)

\* What the worker read is still so: the references are current, and until it claims
\* the batch it has seen every pending line.
ReadsStayCurrent ==
    \A t \in Tasks :
        /\ Holds(t) => \A r \in task[t].sendable : r[2] = attempt[r[1]]
        /\ task[t].pc = "claim" =>
                ItemsIn("pending") = LinesOf(task[t].sendable) \cup task[t].orphaned

\* A batch that is out has no line left behind.
NothingLeftBehind == status = "processing" => ItemsIn("pending") = {}

UnsentIsUnknown == \A r \in Refs : bank[r] = "none" => sends[r] = 0

PatientInv ==
    /\ OneTask /\ ReadsStayCurrent /\ NothingLeftBehind /\ UnsentIsUnknown
    /\ SentAtMostOnce /\ CompletedBatchPaidEveryone

\* The task that moves is the only live one.
LEMMA TaskAlone ==
    ASSUME PatientInv, NEW t \in Tasks, Live(t), retry' = retry,
           \A u \in Tasks \ {t} : task'[u] = task[u]
    PROVE  /\ OneTask' /\ ~ retry
           /\ \A u \in Tasks \ {t} : ~ Holds(u)' /\ task'[u].pc # "claim"
<1>1. \A u \in Tasks \ {t} : ~ Live(u) /\ ~ Live(u)'
  BY DEF PatientInv, OneTask, Live
<1>2. ~ retry
  BY DEF PatientInv, OneTask
<1>3. OneTask'
  BY <1>1, <1>2 DEF OneTask
<1> QED
  BY <1>1, <1>2, <1>3 DEF Live, Holds

\* A step that leaves the rows and the bank alone, and what the task read if it still
\* holds it.
LEMMA RowsStay ==
    ASSUME PatientInv, UNCHANGED <<status, itemStatus, attempt, bank, sends>>
    PROVE  /\ NothingLeftBehind' /\ UnsentIsUnknown' /\ SentAtMostOnce'
           /\ CompletedBatchPaidEveryone'
<1>1. ItemsIn("pending")' = ItemsIn("pending")
  BY DEF ItemsIn
<1> QED
  BY <1>1 DEF PatientInv, NothingLeftBehind, UnsentIsUnknown, SentAtMostOnce,
     CompletedBatchPaidEveryone

\* A task that lets go of what it read.
LEMMA TaskLeaves ==
    ASSUME PatientInv, NEW t \in Tasks, Live(t), retry' = retry,
           \A u \in Tasks \ {t} : task'[u] = task[u],
           ~ Holds(t)', task'[t].pc # "claim",
           UNCHANGED <<status, itemStatus, attempt, bank, sends>>
    PROVE  PatientInv'
<1>1. OneTask' /\ \A u \in Tasks \ {t} : ~ Holds(u)' /\ task'[u].pc # "claim"
  BY TaskAlone
<1>2. ReadsStayCurrent'
  BY <1>1 DEF ReadsStayCurrent
<1> QED
  BY <1>1, <1>2, RowsStay DEF PatientInv

LEMMA LoadKeepsPatient ==
    ASSUME TypeOK, PatientInv, NEW t \in Tasks, LoadBatch(t)
    PROVE  PatientInv'
<1> DEFINE lost == {i \in ItemsIn("pending") : employee[i] = "gone"}
           refs == {ItemReference(i) : i \in ItemsIn("pending") \ lost}
<1>1. /\ task[t].pc = "queued"
      /\ task'[t].pc = "claim" /\ task'[t].sendable = refs /\ task'[t].orphaned = lost
      /\ \A u \in Tasks \ {t} : task'[u] = task[u]
      /\ UNCHANGED <<status, itemStatus, attempt, bank, sends, retry>>
  BY DEF LoadBatch, batchVars, TypeOK
<1>2. OneTask' /\ \A u \in Tasks \ {t} : ~ Holds(u)' /\ task'[u].pc # "claim"
  BY <1>1, TaskAlone DEF Live
<1>3. ReadsStayCurrent'
  <2>1. \A r \in refs : r[2] = attempt[r[1]]
    BY DEF ItemReference
  <2>2. LinesOf(refs) = ItemsIn("pending") \ lost
    <3>1. \A i \in ItemsIn("pending") \ lost :
             ItemReference(i) \in refs /\ ItemReference(i)[1] = i
      BY DEF ItemReference
    <3>2. \A r \in refs : r[1] \in ItemsIn("pending") \ lost
      BY DEF ItemReference
    <3> HIDE DEF refs, lost
    <3> QED
      BY <3>1, <3>2 DEF LinesOf
  <2>3. LinesOf(refs) \cup lost = ItemsIn("pending")
    BY <2>2
  <2>4. ItemsIn("pending")' = ItemsIn("pending")
    BY <1>1 DEF ItemsIn
  <2> HIDE DEF refs, lost
  <2>5. LinesOf(task[t].sendable)' = LinesOf(refs)
    BY <1>1 DEF LinesOf
  <2> QED
    BY <1>1, <1>2, <2>1, <2>3, <2>4, <2>5 DEF ReadsStayCurrent
<1> QED
  BY <1>1, <1>2, <1>3, RowsStay DEF PatientInv

LEMMA ClaimKeepsPatient ==
    ASSUME TypeOK, PatientInv, NEW t \in Tasks, ClaimBatch(t)
    PROVE  PatientInv'
<1> DEFINE S == LinesOf(task[t].sendable)
           lost == task[t].orphaned \cap ItemsIn("pending")
<1>1. /\ task[t].pc = "claim" /\ status' = "processing"
      /\ itemStatus' = [i \in Items |-> IF i \in S THEN "processing"
                                         ELSE IF i \in lost THEN "failed"
                                         ELSE itemStatus[i]]
      /\ UNCHANGED <<attempt, bank, sends, retry>>
  BY DEF ClaimBatch
<1>2. /\ task'[t].pc \in {"finalize", "send"} /\ task'[t].sendable = task[t].sendable
      /\ \A u \in Tasks \ {t} : task'[u] = task[u]
  BY DEF ClaimBatch, TypeOK, TaskRec
<1>3. OneTask' /\ \A u \in Tasks \ {t} : ~ Holds(u)' /\ task'[u].pc # "claim"
  BY <1>1, <1>2, TaskAlone DEF Live
<1>4. ReadsStayCurrent'
  <2>1. \A r \in task[t].sendable : r[2] = attempt[r[1]]
    BY <1>1 DEF PatientInv, ReadsStayCurrent, Holds
  <2> QED
    BY <1>1, <1>2, <1>3, <2>1 DEF ReadsStayCurrent
<1>5. NothingLeftBehind'
  <2>1. ItemsIn("pending") = S \cup task[t].orphaned
    BY <1>1 DEF PatientInv, ReadsStayCurrent
  <2>2. \A i \in Items : itemStatus'[i] # "pending"
    <3> TAKE i \in Items
    <3>1. CASE itemStatus[i] = "pending"
      <4>1. i \in ItemsIn("pending")
        BY <3>1 DEF ItemsIn
      <4>2. i \in S \/ i \in lost
        BY <2>1, <4>1
      <4> QED
        BY <1>1, <4>2
    <3>2. CASE itemStatus[i] # "pending"
      BY <1>1, <3>2
    <3> QED
      BY <3>1, <3>2
  <2> QED
    BY <2>2 DEF NothingLeftBehind, ItemsIn
<1>6. UnsentIsUnknown' /\ SentAtMostOnce' /\ CompletedBatchPaidEveryone'
  BY <1>1 DEF PatientInv, UnsentIsUnknown, SentAtMostOnce, CompletedBatchPaidEveryone
<1> QED
  BY <1>3, <1>4, <1>5, <1>6 DEF PatientInv

\* All is paid that a closing batch holds.
LEMMA VerdictPaid ==
    ASSUME NEW lines \in [Items -> PayrollStatus],
           \A i \in Items : lines[i] \notin {"pending", "processing"},
           BatchVerdict(lines) = "completed"
    PROVE  \A i \in Items : lines[i] = "completed"
  BY DEF BatchVerdict, PayrollStatus

LEMMA FinalizeKeepsPatient ==
    ASSUME TypeOK, SerialInv, PatientInv, NEW t \in Tasks, FinalizePayroll(t)
    PROVE  PatientInv'
<1>1. /\ task[t].pc = "finalize" /\ UNCHANGED <<itemStatus, attempt, bank, sends, retry>>
      /\ status' \in {status, BatchVerdict(itemStatus)}
  BY DEF FinalizePayroll
<1>2. task'[t].pc \in {"queued", "done"} /\ \A u \in Tasks \ {t} : task'[u] = task[u]
  BY DEF FinalizePayroll, EndTask, Redeliver, TaskIdle, TypeOK
<1>3. OneTask' /\ \A u \in Tasks \ {t} : ~ Holds(u)' /\ task'[u].pc # "claim"
  BY <1>1, <1>2, TaskAlone DEF Live
<1>4. ReadsStayCurrent'
  BY <1>2, <1>3 DEF ReadsStayCurrent, Holds
<1>5. \A i \in Items : itemStatus[i] \notin {"pending", "processing"}
  <2>1. status = "processing" /\ ItemsIn("processing") = LinesOf(task[t].sendable)
        /\ task[t].sendable = {}
    BY <1>1 DEF SerialInv, WorkerOwnsBatch, Active
  <2>2. ItemsIn("processing") = {}
    BY <2>1 DEF LinesOf
  <2>3. ItemsIn("pending") = {}
    BY <2>1 DEF PatientInv, NothingLeftBehind
  <2> QED
    BY <2>2, <2>3 DEF ItemsIn
<1>6. NothingLeftBehind'
  BY <1>1, <1>5 DEF NothingLeftBehind, ItemsIn
<1>7. CompletedBatchPaidEveryone'
  <2>1. BatchVerdict(itemStatus) = "completed" => \A i \in Items : itemStatus[i] = "completed"
    BY <1>5, VerdictPaid DEF TypeOK
  <2> QED
    BY <1>1, <2>1 DEF PatientInv, CompletedBatchPaidEveryone
<1>8. UnsentIsUnknown' /\ SentAtMostOnce'
  BY <1>1 DEF PatientInv, UnsentIsUnknown, SentAtMostOnce
<1> QED
  BY <1>3, <1>4, <1>6, <1>7, <1>8 DEF PatientInv

LEMMA SendKeepsPatient ==
    ASSUME TypeOK, SerialInv, PatientInv, NEW t \in Tasks, BulkTransferTaken(t)
    PROVE  PatientInv'
<1> DEFINE R == task[t].sendable
<1>1. /\ task[t].pc = "send"
      /\ bank' = [r \in Refs |-> IF r \in R /\ bank[r] = "none"
                                 THEN "accepted" ELSE bank[r]]
      /\ sends' = [r \in Refs |-> IF r \in R THEN sends[r] + 1 ELSE sends[r]]
      /\ UNCHANGED <<status, itemStatus, attempt, retry>>
  BY DEF BulkTransferTaken, batchVars
<1>2. task'[t].pc \in {"queued", "done"} /\ \A u \in Tasks \ {t} : task'[u] = task[u]
  BY TaskEnds DEF BulkTransferTaken
<1>3. OneTask' /\ \A u \in Tasks \ {t} : ~ Holds(u)' /\ task'[u].pc # "claim"
  BY <1>1, <1>2, TaskAlone DEF Live
<1>4. ReadsStayCurrent'
  BY <1>2, <1>3 DEF ReadsStayCurrent, Holds
<1>5. \A r \in R : bank[r] = "none"
  <2> TAKE r \in R
  <2>1. r \in Refs /\ r[1] \in LinesOf(R)
    BY DEF TypeOK, TaskRec, LinesOf
  <2>2. r[2] = attempt[r[1]]
    BY <1>1 DEF PatientInv, ReadsStayCurrent, Holds
  <2>3. r = ItemReference(r[1])
    BY <2>1, <2>2 DEF ItemReference, Refs
  <2>4. bank[ItemReference(r[1])] = "none"
    BY <1>1, <2>1 DEF SerialInv, WorkerOwnsBatch, Active
  <2> QED
    BY <2>3, <2>4
<1>6. UnsentIsUnknown' /\ SentAtMostOnce'
  <2> SUFFICES ASSUME NEW r \in Refs
               PROVE  (bank'[r] = "none" => sends'[r] = 0) /\ sends'[r] <= 1
    BY DEF UnsentIsUnknown, SentAtMostOnce
  <2>1. (bank[r] = "none" => sends[r] = 0) /\ sends[r] <= 1
    BY DEF PatientInv, UnsentIsUnknown, SentAtMostOnce
  <2>2. CASE r \in R
    BY <1>1, <1>5, <2>1, <2>2
  <2>3. CASE r \notin R
    BY <1>1, <2>1, <2>3
  <2> QED
    BY <2>2, <2>3
<1>7. NothingLeftBehind' /\ CompletedBatchPaidEveryone'
  BY <1>1 DEF PatientInv, NothingLeftBehind, CompletedBatchPaidEveryone, ItemsIn
<1> QED
  BY <1>3, <1>4, <1>6, <1>7 DEF PatientInv

LEMMA RejectKeepsPatient ==
    ASSUME TypeOK, SerialInv, PatientInv, NEW t \in Tasks, FailBatchBeforeSend(t)
    PROVE  PatientInv'
<1>1. task[t].pc = "rejected" /\ status = "processing"
  BY DEF FailBatchBeforeSend, SerialInv, WorkerOwnsBatch, Active
<1>2. status' = "failed" /\ UNCHANGED <<attempt, bank, sends, retry>>
  BY <1>1 DEF FailBatchBeforeSend
<1>3. task'[t].pc \in {"queued", "done"} /\ \A u \in Tasks \ {t} : task'[u] = task[u]
  BY DEF FailBatchBeforeSend, Redeliver, TaskIdle, TypeOK
<1>4. OneTask' /\ \A u \in Tasks \ {t} : ~ Holds(u)' /\ task'[u].pc # "claim"
  BY <1>1, <1>2, <1>3, TaskAlone DEF Live
<1>5. ReadsStayCurrent'
  BY <1>3, <1>4 DEF ReadsStayCurrent, Holds
<1>6. NothingLeftBehind' /\ CompletedBatchPaidEveryone'
  BY <1>2 DEF NothingLeftBehind, CompletedBatchPaidEveryone
<1>7. UnsentIsUnknown' /\ SentAtMostOnce'
  BY <1>2 DEF PatientInv, UnsentIsUnknown, SentAtMostOnce
<1> QED
  BY <1>4, <1>5, <1>6, <1>7 DEF PatientInv

LEMMA SettleKeepsPatient ==
    ASSUME TypeOK, TypeOK', SerialInv, PatientInv, NEW i \in Items,
           itemStatus[i] = "processing", NEW next \in {"completed", "failed"},
           SettlePayrollItem(i, "processing", next),
           UNCHANGED <<attempt, task, retry, bank, sends>>
    PROVE  PatientInv'
<1>1. itemStatus' = [itemStatus EXCEPT ![i] = next] /\ status = "processing" /\ CounterExact'
  BY SettleEffect DEF SerialInv
<1>2. ItemsIn("pending")' = ItemsIn("pending")
  BY <1>1 DEF ItemsIn, TypeOK
<1>3. ItemsIn("pending") = {}
  BY <1>1 DEF PatientInv, NothingLeftBehind
<1>4. ~ retry
  BY <1>1 DEF PatientInv, OneTask
<1>5. OneTask'
  BY <1>4 DEF PatientInv, OneTask, Live
<1>6. ReadsStayCurrent'
  BY <1>2 DEF PatientInv, ReadsStayCurrent, Holds, LinesOf
<1>7. NothingLeftBehind'
  BY <1>2, <1>3 DEF NothingLeftBehind
<1>8. CompletedBatchPaidEveryone'
  <2> SUFFICES ASSUME status' = "completed"
               PROVE  \A j \in Items : itemStatus'[j] = "completed"
    BY DEF CompletedBatchPaidEveryone
  <2>1. \A j \in Items : itemStatus'[j] \notin {"pending", "processing"}
    BY <1>1, <1>2, <1>3 DEF CounterExact, ItemsIn
  <2>2. BatchVerdict(itemStatus') = "completed"
    BY <1>1 DEF SettlePayrollItem
  <2>3. itemStatus' \in [Items -> PayrollStatus]
    BY DEF TypeOK
  <2> QED
    BY <2>1, <2>2, <2>3, VerdictPaid
<1>9. UnsentIsUnknown' /\ SentAtMostOnce'
  BY DEF PatientInv, UnsentIsUnknown, SentAtMostOnce
<1> QED
  BY <1>5, <1>6, <1>7, <1>8, <1>9 DEF PatientInv

LEMMA PatientStep ==
    ASSUME Overlap = {}, TypeOK, TypeOK', SerialInv, PatientInv, [Next]_vars
    PROVE  PatientInv'
<1>1. ASSUME NEW t \in Tasks,
             \/ EnqueueTask(t) \/ ClaimStale(t) \/ ClaimRollback(t)
             \/ BulkTransferLost(t) \/ WorkerCrash(t)
      PROVE  PatientInv'
  <2>1. /\ Live(t)
        /\ UNCHANGED <<status, itemStatus, attempt, bank, sends, retry>>
    BY <1>1 DEF EnqueueTask, ClaimStale, ClaimRollback, BulkTransferLost, WorkerCrash,
                batchVars, Live
  <2>2. task'[t].pc \in {"queued", "done"} /\ \A u \in Tasks \ {t} : task'[u] = task[u]
    BY <1>1 DEF EnqueueTask, ClaimStale, ClaimRollback, BulkTransferLost, WorkerCrash,
                EndTask, Redeliver, TaskIdle, TypeOK, TaskRec
  <2> QED
    BY <2>1, <2>2, TaskLeaves DEF Holds
<1>2. ASSUME NEW t \in Tasks, BulkTransferRejected(t)
      PROVE  PatientInv'
  <2>1. /\ task[t].pc = "send"
        /\ UNCHANGED <<status, itemStatus, attempt, bank, sends, retry>>
    BY <1>2 DEF BulkTransferRejected, batchVars
  <2>2. /\ task'[t].pc = "rejected" /\ task'[t].sendable = task[t].sendable
        /\ \A u \in Tasks \ {t} : task'[u] = task[u]
    BY <1>2 DEF BulkTransferRejected, TypeOK, TaskRec
  <2>3. OneTask' /\ \A u \in Tasks \ {t} : ~ Holds(u)' /\ task'[u].pc # "claim"
    BY <2>1, <2>2, TaskAlone DEF Live
  <2>4. ReadsStayCurrent'
    BY <2>1, <2>2, <2>3 DEF PatientInv, ReadsStayCurrent, Holds
  <2> QED
    BY <2>1, <2>3, <2>4, RowsStay DEF PatientInv
<1>3. ASSUME NEW t \in Tasks, Worker(t)
      PROVE  PatientInv'
  BY <1>1, <1>2, <1>3, LoadKeepsPatient, ClaimKeepsPatient, FinalizeKeepsPatient,
     SendKeepsPatient, RejectKeepsPatient DEF Worker
<1>4. ASSUME NEW h \in Handlers, WebhookSettles(h)
      PROVE  PatientInv'
  <2>1. handler[h] \in HandlerBusy
    BY <1>4 DEF WebhookSettles, TypeOK, HandlerIdle
  <2>2. /\ handler[h].item \in Items /\ handler[h].next \in {"completed", "failed"}
        /\ itemStatus[handler[h].item] = "processing" /\ handler[h].prev = "processing"
    BY <1>4, <2>1 DEF HandlerBusy, WebhookSettles, SerialInv, HandlerReadsCurrent
  <2> QED
    BY <1>4, <2>2, SettleKeepsPatient DEF WebhookSettles
<1>5. ASSUME NEW i \in Items, NEW next \in {"completed", "failed"}, ResolveItem(i, next)
      PROVE  PatientInv'
  BY <1>5, SettleKeepsPatient DEF ResolveItem, Resolvable
<1>6. ASSUME RetryCheck
      PROVE  PatientInv'
  <2>1. /\ status = "failed" /\ \A t \in Tasks : ~ Live(t)
        /\ UNCHANGED <<status, itemStatus, attempt, task, bank, sends>>
    BY <1>6 DEF RetryCheck, MayRetry, batchVars
  <2>2. OneTask'
    BY <2>1 DEF OneTask, Live
  <2>3. ReadsStayCurrent'
    BY <2>1 DEF ReadsStayCurrent, Holds, Live
  <2> QED
    BY <2>1, <2>2, <2>3, RowsStay DEF PatientInv
<1>7. ASSUME NEW t \in Tasks, RetryApply(t)
      PROVE  PatientInv'
  <2>1. status = "failed" /\ \A u \in Tasks : ~ Live(u)
    BY <1>7 DEF RetryApply, PatientInv, OneTask
  <2>2. /\ task'[t].pc = "enqueue" /\ \A u \in Tasks \ {t} : task'[u] = task[u]
        /\ ~ retry' /\ UNCHANGED <<status, bank, sends>>
    BY <1>7 DEF RetryApply, TypeOK, TaskRec
  <2>3. OneTask'
    BY <2>1, <2>2 DEF OneTask, Live
  <2>4. ReadsStayCurrent'
    BY <2>1, <2>2 DEF ReadsStayCurrent, Holds, Live
  <2>5. NothingLeftBehind' /\ CompletedBatchPaidEveryone'
    BY <2>1, <2>2 DEF NothingLeftBehind, CompletedBatchPaidEveryone
  <2>6. UnsentIsUnknown' /\ SentAtMostOnce'
    BY <2>2 DEF PatientInv, UnsentIsUnknown, SentAtMostOnce
  <2> QED
    BY <2>3, <2>4, <2>5, <2>6 DEF PatientInv
<1>8. ASSUME NEW r \in Refs, BankDecides(r)
      PROVE  PatientInv'
  <2>1. /\ UNCHANGED <<status, itemStatus, attempt, task, retry, sends>>
        /\ \A q \in Refs : bank'[q] = "none" => bank[q] = "none"
    BY <1>8 DEF BankDecides, batchVars, TypeOK
  <2>2. OneTask' /\ ReadsStayCurrent'
    BY <2>1 DEF PatientInv, OneTask, ReadsStayCurrent, Live, Holds, ItemsIn, LinesOf
  <2>3. NothingLeftBehind' /\ CompletedBatchPaidEveryone'
    BY <2>1 DEF PatientInv, NothingLeftBehind, CompletedBatchPaidEveryone, ItemsIn
  <2>4. UnsentIsUnknown' /\ SentAtMostOnce'
    BY <2>1 DEF PatientInv, UnsentIsUnknown, SentAtMostOnce
  <2> QED
    BY <2>2, <2>3, <2>4 DEF PatientInv
<1>9. CASE \/ \E h \in Handlers, r \in Refs : HandlePayrollItemWebhook(h, r)
           \/ \E h \in Handlers : WebhookFails(h)
           \/ RetryEnds
           \/ \E i \in Items : BecomesOverdue(i) \/ EmployeeLeaves(i)
           \/ UNCHANGED vars
  <2>1. UNCHANGED <<status, itemStatus, attempt, task, bank, sends>> /\ (retry' => retry)
    BY <1>9 DEF HandlePayrollItemWebhook, WebhookFails, RetryEnds, BecomesOverdue,
                EmployeeLeaves, batchVars, vars
  <2>2. OneTask' /\ ReadsStayCurrent'
    BY <2>1 DEF PatientInv, OneTask, ReadsStayCurrent, Live, Holds, ItemsIn, LinesOf
  <2> QED
    BY <2>1, <2>2, RowsStay DEF PatientInv
<1> QED
  BY <1>1, <1>3, <1>4, <1>5, <1>6, <1>7, <1>8, <1>9 DEF Next

LEMMA PatientInit == Init => PatientInv
<1> SUFFICES ASSUME Init
             PROVE  PatientInv
  OBVIOUS
<1>1. PICK t \in Tasks :
        task = [u \in Tasks |-> IF u = t THEN [TaskIdle EXCEPT !.pc = "enqueue"] ELSE TaskIdle]
  BY DEF Init
<1>2. task[t].pc = "enqueue" /\ \A u \in Tasks \ {t} : task[u].pc = "unused"
  BY <1>1 DEF TaskIdle
<1>3. OneTask /\ ReadsStayCurrent
  BY <1>2 DEF Init, OneTask, ReadsStayCurrent, Live, Holds
<1>4. NothingLeftBehind /\ UnsentIsUnknown /\ SentAtMostOnce /\ CompletedBatchPaidEveryone
  BY DEF Init, NothingLeftBehind, UnsentIsUnknown, SentAtMostOnce, CompletedBatchPaidEveryone
<1> QED
  BY <1>3, <1>4 DEF PatientInv

\* ProcessPayrollTask, RetryFailedItems and the callbacks when an admin's retry waits
\* for the batch's task: one task is live, and what it read is still so when it writes.
THEOREM PatientInvariant ==
    ASSUME Overlap = {}
    PROVE  Spec => []PatientInv
<1>1. TypeOK /\ TypeOK' /\ SerialInv /\ PatientInv /\ [Next]_vars => PatientInv'
  BY PatientStep
<1>2. Spec => []SerialInv
  BY SerialInvariant
<1> QED
  BY <1>1, <1>2, PatientInit, TypeCorrect, PTL DEF Spec

\* InitiateBulkTransfer: no reference is handed to the bank twice, for every number of
\* crashes, redeliveries and unknown outcomes, when retries wait for the batch's task.
THEOREM NeverResent ==
    ASSUME Overlap = {}
    PROVE  Spec => []SentAtMostOnce
<1>1. PatientInv => SentAtMostOnce
  BY DEF PatientInv
<1> QED
  BY <1>1, PatientInvariant, PTL

\* reconcilePayrollStatus and finalizePayroll: a batch recorded as completed has no line
\* that is failed or was never sent, when retries wait for the batch's task.
THEOREM CompletedPaidEveryone ==
    ASSUME Overlap = {}
    PROVE  Spec => []CompletedBatchPaidEveryone
<1>1. PatientInv => CompletedBatchPaidEveryone
  BY DEF PatientInv
<1> QED
  BY <1>1, PatientInvariant, PTL
=============================================================================
