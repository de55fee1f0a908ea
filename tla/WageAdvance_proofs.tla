------------------------- MODULE WageAdvance_proofs -------------------------
(* Proofs about WageAdvance, for every number of workers, advances, amounts,*)
(* tasks, periods and deposits.                                             *)
EXTENDS WageAdvance, Sums_proofs

-----------------------------------------------------------------------------
(* Typing.                                                                  *)

TaskRec == [pc : {"queued", "send", "record", "reject"}, advance : AdvanceIds]

\* Reversing entries keep every advance and its entries well typed.
LEMMA ResolveTypes ==
    ASSUME TypeOK, NEW C, NEW W, Resolve(C, W)
    PROVE  /\ status' \in [AdvanceIds -> AdvanceStatus]
           /\ receivable' \in [AdvanceIds -> Int]
           /\ cash' \in [AdvanceIds -> Int]
  BY DEF TypeOK, Resolve, AdvanceStatus

\* A task that is somewhere is a task, and stays one wherever it goes.
LEMMA TaskTypes ==
    ASSUME TypeOK, NEW k \in Tasks
    PROVE  /\ task[k].pc # "idle" => task[k] \in TaskRec
           /\ task[k].pc # "idle" =>
                 \A pc \in {"queued", "send", "record", "reject"} :
                    [task EXCEPT ![k].pc = pc] \in [Tasks -> {Idle} \cup TaskRec]
           /\ [task EXCEPT ![k] = Idle] \in [Tasks -> {Idle} \cup TaskRec]
           /\ \A a \in AdvanceIds :
                 [task EXCEPT ![k] = [pc |-> "queued", advance |-> a]]
                     \in [Tasks -> {Idle} \cup TaskRec]
<1>1. task \in [Tasks -> {Idle} \cup TaskRec]
  BY DEF TypeOK, TaskRec
<1>2. task[k].pc # "idle" => task[k] \in TaskRec
  BY <1>1 DEF Idle
<1>3. ASSUME task[k].pc # "idle", NEW pc \in {"queued", "send", "record", "reject"}
      PROVE  [task EXCEPT ![k].pc = pc] \in [Tasks -> {Idle} \cup TaskRec]
  <2>1. [task[k] EXCEPT !.pc = pc] \in TaskRec
    BY <1>2, <1>3 DEF TaskRec
  <2> QED
    BY <1>1, <2>1
<1>4. [task EXCEPT ![k] = Idle] \in [Tasks -> {Idle} \cup TaskRec]
  BY <1>1
<1>5. ASSUME NEW a \in AdvanceIds
      PROVE  [task EXCEPT ![k] = [pc |-> "queued", advance |-> a]]
                 \in [Tasks -> {Idle} \cup TaskRec]
  BY <1>1 DEF TaskRec
<1> QED
  BY <1>2, <1>3, <1>4, <1>5

\* Each step of a disbursement task preserves the types.
LEMMA TaskPreservesTypes ==
    ASSUME TypeOK, NEW k \in Tasks, DisbursementTask(k)
    PROVE  TypeOK'
<1> DEFINE a == task[k].advance
<1>1. task \in [Tasks -> {Idle} \cup TaskRec]
  BY DEF TypeOK, TaskRec
<1>2. task[k].pc # "idle"
  BY DEF DisbursementTask, LoadAdvance, TransferAccepted, TransferUnavailable,
         TransferRejected, RecordSubmission, CancelRejected, TaskCrash, At
<1>3. a \in AdvanceIds
  BY <1>2, TaskTypes DEF TaskRec
<1>4. task' \in [Tasks -> {Idle} \cup TaskRec]
  <2>1. (\E pc \in {"queued", "send", "record", "reject"} : Goto(k, pc)) \/ TaskEnds(k)
    BY Zenon DEF DisbursementTask, LoadAdvance, TransferAccepted, TransferUnavailable,
           TransferRejected, RecordSubmission, CancelRejected, TaskCrash
  <2>2. CASE TaskEnds(k)
    BY <2>2, TaskTypes, Zenon DEF TaskEnds
  <2>3. ASSUME NEW pc \in {"queued", "send", "record", "reject"}, Goto(k, pc)
        PROVE  task' \in [Tasks -> {Idle} \cup TaskRec]
    BY <1>2, <2>3, TaskTypes, Zenon DEF Goto
  <2> QED
    BY <2>1, <2>2, <2>3
<1>5. task' \in [Tasks -> {Idle} \cup [pc : {"queued", "send", "record", "reject"},
                                       advance : AdvanceIds]]
  BY <1>4 DEF TaskRec
<1>6. Taken(a) => bank' \in [AdvanceIds -> {"none", "accepted", "paid", "mispaid", "failed"}]
  BY <1>3 DEF Taken, TypeOK
<1>7. CASE LoadAdvance(k) \/ TransferRejected(k) \/ TaskCrash(k)
  BY <1>5, <1>7 DEF LoadAdvance, TransferRejected, TaskCrash, TypeOK, advanceVars
<1>8. CASE TransferAccepted(k)
  BY <1>5, <1>6, <1>8 DEF TransferAccepted, TypeOK, advanceVars
<1>9. CASE TransferUnavailable(k)
  <2>1. bank' \in [AdvanceIds -> {"none", "accepted", "paid", "mispaid", "failed"}]
    BY <1>6, <1>9 DEF TransferUnavailable, TypeOK
  <2> QED
    BY <1>5, <1>9, <2>1 DEF TransferUnavailable, TypeOK, advanceVars
<1>10. CASE RecordSubmission(k)
  <2>1. submitted' \in [AdvanceIds -> BOOLEAN]
    BY <1>3, <1>10 DEF RecordSubmission, TypeOK
  <2> QED
    BY <1>5, <1>10, <2>1 DEF RecordSubmission, TypeOK
<1>11. CASE CancelRejected(k)
  <2>1. /\ status' \in [AdvanceIds -> AdvanceStatus]
        /\ receivable' \in [AdvanceIds -> Int]
        /\ cash' \in [AdvanceIds -> Int]
    BY <1>11, ResolveTypes DEF CancelRejected
  <2> QED
    BY <1>5, <1>11, <2>1 DEF CancelRejected, TypeOK
<1> QED
  BY <1>7, <1>8, <1>9, <1>10, <1>11 DEF DisbursementTask

\* A request, its decision and its replay preserve the types.
LEMMA RequestPreservesTypes ==
    ASSUME TypeOK, NEW a \in AdvanceIds,
           \/ \E x \in Amounts : RequestRead(a, x)
           \/ RequestDecide(a)
           \/ RequestReplay(a)
    PROVE  TypeOK'
<1> DEFINE Busy == [pc : {"busy"}, amount : Amounts, ok : BOOLEAN]
<1>1. ASSUME NEW x \in Amounts, RequestRead(a, x)
      PROVE  TypeOK'
  <2>1. PICK blocked \in BOOLEAN :
           request' = [request EXCEPT ![a] =
                          [pc |-> "busy", amount |-> x,
                           ok |-> ~ blocked /\ Eligible(Owner[a], x)]]
    BY <1>1 DEF RequestRead
  <2>2. (~ blocked /\ Eligible(Owner[a], x)) \in BOOLEAN
    OBVIOUS
  <2>3. [pc |-> "busy", amount |-> x, ok |-> ~ blocked /\ Eligible(Owner[a], x)] \in Busy
    BY <2>2
  <2>4. request' \in [AdvanceIds -> {Idle} \cup Busy]
    BY <2>1, <2>3 DEF TypeOK
  <2> QED
    BY <1>1, <2>4 DEF RequestRead, TypeOK, advanceVars
<1>2. CASE RequestDecide(a)
  <2>1. request[a] \in Busy
    BY <1>2 DEF RequestDecide, TypeOK
  <2>2. request[a].amount \in Nat
    BY <2>1, AdvanceConstants
  <2>3. task' \in [Tasks -> {Idle} \cup TaskRec]
    <3>1. CASE task' = task
      BY <3>1 DEF TypeOK, TaskRec
    <3>2. CASE \E k \in Tasks : task' = [task EXCEPT ![k] = [pc |-> "queued", advance |-> a]]
      <4>1. PICK k \in Tasks : task' = [task EXCEPT ![k] = [pc |-> "queued", advance |-> a]]
        BY <3>2
      <4> QED
        BY <4>1, TaskTypes, Zenon
    <3> QED
      BY <1>2, <3>1, <3>2 DEF RequestDecide, Enqueue
  <2>4. /\ amount' \in [AdvanceIds -> Nat]
        /\ period' \in [AdvanceIds -> Periods]
        /\ status' \in [AdvanceIds -> AdvanceStatus]
        /\ receivable' \in [AdvanceIds -> Int]
        /\ cash' \in [AdvanceIds -> Int]
    BY <1>2, <2>2 DEF RequestDecide, TypeOK, AdvanceStatus
  <2>5. request' \in [AdvanceIds -> {Idle} \cup Busy]
    BY <1>2 DEF RequestDecide, TypeOK
  <2> QED
    BY <1>2, <2>3, <2>4, <2>5 DEF RequestDecide, TypeOK, TaskRec
<1>3. CASE RequestReplay(a)
  <2>1. task' \in [Tasks -> {Idle} \cup TaskRec]
    <3>1. PICK k \in Tasks : task' = [task EXCEPT ![k] = [pc |-> "queued", advance |-> a]]
      BY <1>3 DEF RequestReplay
    <3> QED
      BY <3>1, TaskTypes, Zenon
  <2> QED
    BY <1>3, <2>1 DEF RequestReplay, TypeOK, TaskRec, advanceVars
<1> QED
  BY <1>1, <1>2, <1>3

\* What SettleAdvances withholds is a natural number, at most what is owed.
LEMMA PortionBounded ==
    ASSUME TypeOK, NEW a \in AdvanceIds, Portion(a) \in Nat
    PROVE  /\ Portion(a) <= RemainingKobo(a)
           /\ Portion(a) > 0 => payroll.disbursed # {} /\ a \in payroll.disbursed
           /\ RemainingKobo(a) \in Nat
<1>1. RemainingKobo(a) \in Nat
  BY DEF RemainingKobo, TypeOK
<1> QED
  BY <1>1 DEF Portion

\* A payroll run's two steps preserve the types.
LEMMA PayrollPreservesTypes ==
    ASSUME TypeOK, (\E p \in Periods : PayrollRead(p)) \/ SettleAdvances
    PROVE  TypeOK'
<1>1. CASE \E p \in Periods : PayrollRead(p)
  BY <1>1 DEF PayrollRead, Still, TypeOK, Seen, advanceVars
<1>2. CASE SettleAdvances
  <2>1. \A a \in AdvanceIds : Portion(a) \in Nat
    BY <1>2 DEF SettleAdvances
  <2>2. /\ status' \in [AdvanceIds -> AdvanceStatus]
        /\ receivable' \in [AdvanceIds -> Int]
        /\ cash' \in [AdvanceIds -> Int]
        /\ recovered' \in [AdvanceIds -> Nat]
    BY <1>2, <2>1 DEF SettleAdvances, TypeOK, AdvanceStatus
  <2>3. payroll' = Idle
    BY <1>2 DEF SettleAdvances
  <2> QED
    BY <1>2, <2>2, <2>3 DEF SettleAdvances, TypeOK
<1> QED
  BY <1>1, <1>2

\* A termination's two steps preserve the types.
LEMMA TerminatePreservesTypes ==
    ASSUME TypeOK, NEW w \in Workers, TerminateRead(w) \/ TerminateApply(w)
    PROVE  TypeOK'
<1>1. CASE TerminateRead(w)
  BY <1>1 DEF TerminateRead, Still, Of, TypeOK, Seen, advanceVars
<1>2. CASE TerminateApply(w)
  <2>1. /\ status' \in [AdvanceIds -> AdvanceStatus]
        /\ receivable' \in [AdvanceIds -> Int]
        /\ cash' \in [AdvanceIds -> Int]
    BY <1>2, ResolveTypes DEF TerminateApply
  <2>2. active' \in [Workers -> BOOLEAN] /\ leaving' \in [Workers -> {Idle} \cup Seen]
    BY <1>2 DEF TerminateApply, TypeOK
  <2> QED
    BY <1>2, <2>1, <2>2 DEF TerminateApply, TypeOK
<1> QED
  BY <1>1, <1>2

\* The provider, its callbacks, a deposit and the calendar preserve the types.
LEMMA EnvironmentPreservesTypes ==
    ASSUME TypeOK,
           \/ \E a \in AdvanceIds : BankDecides(a) \/ WebhookConfirms(a) \/ WebhookFails(a)
           \/ \E d \in Deposits : FundingWebhook(d)
           \/ NextMonth
    PROVE  TypeOK'
<1>1. CASE \E a \in AdvanceIds : BankDecides(a)
  BY <1>1 DEF BankDecides, TypeOK, advanceVars
<1>2. CASE \E a \in AdvanceIds : WebhookConfirms(a)
  BY <1>2 DEF WebhookConfirms, TypeOK, AdvanceStatus
<1>3. CASE \E a \in AdvanceIds : WebhookFails(a)
  <2>1. /\ status' \in [AdvanceIds -> AdvanceStatus]
        /\ receivable' \in [AdvanceIds -> Int]
        /\ cash' \in [AdvanceIds -> Int]
    BY <1>3, ResolveTypes DEF WebhookFails
  <2> QED
    BY <1>3, <2>1 DEF WebhookFails, TypeOK
<1>4. CASE \E d \in Deposits : FundingWebhook(d)
  BY <1>4 DEF FundingWebhook, TypeOK, advanceVars
<1>5. CASE NextMonth
  BY <1>5, AdvanceConstants DEF NextMonth, TypeOK, Periods, advanceVars
<1> QED
  BY <1>1, <1>2, <1>3, <1>4, <1>5

\* Every step preserves the types.
LEMMA NextPreservesTypes ==
    ASSUME TypeOK, [Next]_vars
    PROVE  TypeOK'
<1>1. CASE Next
  BY <1>1, RequestPreservesTypes, TaskPreservesTypes, PayrollPreservesTypes,
     TerminatePreservesTypes, EnvironmentPreservesTypes
  DEF Next
<1>2. CASE UNCHANGED vars
  BY <1>2 DEF vars, TypeOK
<1> QED
  BY <1>1, <1>2

\* Initially every variable has its type.
LEMMA InitTypes == Init => TypeOK
  BY AdvanceConstants DEF Init, TypeOK, AdvanceStatus, Periods

\* Every variable of the advances' model keeps its type: no step writes a
\* status, an amount or a task the code does not have.
THEOREM TypeCorrect == Spec => []TypeOK
<1>1. Init => TypeOK
  BY InitTypes
<1>2. TypeOK /\ [Next]_vars => TypeOK'
  BY NextPreservesTypes
<1> QED
  BY <1>1, <1>2, PTL DEF Spec

-----------------------------------------------------------------------------
(* The books.                                                               *)

\* The part of the state BooksInv reads.
booksVars == <<status, amount, recovered, receivable, cash, request, payroll, bank>>

\* Steps that touch none of it.
LEMMA BooksUntouched ==
    ASSUME BooksInv, UNCHANGED booksVars
    PROVE  BooksInv'
  BY DEF BooksInv, booksVars, RecoveryNeedsPayment, BooksMatch, IsOutstanding,
         UndisbursedUntouched, RequestIsNew, PayrollReadsPaid

\* A transfer the provider takes was unknown to it before.
LEMMA BankMoves ==
    ASSUME TypeOK, BooksInv, NEW a \in AdvanceIds, bank[a] # "paid",
           NEW o, bank' = [bank EXCEPT ![a] = o],
           UNCHANGED <<status, amount, recovered, receivable, cash, request, payroll>>
    PROVE  BooksInv'
<1>1. \A b \in AdvanceIds : bank[b] = "paid" => bank'[b] = "paid"
  BY DEF TypeOK
<1>2. RecoveryNeedsPayment'
  BY <1>1 DEF BooksInv, RecoveryNeedsPayment
<1> QED
  BY <1>2 DEF BooksInv, BooksMatch, IsOutstanding, UndisbursedUntouched,
              RequestIsNew, PayrollReadsPaid

\* Reversing approved advances and writing off disbursed ones keeps the books.
LEMMA ResolveKeepsBooks ==
    ASSUME TypeOK, BooksInv, NEW C, NEW W,
           \A a \in C : a \in AdvanceIds => status[a] = "approved",
           \A a \in W : a \in AdvanceIds => status[a] = "disbursed",
           Resolve(C, W),
           UNCHANGED <<amount, recovered, request, payroll, bank>>
    PROVE  BooksInv'
<1> USE DEF BooksInv
<1>1. \A a \in AdvanceIds :
         /\ a \in C => status'[a] = "cancelled" /\ status[a] = "approved"
         /\ a \in W => status'[a] = "written_off" /\ status[a] = "disbursed"
         /\ a \notin C \cup W => status'[a] = status[a]
  BY DEF Resolve
<1>2. RecoveryNeedsPayment'
  BY <1>1 DEF RecoveryNeedsPayment, UndisbursedUntouched
<1>3. UndisbursedUntouched' /\ RequestIsNew'
  BY <1>1 DEF UndisbursedUntouched, RequestIsNew
<1>4. PayrollReadsPaid'
  <2> SUFFICES ASSUME payroll # Idle, NEW a \in payroll.disbursed
               PROVE  status'[a] \in {"disbursed", "written_off"}
    BY DEF PayrollReadsPaid
  <2>1. a \in AdvanceIds
    BY DEF TypeOK, Seen
  <2>2. status[a] \in {"disbursed", "written_off"}
    BY DEF PayrollReadsPaid
  <2> QED
    BY <1>1, <2>1, <2>2
<1>5. BooksMatch'
  <2> SUFFICES ASSUME NEW a \in AdvanceIds
               PROVE  /\ recovered[a] <= amount[a]
                      /\ status'[a] # "written_off" =>
                            receivable'[a] = IF status'[a] \in {"approved", "disbursed"}
                                             THEN amount[a] - recovered[a] ELSE 0
                      /\ status'[a] = "settled" => recovered[a] = amount[a]
                      /\ cash'[a] = IF status'[a] \in {"none", "declined", "cancelled"}
                                    THEN 0 ELSE amount[a]
    BY DEF BooksMatch, IsOutstanding
  <2>1. /\ amount[a] \in Nat /\ recovered[a] \in Nat
        /\ receivable[a] \in Int /\ cash[a] \in Int
    BY DEF TypeOK
  <2>2. CASE a \in C
    <3>1. status[a] = "approved" /\ status'[a] = "cancelled" /\ recovered[a] = 0
      BY <1>1, <2>2 DEF UndisbursedUntouched
    <3>2. receivable[a] = amount[a] /\ cash[a] = amount[a]
      BY <2>1, <3>1 DEF BooksMatch, IsOutstanding
    <3>3. receivable'[a] = receivable[a] - amount[a] /\ cash'[a] = cash[a] - amount[a]
      BY <2>2 DEF Resolve
    <3> QED
      BY <2>1, <3>1, <3>2, <3>3
  <2>3. CASE a \in W
    <3>1. status[a] = "disbursed" /\ status'[a] = "written_off" /\ a \notin C
      BY <1>1, <2>3
    <3>2. cash[a] = amount[a] /\ cash'[a] = cash[a] /\ recovered[a] <= amount[a]
      BY <3>1 DEF BooksMatch, Resolve
    <3> QED
      BY <3>1, <3>2
  <2>4. CASE a \notin C \cup W
    <3>1. /\ status'[a] = status[a] /\ receivable'[a] = receivable[a]
          /\ cash'[a] = cash[a]
      BY <1>1, <2>4 DEF Resolve
    <3> QED
      BY <3>1 DEF BooksMatch, IsOutstanding
  <2> QED
    BY <2>2, <2>3, <2>4
<1> QED
  BY <1>2, <1>3, <1>4, <1>5

\* The advances a compare-and-set still finds are in the status it names.
LEMMA StillIn ==
    ASSUME NEW S, NEW s, NEW a \in Still(S, s)
    PROVE  status[a] = s
  BY DEF Still

\* Each step of a disbursement task keeps the books.
LEMMA TaskKeepsBooks ==
    ASSUME TypeOK, BooksInv, NEW k \in Tasks, DisbursementTask(k)
    PROVE  BooksInv'
<1> DEFINE a == task[k].advance
<1>1. task[k].pc # "idle"
  BY DEF DisbursementTask, LoadAdvance, TransferAccepted, TransferUnavailable,
         TransferRejected, RecordSubmission, CancelRejected, TaskCrash, At
<1>2. a \in AdvanceIds
  BY <1>1, TaskTypes DEF TaskRec
<1>3. CASE LoadAdvance(k) \/ TransferRejected(k) \/ RecordSubmission(k) \/ TaskCrash(k)
  <2>1. UNCHANGED booksVars
    BY <1>3 DEF LoadAdvance, TransferRejected, RecordSubmission, TaskCrash, booksVars,
                advanceVars
  <2> QED
    BY <2>1, BooksUntouched
<1>4. CASE TransferAccepted(k) \/ TransferUnavailable(k)
  <2>1. UNCHANGED <<status, amount, recovered, receivable, cash, request, payroll>>
    BY <1>4 DEF TransferAccepted, TransferUnavailable, advanceVars
  <2>2. bank' = bank \/ (bank[a] = "none" /\ bank' = [bank EXCEPT ![a] = "accepted"])
    BY <1>4 DEF TransferAccepted, TransferUnavailable, Taken
  <2>3. CASE bank' = bank
    BY <2>1, <2>3, BooksUntouched DEF booksVars
  <2>4. CASE bank[a] = "none" /\ bank' = [bank EXCEPT ![a] = "accepted"]
    BY <1>2, <2>1, <2>4, BankMoves
  <2> QED
    BY <2>2, <2>3, <2>4
<1>5. CASE CancelRejected(k)
  <2>1. Resolve(Still({a}, "approved"), {})
    BY <1>5 DEF CancelRejected
  <2>2. UNCHANGED <<amount, recovered, request, payroll, bank>>
    BY <1>5 DEF CancelRejected
  <2> QED
    BY <2>1, <2>2, ResolveKeepsBooks, StillIn
<1> QED
  BY <1>3, <1>4, <1>5 DEF DisbursementTask

\* A request, its decision and its replay keep the books.
LEMMA RequestKeepsBooks ==
    ASSUME TypeOK, BooksInv, NEW a \in AdvanceIds,
           \/ \E x \in Amounts : RequestRead(a, x)
           \/ RequestDecide(a)
           \/ RequestReplay(a)
    PROVE  BooksInv'
<1>1. CASE \E x \in Amounts : RequestRead(a, x)
  <2>1. UNCHANGED <<status, amount, recovered, receivable, cash, payroll, bank>>
    BY <1>1 DEF RequestRead, advanceVars
  <2>2. /\ status[a] = "none"
        /\ \A b \in AdvanceIds : b # a => request'[b] = request[b]
    BY <1>1 DEF RequestRead, TypeOK
  <2>3. RequestIsNew'
    BY <2>1, <2>2 DEF BooksInv, RequestIsNew
  <2> QED
    BY <2>1, <2>3 DEF BooksInv, RecoveryNeedsPayment, BooksMatch, IsOutstanding,
                      UndisbursedUntouched, PayrollReadsPaid
<1>2. CASE RequestDecide(a)
  <2> DEFINE x == request[a].amount
  <2>1. x \in Nat
    BY <1>2, AdvanceConstants DEF RequestDecide, TypeOK
  <2>2. /\ status[a] = "none" /\ recovered[a] = 0
        /\ receivable[a] = 0 /\ cash[a] = 0
    BY <1>2 DEF RequestDecide, BooksInv, RequestIsNew, UndisbursedUntouched,
                BooksMatch, IsOutstanding
  <2>3. /\ amount' = [amount EXCEPT ![a] = x]
        /\ UNCHANGED <<recovered, payroll, bank>>
        /\ request' = [request EXCEPT ![a] = Idle]
    BY <1>2 DEF RequestDecide
  <2>4. \/ /\ status' = [status EXCEPT ![a] = "approved"]
           /\ receivable' = [receivable EXCEPT ![a] = @ + x]
           /\ cash' = [cash EXCEPT ![a] = @ + x]
        \/ /\ status' = [status EXCEPT ![a] = "declined"]
           /\ UNCHANGED <<receivable, cash>>
    BY <1>2 DEF RequestDecide
  <2>5. \A b \in AdvanceIds : b # a =>
           /\ status'[b] = status[b] /\ amount'[b] = amount[b]
           /\ receivable'[b] = receivable[b] /\ cash'[b] = cash[b]
           /\ request'[b] = request[b]
    BY <2>3, <2>4 DEF TypeOK
  <2>6. /\ amount'[a] = x /\ request'[a] = Idle
        /\ \/ status'[a] = "approved" /\ receivable'[a] = x /\ cash'[a] = x
           \/ status'[a] = "declined" /\ receivable'[a] = 0 /\ cash'[a] = 0
    BY <2>1, <2>2, <2>3, <2>4 DEF TypeOK
  <2>7. RecoveryNeedsPayment' /\ UndisbursedUntouched' /\ RequestIsNew'
    BY <2>2, <2>3, <2>5, <2>6
    DEF BooksInv, RecoveryNeedsPayment, UndisbursedUntouched, RequestIsNew
  <2>8. PayrollReadsPaid'
    BY <2>2, <2>3, <2>5 DEF BooksInv, PayrollReadsPaid, TypeOK, Seen
  <2>9. BooksMatch'
    BY <2>1, <2>2, <2>3, <2>5, <2>6 DEF BooksInv, BooksMatch, IsOutstanding
  <2> QED
    BY <2>7, <2>8, <2>9 DEF BooksInv
<1>3. CASE RequestReplay(a)
  BY <1>3, BooksUntouched DEF RequestReplay, booksVars, advanceVars
<1> QED
  BY <1>1, <1>2, <1>3

\* What a run has read as disbursed is not what it read as approved.
LEMMA PayrollKeepsBooks ==
    ASSUME TypeOK, BooksInv, (\E p \in Periods : PayrollRead(p)) \/ SettleAdvances
    PROVE  BooksInv'
<1>1. CASE \E p \in Periods : PayrollRead(p)
  <2>1. UNCHANGED <<status, amount, recovered, receivable, cash, request, bank>>
    BY <1>1 DEF PayrollRead, advanceVars
  <2>2. \A a \in payroll'.disbursed : status[a] = "disbursed"
    BY <1>1 DEF PayrollRead, Still
  <2>3. PayrollReadsPaid'
    BY <2>1, <2>2 DEF PayrollReadsPaid
  <2> QED
    BY <2>1, <2>3 DEF BooksInv, RecoveryNeedsPayment, BooksMatch, IsOutstanding,
                      UndisbursedUntouched, RequestIsNew
<1>2. CASE SettleAdvances
  <2> DEFINE C == Still(payroll.approved, "approved")
  <2>1. /\ payroll # Idle /\ payroll' = Idle
        /\ UNCHANGED <<amount, request, bank>>
    BY <1>2 DEF SettleAdvances
  <2>2. ASSUME NEW a \in AdvanceIds
        PROVE  LET got == Portion(a) IN
               /\ got \in Nat
               /\ recovered'[a] = recovered[a] + got
               /\ status'[a] = IF a \in C THEN "cancelled"
                               ELSE IF /\ got > 0 /\ recovered[a] + got >= amount[a]
                                       /\ status[a] = "disbursed"
                                    THEN "settled" ELSE status[a]
               /\ receivable'[a] = IF a \in C THEN receivable[a] - amount[a]
                                              ELSE receivable[a] - got
               /\ cash'[a] = IF a \in C THEN cash[a] - amount[a] ELSE cash[a]
    BY <1>2 DEF SettleAdvances
  <2>3. ASSUME NEW a \in AdvanceIds
        PROVE  /\ a \in C => status[a] = "approved"
               /\ Portion(a) > 0 => status[a] \in {"disbursed", "written_off"}
               /\ recovered[a] + Portion(a) <= amount[a]
    <3>1. a \in C => status[a] = "approved"
      BY StillIn
    <3>2. Portion(a) > 0 => a \in payroll.disbursed
      BY <2>2, PortionBounded
    <3>3. Portion(a) <= amount[a] - recovered[a]
      <4>1. recovered[a] <= amount[a]
        BY DEF BooksInv, BooksMatch
      <4>2. RemainingKobo(a) = amount[a] - recovered[a]
        BY <4>1 DEF RemainingKobo, TypeOK
      <4> QED
        BY <2>2, <4>2, PortionBounded
    <3>4. recovered[a] + Portion(a) <= amount[a]
      BY <2>2, <3>3 DEF TypeOK
    <3> QED
      BY <2>1, <3>1, <3>2, <3>4 DEF BooksInv, PayrollReadsPaid
  <2>4. RecoveryNeedsPayment'
    <3> SUFFICES ASSUME NEW a \in AdvanceIds,
                        \/ status'[a] \in {"disbursed", "settled", "written_off"}
                        \/ recovered'[a] > 0
                 PROVE  bank[a] = "paid"
      BY <2>1 DEF RecoveryNeedsPayment
    <3>1. status[a] \in {"disbursed", "settled", "written_off"} \/ recovered[a] > 0
      BY <2>2, <2>3 DEF TypeOK
    <3> QED
      BY <3>1 DEF BooksInv, RecoveryNeedsPayment
  <2>5. UndisbursedUntouched'
    BY <2>2, <2>3 DEF BooksInv, UndisbursedUntouched, TypeOK
  <2>6. RequestIsNew'
    BY <2>1, <2>2, <2>3 DEF BooksInv, RequestIsNew
  <2>7. PayrollReadsPaid'
    BY <2>1 DEF PayrollReadsPaid
  <2>8. BooksMatch'
    <3> SUFFICES ASSUME NEW a \in AdvanceIds
                 PROVE  /\ recovered'[a] <= amount[a]
                        /\ status'[a] # "written_off" =>
                              receivable'[a] = IF status'[a] \in {"approved", "disbursed"}
                                               THEN amount[a] - recovered'[a] ELSE 0
                        /\ status'[a] = "settled" => recovered'[a] = amount[a]
                        /\ cash'[a] = IF status'[a] \in {"none", "declined", "cancelled"}
                                      THEN 0 ELSE amount[a]
      BY <2>1 DEF BooksMatch, IsOutstanding
    <3>1. /\ amount[a] \in Nat /\ recovered[a] \in Nat
          /\ receivable[a] \in Int /\ cash[a] \in Int
      BY DEF TypeOK
    <3>2. /\ status[a] # "written_off" =>
                receivable[a] = IF status[a] \in {"approved", "disbursed"}
                                THEN amount[a] - recovered[a] ELSE 0
          /\ status[a] = "settled" => recovered[a] = amount[a]
          /\ cash[a] = IF status[a] \in {"none", "declined", "cancelled"}
                       THEN 0 ELSE amount[a]
          /\ status[a] = "approved" => recovered[a] = 0
      BY DEF BooksInv, BooksMatch, IsOutstanding, UndisbursedUntouched
    <3>3. CASE a \in C
      <4>1. status[a] = "approved" /\ Portion(a) = 0
        BY <2>2, <2>3, <3>3
      <4>2. /\ recovered'[a] = recovered[a] /\ status'[a] = "cancelled"
            /\ receivable'[a] = receivable[a] - amount[a]
            /\ cash'[a] = cash[a] - amount[a]
        BY <2>2, <3>1, <3>3, <4>1
      <4> QED
        BY <3>1, <3>2, <4>1, <4>2
    <3>4. CASE a \notin C /\ Portion(a) = 0
      <4>1. /\ recovered'[a] = recovered[a] /\ status'[a] = status[a]
            /\ receivable'[a] = receivable[a] /\ cash'[a] = cash[a]
        BY <2>2, <3>1, <3>4
      <4> QED
        BY <2>3, <3>1, <3>2, <3>4, <4>1
    <3>5. CASE a \notin C /\ Portion(a) > 0
      <4>1. status[a] \in {"disbursed", "written_off"} /\ cash'[a] = cash[a]
        BY <2>2, <2>3, <3>5
      <4>2. recovered'[a] = recovered[a] + Portion(a) /\ recovered'[a] <= amount[a]
        BY <2>2, <2>3
      <4>3. CASE status'[a] = "settled"
        <5>1. status[a] = "disbursed" /\ recovered'[a] = amount[a]
          BY <2>2, <3>1, <3>5, <4>1, <4>2, <4>3
        <5> QED
          BY <2>2, <3>1, <3>2, <3>5, <4>1, <4>2, <4>3, <5>1
      <4>4. CASE status'[a] = status[a]
        BY <2>2, <3>1, <3>2, <3>5, <4>1, <4>2, <4>4
      <4> QED
        BY <2>2, <3>5, <4>3, <4>4
    <3> QED
      BY <2>2, <3>3, <3>4, <3>5
  <2> QED
    BY <2>4, <2>5, <2>6, <2>7, <2>8 DEF BooksInv
<1> QED
  BY <1>1, <1>2

\* Termination, the provider, its callbacks, deposits and the calendar keep
\* the books.
LEMMA OthersKeepBooks ==
    ASSUME TypeOK, BooksInv,
           \/ \E w \in Workers : TerminateRead(w) \/ TerminateApply(w)
           \/ \E a \in AdvanceIds : BankDecides(a) \/ WebhookConfirms(a) \/ WebhookFails(a)
           \/ \E d \in Deposits : FundingWebhook(d)
           \/ NextMonth
    PROVE  BooksInv'
<1>1. CASE \/ \E w \in Workers : TerminateRead(w)
           \/ \E d \in Deposits : FundingWebhook(d)
           \/ NextMonth
  <2>1. UNCHANGED booksVars
    BY <1>1 DEF TerminateRead, FundingWebhook, NextMonth, booksVars, advanceVars
  <2> QED
    BY <2>1, BooksUntouched
<1>2. ASSUME NEW w \in Workers, TerminateApply(w)
      PROVE  BooksInv'
  <2>1. /\ Resolve(Still(leaving[w].approved, "approved"),
                   Still(leaving[w].disbursed, "disbursed"))
        /\ UNCHANGED <<amount, recovered, request, payroll, bank>>
    BY <1>2 DEF TerminateApply
  <2> QED
    BY <2>1, ResolveKeepsBooks, StillIn
<1>3. ASSUME NEW a \in AdvanceIds, BankDecides(a)
      PROVE  BooksInv'
  BY <1>3, BankMoves DEF BankDecides, advanceVars
<1>4. ASSUME NEW a \in AdvanceIds, WebhookConfirms(a)
      PROVE  BooksInv'
  <2>1. /\ status[a] = "approved" /\ bank[a] = "paid"
        /\ status' = [status EXCEPT ![a] = "disbursed"]
        /\ UNCHANGED <<amount, recovered, receivable, cash, request, payroll, bank>>
    BY <1>4 DEF WebhookConfirms, Confirmable
  <2>2. /\ status'[a] = "disbursed"
        /\ \A b \in AdvanceIds : b # a => status'[b] = status[b]
    BY <2>1 DEF TypeOK
  <2>3. RecoveryNeedsPayment' /\ UndisbursedUntouched' /\ RequestIsNew'
    BY <2>1, <2>2 DEF BooksInv, RecoveryNeedsPayment, UndisbursedUntouched, RequestIsNew
  <2>4. PayrollReadsPaid'
    BY <2>1, <2>2 DEF BooksInv, PayrollReadsPaid, TypeOK, Seen
  <2>5. BooksMatch'
    BY <2>1, <2>2 DEF BooksInv, BooksMatch, IsOutstanding
  <2> QED
    BY <2>3, <2>4, <2>5 DEF BooksInv
<1>5. ASSUME NEW a \in AdvanceIds, WebhookFails(a)
      PROVE  BooksInv'
  <2>1. /\ status[a] = "approved" /\ Resolve({a}, {})
        /\ UNCHANGED <<amount, recovered, request, payroll, bank>>
    BY <1>5 DEF WebhookFails
  <2> QED
    BY <2>1, ResolveKeepsBooks
<1> QED
  BY <1>1, <1>2, <1>3, <1>4, <1>5

\* Every step preserves the invariant.
LEMMA NextKeepsBooks ==
    ASSUME TypeOK, BooksInv, [Next]_vars
    PROVE  BooksInv'
<1>1. CASE Next
  BY <1>1, RequestKeepsBooks, TaskKeepsBooks, PayrollKeepsBooks, OthersKeepBooks
  DEF Next
<1>2. CASE UNCHANGED vars
  BY <1>2, BooksUntouched DEF vars, booksVars
<1> QED
  BY <1>1, <1>2

\* Initially there is nothing on the books.
LEMMA InitBooks == Init => BooksInv
  BY DEF Init, BooksInv, RecoveryNeedsPayment, BooksMatch, IsOutstanding,
         UndisbursedUntouched, RequestIsNew, PayrollReadsPaid

\* The inductive invariant holds, whatever requests, tasks, callbacks, payroll
\* runs and terminations race each other.
THEOREM BooksInvariant == Spec => []BooksInv
<1>1. Init => BooksInv
  BY InitBooks
<1>2. TypeOK /\ BooksInv /\ [Next]_vars => BooksInv'
  BY NextKeepsBooks
<1> QED
  BY <1>1, <1>2, TypeCorrect, PTL DEF Spec

\* Pay is withheld, and a loss booked, only for advances the provider paid in
\* full (SettleAdvancesForPayrollItem never deducts money not received).
THEOREM OnlyPaidIsRecovered == Spec => []RecoveryNeedsPayment
<1>1. BooksInv => RecoveryNeedsPayment
  BY DEF BooksInv
<1> QED
  BY <1>1, BooksInvariant, PTL

\* The ledger agrees with the advances at every moment (postAdvanceLedger,
\* CancelAdvance, SettleAdvancesForPayrollItem).
THEOREM BooksAlwaysMatch == Spec => []BooksMatch
<1>1. BooksInv => BooksMatch
  BY DEF BooksInv
<1> QED
  BY <1>1, BooksInvariant, PTL

-----------------------------------------------------------------------------
(* The status machine.                                                      *)

\* A reversal moves approved advances to cancelled, disbursed ones to
\* written_off, along the edges of the status machine.
LEMMA ResolveMovesForward ==
    ASSUME TypeOK, NEW C, NEW W, Resolve(C, W),
           \A a \in C : status[a] = "approved",
           \A a \in W : status[a] = "disbursed"
    PROVE  \A a \in AdvanceIds : \/ status'[a] = status[a]
                               \/ CanTransitionAdvance(status[a], status'[a])
  BY DEF Resolve, CanTransitionAdvance, validAdvanceTransitions

\* Every step moves every advance along an edge of the status machine or not
\* at all.
LEMMA StepMovesForward ==
    ASSUME TypeOK, BooksInv, Next
    PROVE  \A a \in AdvanceIds : \/ status'[a] = status[a]
                               \/ CanTransitionAdvance(status[a], status'[a])
<1>1. ASSUME NEW k \in Tasks, CancelRejected(k)
      PROVE  \A a \in AdvanceIds : \/ status'[a] = status[a]
                                 \/ CanTransitionAdvance(status[a], status'[a])
  BY <1>1, ResolveMovesForward, StillIn DEF CancelRejected
<1>2. ASSUME NEW b \in AdvanceIds, WebhookFails(b)
      PROVE  \A a \in AdvanceIds : \/ status'[a] = status[a]
                                 \/ CanTransitionAdvance(status[a], status'[a])
  BY <1>2, ResolveMovesForward DEF WebhookFails
<1>3. ASSUME NEW w \in Workers, TerminateApply(w)
      PROVE  \A a \in AdvanceIds : \/ status'[a] = status[a]
                                 \/ CanTransitionAdvance(status[a], status'[a])
  BY <1>3, ResolveMovesForward, StillIn DEF TerminateApply
<1>4. ASSUME NEW b \in AdvanceIds, WebhookConfirms(b)
      PROVE  \A a \in AdvanceIds : \/ status'[a] = status[a]
                                 \/ CanTransitionAdvance(status[a], status'[a])
  BY <1>4 DEF WebhookConfirms, Confirmable, TypeOK, CanTransitionAdvance,
              validAdvanceTransitions
<1>5. ASSUME NEW b \in AdvanceIds, RequestDecide(b)
      PROVE  \A a \in AdvanceIds : \/ status'[a] = status[a]
                                 \/ CanTransitionAdvance(status[a], status'[a])
  <2>1. status[b] = "none"
    BY <1>5 DEF RequestDecide, BooksInv, RequestIsNew
  <2>2. status' = [status EXCEPT ![b] = "approved"] \/ status' = [status EXCEPT ![b] = "declined"]
    BY <1>5 DEF RequestDecide
  <2> QED
    BY <2>1, <2>2 DEF TypeOK, CanTransitionAdvance, validAdvanceTransitions
<1>6. CASE SettleAdvances
  <2>1. \A a \in AdvanceIds :
           \/ a \in Still(payroll.approved, "approved") /\ status'[a] = "cancelled"
           \/ status[a] = "disbursed" /\ status'[a] = "settled"
           \/ status'[a] = status[a]
    BY <1>6 DEF SettleAdvances
  <2> QED
    BY <2>1, StillIn DEF CanTransitionAdvance, validAdvanceTransitions
<1>7. CASE status' = status
  BY <1>7
<1>8. \/ \E k \in Tasks : CancelRejected(k)
      \/ \E b \in AdvanceIds : WebhookFails(b) \/ WebhookConfirms(b) \/ RequestDecide(b)
      \/ \E w \in Workers : TerminateApply(w)
      \/ SettleAdvances
      \/ status' = status
  BY DEF Next, DisbursementTask, LoadAdvance, TransferAccepted, TransferUnavailable,
         TransferRejected, RecordSubmission, TaskCrash, RequestRead, RequestReplay,
         BankDecides, FundingWebhook, PayrollRead, TerminateRead, NextMonth, advanceVars
<1> QED
  BY <1>1, <1>2, <1>3, <1>4, <1>5, <1>6, <1>7, <1>8

\* A resolved advance is never reopened, although tasks, callbacks, payroll
\* runs and terminations act on statuses they read earlier (TransitionAdvance).
THEOREM ForwardOnly == Spec => AdvanceMovesForward
<1>1. TypeOK /\ BooksInv /\ [Next]_vars
         => [\A a \in AdvanceIds : status'[a] = status[a]
                                    \/ CanTransitionAdvance(status[a], status'[a])]_vars
  BY StepMovesForward
<1> QED
  BY <1>1, TypeCorrect, BooksInvariant, PTL DEF Spec, AdvanceMovesForward

-----------------------------------------------------------------------------
(* The cap on what a worker has outstanding, and the pool.                  *)

\* What each advance counts for against the cap.
Owed == [a \in AdvanceIds |-> IF IsOutstanding(a) THEN RemainingKobo(a) ELSE 0]

LEMMA AdvancesFinite == IsFiniteSet(AdvanceIds) /\ \A w : IsFiniteSet(Of(w))
<1>1. IsFiniteSet(AdvanceIds)
  BY AdvanceConstants, FS_Interval DEF AdvanceIds
<1>2. \A w : Of(w) \in SUBSET AdvanceIds
  BY DEF Of
<1> QED
  BY <1>1, <1>2, FS_Subset

LEMMA OwedTypes == TypeOK => /\ Owed \in [AdvanceIds -> Nat]
                             /\ \A a \in AdvanceIds : RemainingKobo(a) \in Nat
  BY DEF TypeOK, Owed, RemainingKobo

LEMMA OwedTypesNext == TypeOK' => Owed' \in [AdvanceIds -> Nat]
  BY DEF TypeOK, Owed, RemainingKobo

\* outstandingTx adds up the open advances; the others count for nothing.
LEMMA OutstandingIs == TypeOK => \A w : OutstandingOf(w) = SumOf(Owed, Of(w))
<1> SUFFICES ASSUME TypeOK, NEW w
             PROVE  OutstandingOf(w) = SumOf(Owed, Of(w))
  OBVIOUS
<1> DEFINE U == {a \in Of(w) : IsOutstanding(a)}
           rem == [a \in U |-> RemainingKobo(a)]
<1>1. OutstandingOf(w) = SumOf(rem, U)
  BY DEF OutstandingOf, SumOf, MapThenSumSet, MapThenFoldSet
<1>2. IsFiniteSet(Of(w)) /\ U \in SUBSET Of(w) /\ IsFiniteSet(U)
  BY AdvancesFinite, FS_Subset
<1>3. Whole(Owed, Of(w)) /\ \A x \in Of(w) \ U : Owed[x] = 0
  BY OwedTypes DEF Whole, Of, Owed
<1>4. \A x \in U : rem[x] = Owed[x]
  BY DEF Owed, Of
<1> HIDE DEF U, rem
<1>5. SumOf(Owed, Of(w)) = SumOf(Owed, U)
  BY <1>2, <1>3, SumSupport
<1>6. SumOf(rem, U) = SumOf(Owed, U)
  BY <1>2, <1>4, SumSame
<1> QED
  BY <1>1, <1>5, <1>6

LEMMA OutstandingNext == TypeOK' => \A w : OutstandingOf(w)' = SumOf(Owed', Of(w))
<1>1. (TypeOK => \A w : OutstandingOf(w) = SumOf(Owed, Of(w)))'
  BY OutstandingIs, PTL
<1> QED
  BY <1>1

LEMMA ExposureIs ==
    FundingExposure = SumOf(cash, AdvanceIds) - DepositAmount * Cardinality(funded)
  BY DEF FundingExposure, SumOf

LEMMA ExposureNext ==
    FundingExposure' = SumOf(cash', AdvanceIds) - DepositAmount * Cardinality(funded')
<1>1. (FundingExposure = SumOf(cash, AdvanceIds) - DepositAmount * Cardinality(funded))'
  BY ExposureIs, PTL
<1> QED
  BY <1>1

\* One request at a time is between its reads and its writes.
OneRequest == \A a, b \in AdvanceIds : request[a] # Idle /\ request[b] # Idle => a = b

\* What a request was found eligible for still fits the cap and the pool: nothing else
\* raises what is owed while the lock is held, and what runs without it only lowers it.
EligibleStays ==
    \A a \in AdvanceIds : request[a] # Idle /\ request[a].ok =>
        /\ request[a].amount + OutstandingOf(Owner[a]) <= Cap
        /\ Coverage => request[a].amount + FundingExposure <= 0

LimitsInv == OneRequest /\ EligibleStays /\ OutstandingWithinCap /\ PoolCovered

\* The sums are numbers.
LEMMA LimitsTypes ==
    ASSUME TypeOK
    PROVE  /\ \A w : SumOf(Owed, Of(w)) \in Int
           /\ \A w : OutstandingOf(w) \in Int
           /\ SumOf(cash, AdvanceIds) \in Int
           /\ Cardinality(funded) \in Nat /\ IsFiniteSet(funded)
           /\ DepositAmount * Cardinality(funded) \in Int
           /\ FundingExposure \in Int
<1>1. \A w : Whole(Owed, Of(w))
  BY OwedTypes DEF Whole, Of
<1>2. \A w : SumOf(Owed, Of(w)) \in Int
  BY <1>1, AdvancesFinite, SumType
<1>3. Whole(cash, AdvanceIds)
  BY DEF TypeOK, Whole
<1>4. SumOf(cash, AdvanceIds) \in Int
  BY <1>3, AdvancesFinite, SumType
<1>5. Cardinality(funded) \in Nat /\ IsFiniteSet(funded)
  BY AdvanceConstants, FS_Subset, FS_CardinalityType DEF TypeOK
<1>6. DepositAmount * Cardinality(funded) \in Int
  BY <1>5, AdvanceConstants
<1>7. \A w : OutstandingOf(w) \in Int
  BY <1>2, OutstandingIs
<1>8. FundingExposure \in Int
  BY <1>4, <1>6, ExposureIs
<1> QED
  BY <1>2, <1>4, <1>5, <1>6, <1>7, <1>8

LEMMA LimitsTypesNext ==
    TypeOK' => (\A w : OutstandingOf(w)' \in Int) /\ FundingExposure' \in Int
<1>1. TypeOK => (\A w : OutstandingOf(w) \in Int) /\ FundingExposure \in Int
  BY LimitsTypes
<1>2. (TypeOK => (\A w : OutstandingOf(w) \in Int) /\ FundingExposure \in Int)'
  BY <1>1, PTL
<1> QED
  BY <1>2

\* A step that raises no advance's debt and no cash entry raises neither sum.
LEMMA LowerSums ==
    ASSUME TypeOK, TypeOK', funded \subseteq funded',
           \A a \in AdvanceIds : Owed'[a] <= Owed[a] /\ cash'[a] <= cash[a]
    PROVE  /\ \A w : OutstandingOf(w)' <= OutstandingOf(w)
           /\ FundingExposure' <= FundingExposure
<1>1. \A a \in AdvanceIds : /\ Owed[a] \in Int /\ Owed'[a] \in Int
                            /\ cash[a] \in Int /\ cash'[a] \in Int
  <2>1. Owed \in [AdvanceIds -> Nat] /\ Owed' \in [AdvanceIds -> Nat]
    BY OwedTypes, OwedTypesNext
  <2> QED
    BY <2>1 DEF TypeOK
<1>2. ASSUME NEW w
      PROVE  SumOf(Owed', Of(w)) <= SumOf(Owed, Of(w))
  <2>1. Whole(Owed, Of(w)) /\ Whole(Owed', Of(w)) /\ \A a \in Of(w) : Owed'[a] <= Owed[a]
    BY <1>1 DEF Whole, Of
  <2> QED
    BY <2>1, AdvancesFinite, SumLeq
<1>3. SumOf(cash', AdvanceIds) <= SumOf(cash, AdvanceIds)
  <2>1. Whole(cash, AdvanceIds) /\ Whole(cash', AdvanceIds)
    BY <1>1 DEF Whole
  <2> QED
    BY <2>1, AdvancesFinite, SumLeq
<1>4. /\ SumOf(cash, AdvanceIds) \in Int
      /\ SumOf(cash', AdvanceIds) \in Int
  <2>1. Whole(cash, AdvanceIds) /\ Whole(cash', AdvanceIds)
    BY <1>1 DEF Whole
  <2> QED
    BY <2>1, AdvancesFinite, SumType
<1>5. DepositAmount * Cardinality(funded) <= DepositAmount * Cardinality(funded')
  <2>1. funded' \subseteq Deposits /\ IsFiniteSet(funded')
    BY AdvanceConstants, FS_Subset DEF TypeOK
  <2>2. /\ Cardinality(funded) \in Nat /\ Cardinality(funded') \in Nat
        /\ Cardinality(funded) <= Cardinality(funded')
    BY <2>1, FS_Subset, FS_CardinalityType
  <2>3. \A d, m, n \in Nat : m <= n => d * m <= d * n
    OBVIOUS
  <2> QED
    BY <2>2, <2>3, AdvanceConstants
<1>6. /\ DepositAmount * Cardinality(funded) \in Int
      /\ DepositAmount * Cardinality(funded') \in Int
  <2>1. Cardinality(funded) \in Nat /\ Cardinality(funded') \in Nat
    BY AdvanceConstants, FS_Subset, FS_CardinalityType DEF TypeOK
  <2> QED
    BY <2>1, AdvanceConstants
<1>7. FundingExposure' <= FundingExposure
  BY <1>3, <1>4, <1>5, <1>6, ExposureIs, ExposureNext
<1> QED
  BY <1>2, <1>7, OutstandingIs, OutstandingNext

\* Owed, spelled out on both sides of a step.
LEMMA OwedValues ==
    ASSUME TypeOK, TypeOK', NEW a \in AdvanceIds
    PROVE  /\ Owed[a] = IF status[a] \in {"approved", "disbursed"}
                        THEN IF recovered[a] > amount[a] THEN 0 ELSE amount[a] - recovered[a]
                        ELSE 0
           /\ Owed'[a] = IF status'[a] \in {"approved", "disbursed"}
                         THEN IF recovered'[a] > amount'[a] THEN 0
                                                            ELSE amount'[a] - recovered'[a]
                         ELSE 0
  BY DEF Owed, IsOutstanding, RemainingKobo

\* While nobody requests, an advance's debt and its cash entry only fall: it is
\* cancelled, recovered or written off, or money that was counted when it was approved
\* reaches the worker.
LEMMA DebtFalls ==
    ASSUME TypeOK, TypeOK', amount' = amount, NEW a \in AdvanceIds,
           recovered[a] <= recovered'[a], cash'[a] <= cash[a],
           \/ status'[a] = status[a]
           \/ status'[a] \notin {"approved", "disbursed"}
           \/ status[a] = "approved" /\ status'[a] = "disbursed"
    PROVE  Owed'[a] <= Owed[a] /\ cash'[a] <= cash[a]
<1>1. /\ amount[a] \in Nat /\ recovered[a] \in Nat /\ recovered'[a] \in Nat
      /\ amount'[a] = amount[a]
  BY DEF TypeOK
<1> QED
  BY <1>1, OwedValues

\* Every step but the decision of a request is of that kind.
LEMMA OthersLower ==
    ASSUME TypeOK, TypeOK', BooksInv, Next, ~ \E a \in AdvanceIds : RequestDecide(a)
    PROVE  /\ funded \subseteq funded'
           /\ \A a \in AdvanceIds : Owed'[a] <= Owed[a] /\ cash'[a] <= cash[a]
<1>1. funded \subseteq funded'
  BY DEF Next, DisbursementTask, LoadAdvance, TransferAccepted, TransferUnavailable,
         TransferRejected, RecordSubmission, CancelRejected, TaskCrash, RequestRead,
         RequestReplay, BankDecides, WebhookConfirms, WebhookFails, FundingWebhook,
         PayrollRead, SettleAdvances, TerminateRead, TerminateApply, NextMonth
<1>2. amount' = amount
  BY DEF Next, DisbursementTask, LoadAdvance, TransferAccepted, TransferUnavailable,
         TransferRejected, RecordSubmission, CancelRejected, TaskCrash, RequestRead,
         RequestReplay, BankDecides, WebhookConfirms, WebhookFails, FundingWebhook,
         PayrollRead, SettleAdvances, TerminateRead, TerminateApply, NextMonth, advanceVars
<1>3. ASSUME NEW C, NEW W, Resolve(C, W), recovered' = recovered
      PROVE  \A a \in AdvanceIds : Owed'[a] <= Owed[a] /\ cash'[a] <= cash[a]
  <2> SUFFICES ASSUME NEW a \in AdvanceIds
               PROVE  Owed'[a] <= Owed[a] /\ cash'[a] <= cash[a]
    OBVIOUS
  <2>1. cash'[a] <= cash[a] /\ recovered[a] <= recovered'[a]
    BY <1>3 DEF Resolve, TypeOK
  <2>2. status'[a] = status[a] \/ status'[a] \notin {"approved", "disbursed"}
    BY <1>3 DEF Resolve
  <2> QED
    BY <1>2, <2>1, <2>2, DebtFalls
<1>4. ASSUME NEW b \in AdvanceIds, WebhookConfirms(b)
      PROVE  \A a \in AdvanceIds : Owed'[a] <= Owed[a] /\ cash'[a] <= cash[a]
  <2> SUFFICES ASSUME NEW a \in AdvanceIds
               PROVE  Owed'[a] <= Owed[a] /\ cash'[a] <= cash[a]
    OBVIOUS
  <2>1. status'[a] = status[a] \/ (status[a] = "approved" /\ status'[a] = "disbursed")
    BY <1>4 DEF WebhookConfirms, Confirmable, TypeOK
  <2>2. cash'[a] <= cash[a] /\ recovered[a] <= recovered'[a]
    BY <1>4 DEF WebhookConfirms, TypeOK
  <2> QED
    BY <1>2, <2>1, <2>2, DebtFalls
<1>5. ASSUME SettleAdvances
      PROVE  \A a \in AdvanceIds : Owed'[a] <= Owed[a] /\ cash'[a] <= cash[a]
  <2> SUFFICES ASSUME NEW a \in AdvanceIds
               PROVE  Owed'[a] <= Owed[a] /\ cash'[a] <= cash[a]
    OBVIOUS
  <2>1. Portion(a) \in Nat /\ recovered'[a] = recovered[a] + Portion(a)
    BY <1>5 DEF SettleAdvances
  <2>2. status'[a] = status[a] \/ status'[a] \in {"cancelled", "settled"}
    BY <1>5 DEF SettleAdvances
  <2>3. cash'[a] <= cash[a]
    BY <1>5 DEF SettleAdvances, TypeOK
  <2>4. recovered[a] <= recovered'[a]
    BY <2>1 DEF TypeOK
  <2> QED
    BY <1>2, <2>2, <2>3, <2>4, DebtFalls
<1>6. ASSUME UNCHANGED <<status, recovered, cash>>
      PROVE  \A a \in AdvanceIds : Owed'[a] <= Owed[a] /\ cash'[a] <= cash[a]
  BY <1>2, <1>6, DebtFalls DEF TypeOK
<1>7. \/ \E C, W : Resolve(C, W) /\ recovered' = recovered
      \/ \E b \in AdvanceIds : WebhookConfirms(b)
      \/ SettleAdvances
      \/ UNCHANGED <<status, recovered, cash>>
  BY DEF Next, DisbursementTask, LoadAdvance, TransferAccepted, TransferUnavailable,
         TransferRejected, RecordSubmission, CancelRejected, TaskCrash, RequestRead,
         RequestReplay, BankDecides, WebhookFails, FundingWebhook,
         PayrollRead, TerminateRead, TerminateApply, NextMonth, advanceVars
<1> QED
  BY <1>1, <1>3, <1>4, <1>5, <1>6, <1>7

LEMMA RequestAmount ==
    TypeOK => \A a \in AdvanceIds : request[a] # Idle => request[a].amount \in Int
<1> SUFFICES ASSUME TypeOK, NEW a \in AdvanceIds, request[a] # Idle
             PROVE  request[a].amount \in Int
  OBVIOUS
<1>1. request[a] \in [pc : {"busy"}, amount : Amounts, ok : BOOLEAN]
  BY DEF TypeOK
<1>2. request[a].amount \in Amounts
  BY <1>1
<1>3. \A x \in Amounts : x \in Int
  BY AdvanceConstants
<1> QED
  BY <1>2, <1>3

LEMMA LowerFits == \A x, y, z, c \in Int : z <= y /\ x + y <= c => x + z <= c
  OBVIOUS

\* Every step but the decision of a request keeps both limits, and what was found
\* eligible stays so.
LEMMA OthersKeepLimits ==
    ASSUME TypeOK, TypeOK', BooksInv, LimitsInv, Next,
           ~ \E a \in AdvanceIds : RequestDecide(a)
    PROVE  LimitsInv'
<1>1. /\ \A w : OutstandingOf(w)' <= OutstandingOf(w)
      /\ FundingExposure' <= FundingExposure
  BY OthersLower, LowerSums
<1>2. /\ \A w : OutstandingOf(w) \in Int /\ OutstandingOf(w)' \in Int
      /\ FundingExposure \in Int /\ FundingExposure' \in Int
  <2>1. TypeOK => (\A w : OutstandingOf(w) \in Int) /\ FundingExposure \in Int
    BY LimitsTypes
  <2>2. (\A w : OutstandingOf(w)' \in Int) /\ FundingExposure' \in Int
    BY LimitsTypesNext
  <2> QED
    BY <2>1, <2>2
<1>3. OutstandingWithinCap'
  <2> SUFFICES ASSUME NEW w \in Workers
               PROVE  OutstandingOf(w)' <= Cap
    BY DEF OutstandingWithinCap
  <2>1. OutstandingOf(w) <= Cap /\ Cap \in Int
    BY AdvanceConstants DEF LimitsInv, OutstandingWithinCap
  <2> QED
    BY <1>1, <1>2, <2>1
<1>4. PoolCovered'
  BY <1>1, <1>2 DEF LimitsInv, PoolCovered
<1>5. ASSUME NEW a \in AdvanceIds, NEW x \in Amounts, RequestRead(a, x)
      PROVE  LimitsInv'
  <2>1. RequestRead(a, x)
    BY <1>5
  <2>2. PICK blocked \in BOOLEAN :
           request' = [request EXCEPT ![a] =
                          [pc |-> "busy", amount |-> x,
                           ok |-> ~ blocked /\ Eligible(Owner[a], x)]]
    BY <2>1 DEF RequestRead
  <2>3. \A b \in AdvanceIds : request[b] = Idle
    BY <2>1 DEF RequestRead, Locked
  <2>4. \A b \in AdvanceIds : b # a => request'[b] = Idle
    BY <2>2, <2>3 DEF TypeOK
  <2>5. request'[a].amount = x /\ (request'[a].ok => Eligible(Owner[a], x))
    <3> DEFINE r == [pc |-> "busy", amount |-> x, ok |-> ~ blocked /\ Eligible(Owner[a], x)]
    <3>1. request'[a] = r
      BY <2>2 DEF TypeOK
    <3>2. r.amount = x /\ (r.ok => Eligible(Owner[a], x))
      OBVIOUS
    <3> QED
      BY <3>1, <3>2
  <2>6. OneRequest'
    BY <2>4 DEF OneRequest
  <2>7. EligibleStays'
    <3> SUFFICES ASSUME request'[a].ok
                 PROVE  /\ x + OutstandingOf(Owner[a])' <= Cap
                        /\ Coverage => x + FundingExposure' <= 0
      BY <2>4, <2>5 DEF EligibleStays
    <3>1. /\ x + OutstandingOf(Owner[a]) <= Cap
          /\ Coverage => x + FundingExposure <= 0
      BY <2>5 DEF Eligible
    <3>2. x \in Int /\ Cap \in Int /\ 0 \in Int
      BY AdvanceConstants
    <3>3. x + OutstandingOf(Owner[a])' <= Cap
      <4> DEFINE w == Owner[a]
      <4> HIDE DEF w
      <4>1. /\ OutstandingOf(w)' <= OutstandingOf(w)
            /\ OutstandingOf(w) \in Int /\ OutstandingOf(w)' \in Int
        BY <1>1, <1>2, Zenon
      <4>2. x + OutstandingOf(w) <= Cap
        BY <3>1 DEF w
      <4>3. x + OutstandingOf(w)' <= Cap
        BY <3>2, <4>1, <4>2, LowerFits, Zenon
      <4> QED
        BY <4>3 DEF w
    <3>4. Coverage => x + FundingExposure' <= 0
      BY <1>1, <1>2, <3>1, <3>2, LowerFits, Zenon
    <3> QED
      BY <3>3, <3>4
  <2> QED
    BY <1>3, <1>4, <2>6, <2>7 DEF LimitsInv
<1>6. CASE request' = request
  <2>1. OneRequest'
    BY <1>6 DEF LimitsInv, OneRequest
  <2>2. EligibleStays'
    <3> SUFFICES ASSUME NEW a \in AdvanceIds, request[a] # Idle, request[a].ok
                 PROVE  /\ request[a].amount + OutstandingOf(Owner[a])' <= Cap
                        /\ Coverage => request[a].amount + FundingExposure' <= 0
      BY <1>6 DEF EligibleStays
    <3>1. /\ request[a].amount + OutstandingOf(Owner[a]) <= Cap
          /\ Coverage => request[a].amount + FundingExposure <= 0
      BY DEF LimitsInv, EligibleStays
    <3>2. request[a].amount \in Int /\ Cap \in Int /\ 0 \in Int
      BY RequestAmount, AdvanceConstants
    <3> QED
      BY <1>1, <1>2, <3>1, <3>2, LowerFits, Zenon
  <2> QED
    BY <1>3, <1>4, <2>1, <2>2 DEF LimitsInv
<1>7. request' = request \/ \E a \in AdvanceIds, x \in Amounts : RequestRead(a, x)
  BY DEF Next, DisbursementTask, LoadAdvance, TransferAccepted, TransferUnavailable,
         TransferRejected, RecordSubmission, CancelRejected, TaskCrash,
         RequestReplay, BankDecides, WebhookConfirms, WebhookFails, FundingWebhook,
         PayrollRead, SettleAdvances, TerminateRead, TerminateApply, NextMonth
<1> QED
  BY <1>5, <1>6, <1>7

\* A decision draws what it found eligible, and no other request is open.
LEMMA DecideKeepsLimits ==
    ASSUME TypeOK, TypeOK', BooksInv, LimitsInv, NEW a \in AdvanceIds, RequestDecide(a)
    PROVE  LimitsInv'
<1> DEFINE x == request[a].amount
           w == Owner[a]
<1>1. /\ request[a] # Idle /\ request' = [request EXCEPT ![a] = Idle]
      /\ amount' = [amount EXCEPT ![a] = x] /\ recovered' = recovered /\ funded' = funded
      /\ \/ /\ request[a].ok
            /\ status' = [status EXCEPT ![a] = "approved"]
            /\ cash' = [cash EXCEPT ![a] = @ + x]
         \/ /\ status' = [status EXCEPT ![a] = "declined"]
            /\ cash' = cash
  BY DEF RequestDecide
<1>2. x \in Nat /\ x \in Int
  BY <1>1, AdvanceConstants DEF TypeOK
<1>3. \A b \in AdvanceIds : request'[b] = Idle
  BY <1>1 DEF LimitsInv, OneRequest, TypeOK
<1>4. OneRequest' /\ EligibleStays'
  BY <1>3 DEF OneRequest, EligibleStays
<1>5. status[a] = "none" /\ recovered[a] = 0
  BY <1>1 DEF BooksInv, RequestIsNew, UndisbursedUntouched
<1>6. Owed[a] = 0
  BY <1>5, OwedValues
<1>7. \A b \in AdvanceIds \ {a} : Owed'[b] = Owed[b] /\ cash'[b] = cash[b]
  <2> SUFFICES ASSUME NEW b \in AdvanceIds \ {a}
               PROVE  Owed'[b] = Owed[b] /\ cash'[b] = cash[b]
    OBVIOUS
  <2>1. status'[b] = status[b] /\ amount'[b] = amount[b] /\ cash'[b] = cash[b]
    BY <1>1 DEF TypeOK
  <2> QED
    BY <1>1, <2>1, OwedValues
<1> HIDE DEF x, w
<1>8. CASE status' = [status EXCEPT ![a] = "declined"] /\ cash' = cash
  <2>1. Owed'[a] = 0
    <3>1. status'[a] = "declined"
      BY <1>8 DEF TypeOK
    <3> QED
      BY <3>1, OwedValues
  <2>2. \A b \in AdvanceIds : Owed'[b] <= Owed[b] /\ cash'[b] <= cash[b]
    BY <1>6, <1>7, <1>8, <2>1, OwedTypes DEF TypeOK
  <2>3. /\ \A v : OutstandingOf(v)' <= OutstandingOf(v)
        /\ FundingExposure' <= FundingExposure
    BY <1>1, <2>2, LowerSums
  <2>4. /\ \A v : OutstandingOf(v) \in Int /\ OutstandingOf(v)' \in Int
        /\ FundingExposure \in Int /\ FundingExposure' \in Int
    BY LimitsTypes, LimitsTypesNext
  <2>5. OutstandingWithinCap'
    <3> SUFFICES ASSUME NEW v \in Workers
                 PROVE  OutstandingOf(v)' <= Cap
      BY DEF OutstandingWithinCap
    <3>1. OutstandingOf(v) <= Cap /\ Cap \in Int
      BY AdvanceConstants DEF LimitsInv, OutstandingWithinCap
    <3> QED
      BY <2>3, <2>4, <3>1
  <2>6. PoolCovered'
    BY <2>3, <2>4 DEF LimitsInv, PoolCovered
  <2> QED
    BY <1>4, <2>5, <2>6 DEF LimitsInv
<1>9. CASE /\ request[a].ok
           /\ status' = [status EXCEPT ![a] = "approved"]
           /\ cash' = [cash EXCEPT ![a] = @ + x]
  <2>1. Owed'[a] = x
    <3>1. status'[a] = "approved" /\ amount'[a] = x /\ recovered'[a] = 0
      BY <1>1, <1>5, <1>9 DEF TypeOK
    <3> QED
      BY <1>2, <3>1, OwedValues
  <2>2. x + OutstandingOf(w) <= Cap /\ (Coverage => x + FundingExposure <= 0)
    BY <1>1, <1>9 DEF LimitsInv, EligibleStays, x, w
  <2>3. a \in Of(w) /\ \A v : v # w => a \notin Of(v)
    BY DEF Of, w
  <2>4. \A v : Whole(Owed, Of(v)) /\ IsFiniteSet(Of(v))
    <3>1. \A v : Whole(Owed, Of(v))
      BY OwedTypes DEF Whole, Of
    <3> QED
      BY <3>1, AdvancesFinite
  <2>5. SumOf(Owed', Of(w)) = SumOf(Owed, Of(w)) - Owed[a] + Owed'[a]
    <3>1. \A y \in Of(w) \ {a} : Owed'[y] = Owed[y]
      BY <1>7 DEF Of
    <3> QED
      BY <1>2, <2>1, <2>3, <2>4, <3>1, SumChange
  <2>6. \A v : v # w => SumOf(Owed', Of(v)) = SumOf(Owed, Of(v))
    <3> SUFFICES ASSUME NEW v, v # w
                 PROVE  SumOf(Owed', Of(v)) = SumOf(Owed, Of(v))
      OBVIOUS
    <3>1. \A y \in Of(v) : Owed'[y] = Owed[y]
      BY <1>7, <2>3 DEF Of
    <3> QED
      BY <2>4, <3>1, SumSame
  <2>7. \A v : SumOf(Owed, Of(v)) \in Int
    BY LimitsTypes
  <2>8. OutstandingOf(w)' <= Cap
    <3>1. x + SumOf(Owed, Of(w)) <= Cap /\ Cap \in Int
      BY <2>2, OutstandingIs, AdvanceConstants
    <3>2. SumOf(Owed', Of(w)) <= Cap
      BY <1>2, <1>6, <2>1, <2>5, <2>7, <3>1
    <3> QED
      BY <3>2, OutstandingNext
  <2>9. OutstandingWithinCap'
    <3> SUFFICES ASSUME NEW v \in Workers, v # w
                 PROVE  OutstandingOf(v)' <= Cap
      BY <2>8 DEF OutstandingWithinCap
    <3>1. OutstandingOf(v) <= Cap
      BY DEF LimitsInv, OutstandingWithinCap
    <3>2. OutstandingOf(v)' = OutstandingOf(v)
      BY <2>6, OutstandingIs, OutstandingNext
    <3> QED
      BY <3>1, <3>2
  <2>10. PoolCovered'
    <3>1. cash[a] \in Int /\ cash'[a] = cash[a] + x /\ cash'[a] \in Int
      BY <1>2, <1>9 DEF TypeOK
    <3>2. Whole(cash, AdvanceIds)
      BY DEF TypeOK, Whole
    <3>3. SumOf(cash', AdvanceIds) = SumOf(cash, AdvanceIds) - cash[a] + cash'[a]
      BY <1>7, <3>1, <3>2, AdvancesFinite, SumChange
    <3>4. SumOf(cash, AdvanceIds) \in Int /\ DepositAmount * Cardinality(funded) \in Int
      BY LimitsTypes
    <3>5. DepositAmount * Cardinality(funded') = DepositAmount * Cardinality(funded)
      BY <1>1
    <3>6. FundingExposure' = x + FundingExposure
      BY <1>2, <3>1, <3>3, <3>4, <3>5, ExposureIs, ExposureNext
    <3> QED
      BY <2>2, <3>6 DEF PoolCovered
  <2> QED
    BY <1>4, <2>9, <2>10 DEF LimitsInv
<1> QED
  BY <1>1, <1>8, <1>9

LEMMA NextKeepsLimits == TypeOK /\ TypeOK' /\ BooksInv /\ LimitsInv /\ [Next]_vars => LimitsInv'
<1> SUFFICES ASSUME TypeOK, TypeOK', BooksInv, LimitsInv, [Next]_vars
             PROVE  LimitsInv'
  OBVIOUS
<1>1. CASE \E a \in AdvanceIds : RequestDecide(a)
  BY <1>1, DecideKeepsLimits
<1>2. CASE Next /\ ~ \E a \in AdvanceIds : RequestDecide(a)
  BY <1>2, OthersKeepLimits
<1>3. CASE UNCHANGED vars
  <2>1. UNCHANGED <<status, amount, recovered, cash, funded, request>>
    BY <1>3 DEF vars
  <2>2. FundingExposure' = FundingExposure
    BY <2>1, ExposureIs, ExposureNext
  <2>3. Owed' = Owed
    BY <2>1 DEF Owed, IsOutstanding, RemainingKobo
  <2>4. \A w : OutstandingOf(w)' = OutstandingOf(w)
    BY <2>3, OutstandingIs, OutstandingNext
  <2> QED
    BY <2>1, <2>2, <2>4
       DEF LimitsInv, OneRequest, EligibleStays, OutstandingWithinCap, PoolCovered
<1> QED
  BY <1>1, <1>2, <1>3

LEMMA InitLimits == Init => LimitsInv
<1> SUFFICES ASSUME Init
             PROVE  LimitsInv
  OBVIOUS
<1>1. TypeOK
  BY InitTypes
<1>2. \A a \in AdvanceIds : request[a] = Idle /\ cash[a] = 0 /\ Owed[a] = 0
  BY DEF Init, Owed, IsOutstanding
<1>3. SumOf(cash, AdvanceIds) = 0
  BY <1>2, AdvancesFinite, SumZero
<1>4. Cardinality(funded) = 0
  BY FS_EmptySet DEF Init
<1>5. FundingExposure = 0
  BY <1>3, <1>4, ExposureIs, AdvanceConstants
<1>6. \A w : OutstandingOf(w) = 0
  <2>1. \A w : \A a \in Of(w) : Owed[a] = 0
    BY <1>2 DEF Of
  <2>2. \A w : SumOf(Owed, Of(w)) = 0
    BY <2>1, AdvancesFinite, SumZero
  <2> QED
    BY <1>1, <2>2, OutstandingIs
<1> QED
  BY <1>2, <1>5, <1>6, AdvanceConstants
     DEF LimitsInv, OneRequest, EligibleStays, OutstandingWithinCap, PoolCovered

\* The inductive invariant of the two limits: a request that was found eligible stays
\* so until it is decided.
THEOREM LimitsInvariant == Spec => []LimitsInv
<1>1. Init => LimitsInv
  BY InitLimits
<1>2. TypeOK /\ TypeOK' /\ BooksInv /\ LimitsInv /\ [Next]_vars => LimitsInv'
  BY NextKeepsLimits
<1> QED
  BY <1>1, <1>2, TypeCorrect, BooksInvariant, PTL DEF Spec

\* Nobody has more outstanding than the cap, although a worker's requests race each
\* other, the payroll run, the callbacks and termination (eligibilityTx under the
\* advisory lock of RequestAdvance).
THEOREM CapAlwaysHolds == Spec => []OutstandingWithinCap
<1>1. LimitsInv => OutstandingWithinCap
  BY DEF LimitsInv
<1> QED
  BY <1>1, LimitsInvariant, PTL

\* With funding coverage on, advances never exceed the deposits, although many workers
\* request at once.
THEOREM PoolAlwaysCovered == Spec => []PoolCovered
<1>1. LimitsInv => PoolCovered
  BY DEF LimitsInv
<1> QED
  BY <1>1, LimitsInvariant, PTL
=============================================================================
