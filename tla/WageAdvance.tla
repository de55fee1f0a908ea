---------------------------- MODULE WageAdvance ----------------------------
(***************************************************************************)
(* Earned wage access in one organization: workers draw advances on wages  *)
(* they have earned, a worker task pays them out through a provider, the   *)
(* provider's callback confirms or reverses them, each payroll run nets    *)
(* them out of pay, and termination cancels or writes off what is left.    *)
(* Every decision posts to the ledger.                                     *)
(*                                                                         *)
(* One action is one database transaction or one call to the provider.     *)
(* Three transactions read first and write later while others commit in    *)
(* between: a request and a payroll run (which exclude each other through  *)
(* the org's advisory lock) and a termination (which takes no lock).  The  *)
(* other transactions only compare-and-set the status they read, so they   *)
(* are single steps.                                                       *)
(***************************************************************************)
EXTENDS Integers, FiniteSets, FiniteSetsExt

CONSTANTS
    Workers,
    MaxAdvance,     \* bound: advances requested, numbered in that order
    Owner,          \* the worker who requests each of them
    Amounts,        \* amounts asked for
    Cap,            \* what a worker may have outstanding: the tier cap or
                    \* the protected payday, whichever is less
    MaxDraws,       \* EWAPolicy.MaxDrawsPerPeriod
    Coverage,       \* EWAPolicy.RequireFundingCoverage
    Pay,            \* each worker's gross pay per period
    MaxPeriod,      \* bound: months
    Deposits,       \* deposits an employer makes into the pool
    DepositAmount,  \* the amount of each
    Tasks           \* bound: disbursement tasks queued or running at a time

AdvanceIds == 1 .. MaxAdvance
Periods == 1 .. MaxPeriod

ASSUME AdvanceConstants ==
    /\ MaxAdvance \in Nat
    /\ MaxPeriod \in Nat \ {0}
    /\ IsFiniteSet(Workers)
    /\ Owner \in [AdvanceIds -> Workers]
    /\ Amounts \subseteq Nat \ {0}
    /\ Cap \in Nat
    /\ MaxDraws \in Nat
    /\ Coverage \in BOOLEAN
    /\ Pay \in [Workers -> Nat]
    /\ IsFiniteSet(Deposits)
    /\ DepositAmount \in Nat \ {0}

VARIABLES
    month,       \* the current period
    status,      \* ewa_advances.status; "none" before the request
    amount,      \* ewa_advances.amount_kobo
    period,      \* ewa_advances.period
    recovered,   \* ewa_advances.recovered_kobo
    submitted,   \* ewa_advances.provider_reference is set
    active,      \* employees.is_active
    receivable,  \* the advance's entries in advance_receivable, debits less credits
    cash,        \* the advance's entries in cash_settlement, credits less debits
    funded,      \* deposits posted to the pool
    request,     \* requests between their reads and their writes
    payroll,     \* a payroll run between the two
    payrolled,   \* periods whose payroll exists
    leaving,     \* terminations between their reads and their writes
    task,        \* Asynq tasks and the goroutine running each
    bank         \* external: what the provider made of each advance

advanceVars == <<status, amount, period, recovered, submitted, receivable, cash>>
vars == <<month, status, amount, period, recovered, submitted, active,
          receivable, cash, funded, request, payroll, payrolled, leaving, task,
          bank>>

AdvanceStatus ==
    {"none", "declined", "approved", "disbursed", "settled", "cancelled",
     "written_off"}

Idle == [pc |-> "idle"]
\* What a transaction has read and will act on.
Seen == [pc : {"busy"}, approved : SUBSET AdvanceIds, disbursed : SUBSET AdvanceIds]

TypeOK ==
    /\ month \in Periods
    /\ status \in [AdvanceIds -> AdvanceStatus]
    /\ amount \in [AdvanceIds -> Nat]
    /\ period \in [AdvanceIds -> Periods]
    /\ recovered \in [AdvanceIds -> Nat]
    /\ submitted \in [AdvanceIds -> BOOLEAN]
    /\ active \in [Workers -> BOOLEAN]
    /\ receivable \in [AdvanceIds -> Int]
    /\ cash \in [AdvanceIds -> Int]
    /\ funded \subseteq Deposits
    /\ request \in [AdvanceIds -> {Idle} \cup [pc : {"busy"}, amount : Amounts,
                                             ok : BOOLEAN]]
    /\ payroll \in {Idle} \cup Seen
    /\ payrolled \subseteq Periods
    /\ leaving \in [Workers -> {Idle} \cup Seen]
    /\ task \in [Tasks -> {Idle} \cup [pc : {"queued", "send", "record", "reject"},
                                       advance : AdvanceIds]]
    /\ bank \in [AdvanceIds -> {"none", "accepted", "paid", "mispaid", "failed"}]

-----------------------------------------------------------------------------
(* The advance's status machine and the ledger (models).                   *)

\* An advance starts approved or declined: nothing writes "requested".
validAdvanceTransitions ==
    [none |-> {"approved", "declined"},
     approved |-> {"disbursed", "cancelled"}, disbursed |-> {"settled", "written_off"},
     settled |-> {}, declined |-> {}, cancelled |-> {}, written_off |-> {}]

CanTransitionAdvance(from, to) == to \in validAdvanceTransitions[from]

IsOutstanding(a) == status[a] \in {"approved", "disbursed"}

\* Mutant: the whole advance is owed until it is settled.
MutRemainingKobo(a) == amount[a]

RemainingKobo(a) == IF recovered[a] > amount[a] THEN 0 ELSE amount[a] - recovered[a]

\* The advances of S that a compare-and-set from one status still finds there.
Still(S, s) == {a \in S : status[a] = s}

Of(w) == {a \in AdvanceIds : Owner[a] = w}

\* outstandingTx: what the worker's open advances still owe, and this period's
\* draws.
OutstandingOf(w) ==
    MapThenSumSet(RemainingKobo, {a \in Of(w) : IsOutstanding(a)})

DrawsThisPeriod(w) ==
    Cardinality({a \in Of(w) : period[a] = month
                    /\ status[a] \in {"approved", "disbursed", "settled"}})

\* cash_settlement's balance, derived from its entries: advances less deposits.
FundingExposure ==
    MapThenSumSet(LAMBDA a : cash[a], AdvanceIds) - DepositAmount * Cardinality(funded)

\* CancelAdvance on each advance of C and WriteOffAdvance on each of W, where
\* the compare-and-set has succeeded: the status and the reversing entries.
Resolve(C, W) ==
    /\ status' = [a \in AdvanceIds |-> IF a \in C THEN "cancelled"
                                     ELSE IF a \in W THEN "written_off"
                                     ELSE status[a]]
    /\ receivable' = [a \in AdvanceIds |-> IF a \in C \cup W
                                         THEN receivable[a] - amount[a]
                                         ELSE receivable[a]]
    /\ cash' = [a \in AdvanceIds |-> IF a \in C THEN cash[a] - amount[a] ELSE cash[a]]

-----------------------------------------------------------------------------
(* RequestAdvance.                                                         *)

\* Mutant: only the payroll run takes the advisory lock.
MutLocked == payroll # Idle

\* The organization's advisory lock is taken.
Locked == payroll # Idle \/ \E a \in AdvanceIds : request[a] # Idle

Init ==
    /\ month = 1
    /\ status = [a \in AdvanceIds |-> "none"]
    /\ amount = [a \in AdvanceIds |-> 0]
    /\ period = [a \in AdvanceIds |-> 1]
    /\ recovered = [a \in AdvanceIds |-> 0]
    /\ submitted = [a \in AdvanceIds |-> FALSE]
    /\ active = [w \in Workers |-> TRUE]
    /\ receivable = [a \in AdvanceIds |-> 0]
    /\ cash = [a \in AdvanceIds |-> 0]
    /\ funded = {}
    /\ request = [a \in AdvanceIds |-> Idle]
    /\ payroll = Idle
    /\ payrolled = {}
    /\ leaving = [w \in Workers |-> Idle]
    /\ task = [k \in Tasks |-> Idle]
    /\ bank = [a \in AdvanceIds |-> "none"]

\* Mutant: only money that has reached the worker counts against the cap.
MutEligible(w, x) ==
    /\ active[w]
    /\ DrawsThisPeriod(w) < MaxDraws
    /\ x + MapThenSumSet(RemainingKobo, {a \in Of(w) : status[a] = "disbursed"}) <= Cap
    /\ Coverage => x + FundingExposure <= 0

\* eligibilityTx: the worker is active, has a draw left this period, and the
\* amount fits both the cap and, where the policy asks for it, the pool.
Eligible(w, x) ==
    /\ active[w]
    /\ DrawsThisPeriod(w) < MaxDraws
    /\ x + OutstandingOf(w) <= Cap
    /\ Coverage => x + FundingExposure <= 0

\* The lock is taken and eligibility computed.  Cooling-off, the dependency
\* tier and the minimum draw may block a request that is otherwise eligible.
RequestRead(a, x) ==
    /\ ~ Locked
    /\ status[a] = "none" /\ request[a] = Idle
    /\ \A b \in AdvanceIds : b < a => status[b] # "none" \/ request[b] # Idle
    /\ \E blocked \in BOOLEAN :
          request' = [request EXCEPT ![a] =
                         [pc |-> "busy", amount |-> x,
                          ok |-> ~ blocked /\ Eligible(Owner[a], x)]]
    /\ UNCHANGED <<month, advanceVars, active, funded, payroll, payrolled,
                   leaving, task, bank>>

\* Client.Enqueue of the disbursement task: the queue may refuse it, which is
\* only counted.
Enqueue(a) ==
    \/ task' = task
    \/ \E k \in Tasks :
          /\ task[k] = Idle
          /\ task' = [task EXCEPT ![k] = [pc |-> "queued", advance |-> a]]

\* The decision is recorded.  An approval posts Dr advance_receivable / Cr
\* cash_settlement and, after the commit, enqueues the payout.
RequestDecide(a) ==
    LET x == request[a].amount IN
    /\ request[a] # Idle
    /\ amount' = [amount EXCEPT ![a] = x]
    /\ period' = [period EXCEPT ![a] = month]
    /\ \/ /\ request[a].ok
          /\ status' = [status EXCEPT ![a] = "approved"]
          /\ receivable' = [receivable EXCEPT ![a] = @ + x]
          /\ cash' = [cash EXCEPT ![a] = @ + x]
          /\ Enqueue(a)
       \/ /\ ~ request[a].ok
          /\ status' = [status EXCEPT ![a] = "declined"]
          /\ UNCHANGED <<receivable, cash, task>>
    /\ request' = [request EXCEPT ![a] = Idle]
    /\ UNCHANGED <<month, recovered, submitted, active, funded, payroll,
                   payrolled, leaving, bank>>

\* The client repeats the request with its idempotency key: the decision
\* stands, and a payout not yet submitted is enqueued once more.
RequestReplay(a) ==
    /\ ~ Locked
    /\ status[a] = "approved"
    /\ ~ submitted[a]
    /\ \E k \in Tasks :
          /\ task[k] = Idle
          /\ task' = [task EXCEPT ![k] = [pc |-> "queued", advance |-> a]]
    /\ UNCHANGED <<month, advanceVars, active, funded, request, payroll,
                   payrolled, leaving, bank>>

-----------------------------------------------------------------------------
(* ProcessEWADisbursementTask.                                             *)

At(k, pc) == task[k].pc = pc
Goto(k, pc) == task' = [task EXCEPT ![k].pc = pc]
TaskEnds(k) == task' = [task EXCEPT ![k] = Idle]

\* A submitted or resolved advance has nothing to disburse.
LoadAdvance(k) ==
    /\ At(k, "queued")
    /\ LET a == task[k].advance IN
       \/ status[a] = "approved" /\ ~ submitted[a] /\ Goto(k, "send")
       \/ (status[a] # "approved" \/ submitted[a]) /\ TaskEnds(k)
    /\ UNCHANGED <<month, advanceVars, active, funded, request, payroll,
                   payrolled, leaving, bank>>

\* InitiateTransfer, keyed by the advance: the provider takes a reference once
\* and repeats its answer.
Taken(a) == bank' = IF bank[a] = "none" THEN [bank EXCEPT ![a] = "accepted"] ELSE bank

TransferAccepted(k) ==
    /\ At(k, "send")
    /\ Taken(task[k].advance)
    /\ Goto(k, "record")
    /\ UNCHANGED <<month, advanceVars, active, funded, request, payroll,
                   payrolled, leaving>>

\* ErrProviderUnavailable: the transfer may exist or not; Asynq retries, until
\* its retries are used up.  (A currency no provider settles ends the task too.)
TransferUnavailable(k) ==
    /\ At(k, "send")
    /\ bank' = bank \/ Taken(task[k].advance)
    /\ Goto(k, "queued") \/ TaskEnds(k)
    /\ UNCHANGED <<month, advanceVars, active, funded, request, payroll,
                   payrolled, leaving>>

\* A definite refusal, of a transfer that does not exist or has failed.
TransferRejected(k) ==
    /\ At(k, "send")
    /\ bank[task[k].advance] \in {"none", "failed"}
    /\ Goto(k, "reject")
    /\ UNCHANGED <<month, advanceVars, active, funded, request, payroll,
                   payrolled, leaving, bank>>

\* MarkSubmittedToProvider, once; a failure to record ends the task as well.
RecordSubmission(k) ==
    /\ At(k, "record")
    /\ \E recorded \in BOOLEAN :
          submitted' = [submitted EXCEPT ![task[k].advance] = @ \/ recorded]
    /\ TaskEnds(k)
    /\ UNCHANGED <<month, status, amount, period, recovered, receivable, cash,
                   active, funded, request, payroll, payrolled, leaving, bank>>

CancelRejected(k) ==
    /\ At(k, "reject")
    /\ Resolve(Still({task[k].advance}, "approved"), {})
    /\ TaskEnds(k)
    /\ UNCHANGED <<month, amount, period, recovered, submitted, active, funded,
                   request, payroll, payrolled, leaving, bank>>

\* The process dies between two steps, and Asynq delivers the task again.
TaskCrash(k) ==
    /\ task[k].pc \in {"send", "record", "reject"}
    /\ Goto(k, "queued")
    /\ UNCHANGED <<month, advanceVars, active, funded, request, payroll,
                   payrolled, leaving, bank>>

-----------------------------------------------------------------------------
(* The provider and its callbacks.                                         *)

BankDecides(a) ==
    /\ bank[a] = "accepted"
    /\ \E o \in {"paid", "mispaid", "failed"} : bank' = [bank EXCEPT ![a] = o]
    /\ UNCHANGED <<month, advanceVars, active, funded, request, payroll,
                   payrolled, leaving, task>>

\* Mutant: the provider's acceptance confirms the advance.
MutConfirmable(a) == status[a] = "approved" /\ bank[a] \in {"accepted", "paid"}

\* A success callback with the advance's own amount.
Confirmable(a) == status[a] = "approved" /\ bank[a] = "paid"

\* handleEWAAdvanceWebhook: repeated, late or never.  An advance that is no
\* longer approved, or an amount that differs, changes nothing.
WebhookConfirms(a) ==
    /\ Confirmable(a)
    /\ status' = [status EXCEPT ![a] = "disbursed"]
    /\ UNCHANGED <<month, amount, period, recovered, submitted, receivable, cash,
                   active, funded, request, payroll, payrolled, leaving, task, bank>>

WebhookFails(a) ==
    /\ status[a] = "approved"
    /\ bank[a] = "failed"
    /\ Resolve({a}, {})
    /\ UNCHANGED <<month, amount, period, recovered, submitted, active, funded,
                   request, payroll, payrolled, leaving, task, bank>>

\* handleFundingWebhook: a deposit is posted once, under its reference.
FundingWebhook(d) ==
    /\ d \notin funded
    /\ funded' = funded \cup {d}
    /\ UNCHANGED <<month, advanceVars, active, request, payroll, payrolled,
                   leaving, task, bank>>

-----------------------------------------------------------------------------
(* CreatePayroll with SettleAdvancesForPayrollItem.                        *)

\* The lock is taken, the active workers found, and their advances read.
PayrollRead(p) ==
    LET due == {a \in AdvanceIds : active[Owner[a]] /\ period[a] <= p} IN
    /\ ~ Locked
    /\ p \notin payrolled
    /\ payroll' = [pc |-> "busy", approved |-> Still(due, "approved"),
                   disbursed |-> Still(due, "disbursed")]
    /\ payrolled' = payrolled \cup {p}
    /\ UNCHANGED <<month, advanceVars, active, funded, request, leaving, task, bank>>

\* What the run withholds for one advance: what is owed, or what is left of
\* the worker's pay after the older ones it recovers.
OlderOwed(a) ==
    MapThenSumSet(RemainingKobo, {b \in payroll.disbursed : Owner[b] = Owner[a] /\ b < a})

Portion(a) ==
    LET left == Pay[Owner[a]] - OlderOwed(a) IN
    IF a \notin payroll.disbursed \/ left <= 0 THEN 0
    ELSE IF left < RemainingKobo(a) THEN left ELSE RemainingKobo(a)

\* In one transaction: approved advances are cancelled, disbursed ones
\* recovered oldest first.  The update of recovered_kobo names no status; an
\* advance that has left disbursed meanwhile keeps the status it has.
SettleAdvances ==
    LET C == Still(payroll.approved, "approved")
        withheld == [a \in AdvanceIds |-> Portion(a)]
    IN
    /\ payroll # Idle
    /\ withheld \in [AdvanceIds -> Nat]
    /\ recovered' = [a \in AdvanceIds |-> recovered[a] + withheld[a]]
    /\ status' = [a \in AdvanceIds |->
                     IF a \in C THEN "cancelled"
                     ELSE IF /\ withheld[a] > 0
                             /\ recovered[a] + withheld[a] >= amount[a]
                             /\ status[a] = "disbursed"
                          THEN "settled"
                     ELSE status[a]]
    /\ receivable' = [a \in AdvanceIds |-> IF a \in C THEN receivable[a] - amount[a]
                                         ELSE receivable[a] - withheld[a]]
    /\ cash' = [a \in AdvanceIds |-> IF a \in C THEN cash[a] - amount[a] ELSE cash[a]]
    /\ payroll' = Idle
    /\ UNCHANGED <<month, amount, period, submitted, active, funded, request,
                   payrolled, leaving, task, bank>>

-----------------------------------------------------------------------------
(* Terminate.                                                              *)

TerminateRead(w) ==
    /\ leaving[w] = Idle
    /\ leaving' = [leaving EXCEPT ![w] =
                      [pc |-> "busy", approved |-> Still(Of(w), "approved"),
                       disbursed |-> Still(Of(w), "disbursed")]]
    /\ UNCHANGED <<month, advanceVars, active, funded, request, payroll,
                   payrolled, task, bank>>

\* The commit: the worker is inactive, and each advance that is still as it
\* was read is cancelled or written off.
TerminateApply(w) ==
    /\ leaving[w] # Idle
    /\ active' = [active EXCEPT ![w] = FALSE]
    /\ Resolve(Still(leaving[w].approved, "approved"),
               Still(leaving[w].disbursed, "disbursed"))
    /\ leaving' = [leaving EXCEPT ![w] = Idle]
    /\ UNCHANGED <<month, amount, period, recovered, submitted, funded, request,
                   payroll, payrolled, task, bank>>

NextMonth ==
    /\ month < MaxPeriod
    /\ \A a \in AdvanceIds : request[a] = Idle
    /\ month' = month + 1
    /\ UNCHANGED <<advanceVars, active, funded, request, payroll, payrolled,
                   leaving, task, bank>>

-----------------------------------------------------------------------------

DisbursementTask(k) ==
    \/ LoadAdvance(k)
    \/ TransferAccepted(k)
    \/ TransferUnavailable(k)
    \/ TransferRejected(k)
    \/ RecordSubmission(k)
    \/ CancelRejected(k)
    \/ TaskCrash(k)

Next ==
    \/ \E a \in AdvanceIds, x \in Amounts : RequestRead(a, x)
    \/ \E a \in AdvanceIds : RequestDecide(a)
    \/ \E a \in AdvanceIds : RequestReplay(a)
    \/ \E k \in Tasks : DisbursementTask(k)
    \/ \E a \in AdvanceIds : BankDecides(a)
    \/ \E a \in AdvanceIds : WebhookConfirms(a)
    \/ \E a \in AdvanceIds : WebhookFails(a)
    \/ \E d \in Deposits : FundingWebhook(d)
    \/ \E p \in Periods : PayrollRead(p)
    \/ SettleAdvances
    \/ \E w \in Workers : TerminateRead(w)
    \/ \E w \in Workers : TerminateApply(w)
    \/ NextMonth

Spec == Init /\ [][Next]_vars

-----------------------------------------------------------------------------
(* What makes it correct.                                                  *)

\* Pay is withheld, and a loss or a recovery booked, only for money the
\* provider paid in full: an advance accepted but not confirmed is never
\* deducted, whatever the callbacks, the payroll run and termination race
\* (SettleAdvancesForPayrollItem, ConfirmDisbursed).
RecoveryNeedsPayment ==
    \A a \in AdvanceIds :
        status[a] \in {"disbursed", "settled", "written_off"} \/ recovered[a] > 0
            => bank[a] = "paid"

\* The ledger agrees with the advances: an open advance's receivable is what is
\* left of it, a settled, cancelled or declined one has none, and cash_settlement
\* holds it exactly unless it was cancelled (postAdvanceLedger, CancelAdvance,
\* SettleAdvancesForPayrollItem).
BooksMatch ==
    \A a \in AdvanceIds :
        /\ recovered[a] <= amount[a]
        /\ status[a] # "written_off" =>
              receivable[a] = IF IsOutstanding(a) THEN amount[a] - recovered[a] ELSE 0
        /\ status[a] = "settled" => recovered[a] = amount[a]
        /\ cash[a] = IF status[a] \in {"none", "declined", "cancelled"} THEN 0
                                                                        ELSE amount[a]

\* With funding coverage on, advances never exceed deposits, although many
\* workers request at once (the advisory lock of RequestAdvance).
PoolCovered == Coverage => FundingExposure <= 0

\* Nobody has more outstanding than the cap, although one worker's requests
\* race each other and the payroll run.
OutstandingWithinCap == \A w \in Workers : OutstandingOf(w) <= Cap

\* A resolved advance stays resolved, and every move is an edge of the status
\* machine, although most writers act on a status read earlier.
AdvanceMovesForward ==
    [][\A a \in AdvanceIds : status'[a] = status[a]
                              \/ CanTransitionAdvance(status[a], status'[a])]_vars

\* A cancelled advance never moved cash (CancelAdvance).
CancelledNeverPaid == \A a \in AdvanceIds : status[a] = "cancelled" => bank[a] # "paid"

-----------------------------------------------------------------------------
(* Why recoveries are sound and the books match: an invariant that is      *)
(* inductive with TypeOK.                                                  *)

\* Nothing has been recovered of an advance that never reached the worker.
UndisbursedUntouched ==
    \A a \in AdvanceIds :
        status[a] \in {"none", "declined", "approved", "cancelled"} => recovered[a] = 0

\* A request being decided has no advance yet.
RequestIsNew == \A a \in AdvanceIds : request[a] # Idle => status[a] = "none"

\* What a payroll run has read as disbursed can only have been written off.
PayrollReadsPaid ==
    payroll # Idle =>
        \A a \in payroll.disbursed : status[a] \in {"disbursed", "written_off"}

BooksInv ==
    /\ RecoveryNeedsPayment
    /\ BooksMatch
    /\ UndisbursedUntouched
    /\ RequestIsNew
    /\ PayrollReadsPaid
=============================================================================
