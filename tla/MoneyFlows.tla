----------------------------- MODULE MoneyFlows -----------------------------
(***************************************************************************)
(* The three flows of money, where the environment leaves each alone.      *)
(* "batch": a batch no two processes work on at once.  "pool": workers     *)
(* drawing on one employer's deposits.  "debit": advances collected by     *)
(* direct debit.  They share no state here; a behaviour is one of a single *)
(* part, chosen at the start, while the others stand still.  The variables *)
(* of the last part, and its properties, are those of D2CCollection        *)
(* itself.                                                                 *)
(***************************************************************************)
EXTENDS D2CCollection

CONSTANTS
    Items, ZeroNet, Leavers, BatchTasks, Handlers, MaxAttempt, MaxRetry, \* PayrollBatch
    Workers, MaxAdvance, Owner, Amounts, Cap, MaxDraws, Coverage, Pay,   \* WageAdvance
    MaxPeriod, Deposits, DepositAmount, PayoutTasks

ASSUME MoneyFlowsConstants ==
    /\ IsFiniteSet(Items) /\ ZeroNet \subseteq Items /\ Leavers \subseteq Items
    /\ BatchTasks # {}
    /\ MaxAttempt \in Nat \ {0} /\ MaxRetry \in Nat
    /\ IsFiniteSet(Workers) /\ Pay \in [Workers -> Nat]
    /\ MaxAdvance \in Nat /\ Owner \in [1 .. MaxAdvance -> Workers]
    /\ Amounts \subseteq Nat \ {0}
    /\ Cap \in Nat /\ MaxDraws \in Nat /\ Coverage \in BOOLEAN
    /\ MaxPeriod \in Nat \ {0}
    /\ IsFiniteSet(Deposits) /\ DepositAmount \in Nat \ {0}

VARIABLES
    part,
    batchStatus, pendingCount, itemStatus, attempt, resolvedBy, overdue, employee,
    batchTask, handler, retry, itemBank, sends,
    month, advanceStatus, amount, period, deducted, submitted, active, owed, cash, funded,
    request, payroll, payrolled, leaving, payout, advanceBank

batchVars == <<batchStatus, pendingCount, itemStatus, attempt, resolvedBy, overdue,
               employee, batchTask, handler, retry, itemBank, sends>>
poolVars == <<month, advanceStatus, amount, period, deducted, submitted, active, owed,
              cash, funded, request, payroll, payrolled, leaving, payout, advanceBank>>
flowVars == <<part, batchVars, poolVars, vars>>

-----------------------------------------------------------------------------
\* Callbacks are served one at a time, and a retry waits for the batch's task.
Batch == INSTANCE PayrollBatch WITH
    Overlap <- {}, Tasks <- BatchTasks,
    status <- batchStatus, task <- batchTask, bank <- itemBank

Pool == INSTANCE WageAdvance WITH
    Tasks <- PayoutTasks,
    status <- advanceStatus, recovered <- deducted, receivable <- owed, task <- payout,
    bank <- advanceBank

-----------------------------------------------------------------------------
\* The batch's first task is one and the same where it stands still.
FlowInit ==
    /\ part \in {"batch", "pool", "debit"}
    /\ Batch!Init
    /\ part # "batch" => batchTask[CHOOSE t \in BatchTasks : TRUE].pc = "enqueue"
    /\ Pool!Init
    /\ Init

FlowNext ==
    /\ UNCHANGED part
    /\ \/ part = "batch" /\ Batch!Next /\ UNCHANGED <<poolVars, vars>>
       \/ part = "pool" /\ Pool!Next /\ UNCHANGED <<batchVars, vars>>
       \/ part = "debit" /\ Next /\ UNCHANGED <<batchVars, poolVars>>

FlowSpec == FlowInit /\ [][FlowNext]_flowVars

-----------------------------------------------------------------------------
(* Properties of the first two parts, each stated in full in its module. *)

\* Where settlement and retry do not overlap, no reference is sent to the bank twice.
SentAtMostOnce == Batch!SentAtMostOnce

\* A batch recorded as completed has paid every line that had something to pay.
CompletedBatchPaidEveryone == Batch!CompletedBatchPaidEveryone

\* What an employer's workers have drawn never exceeds what it has deposited.
PoolCovered == Pool!PoolCovered
=============================================================================
