--------------------------- MODULE BackgroundWork ---------------------------
(***************************************************************************)
(* Work in the background that must come to an end: a batch on its way to  *)
(* the worker, hardship grants, a BVN check, and the daily sweep of direct *)
(* debits against a rail whose answers may be lost.  They share no state;  *)
(* a behaviour is one of a single part, chosen at the start, while the     *)
(* others stand still.  The variables of the grants, and their properties, *)
(* are those of HardshipGrant itself.                                      *)
(***************************************************************************)
EXTENDS HardshipGrant

CONSTANTS
    Lines, BatchTasks, BatchRetry, MaxReleases,     \* BatchIntake
    BVNRetry, ErrorPages,                           \* BVNCheck
    Advances, Debt, MaxAttempts, MaxRows, MaxLinks, \* D2CCollection
    Sweepers

VARIABLES
    part,
    faults, batch, batchLine, batchTask, tries, released,
    valid, check, retried, outcome, rows, lookups, refused,
    advanceStatus, recovered, receivable, collection, debitAmount, referenced, links,
    linked, mandate, readConsent, debitConsent, authorizing, withdrawn, sweeper, rail

intakeVars == <<faults, batch, batchLine, batchTask, tries, released>>
bvnVars == <<valid, check, retried, outcome, rows, lookups, refused>>
debitVars == <<advanceStatus, recovered, receivable, collection, debitAmount, referenced,
               links, linked, mandate, readConsent, debitConsent, authorizing, withdrawn,
               sweeper, rail>>
workVars == <<part, intakeVars, vars, bvnVars, debitVars>>

-----------------------------------------------------------------------------
Intake == INSTANCE BatchIntake WITH
    Tasks <- BatchTasks, MaxRetry <- BatchRetry, line <- batchLine, task <- batchTask

BVN == INSTANCE BVNCheck WITH MaxRetry <- BVNRetry, task <- check

Debit == INSTANCE D2CCollection WITH
    Amount <- Debt, LostAnswers <- TRUE, status <- advanceStatus

ASSUME BackgroundWorkConstants ==
    /\ Intake!BatchIntakeConstants
    /\ BVN!BVNCheckConstants
    /\ Debit!CollectionConstants

-----------------------------------------------------------------------------
\* Where a part stands still it has one initial state.
WorkInit ==
    /\ part \in {"intake", "grant", "bvn", "debit"}
    /\ Intake!Init /\ (part # "intake" => faults = {})
    /\ Init /\ (part # "grant" => configured)
    /\ BVN!Init /\ (part # "bvn" => valid)
    /\ Debit!Init

WorkNext ==
    /\ UNCHANGED part
    /\ \/ part = "intake" /\ Intake!Next /\ UNCHANGED <<vars, bvnVars, debitVars>>
       \/ part = "grant" /\ Next /\ UNCHANGED <<intakeVars, bvnVars, debitVars>>
       \/ part = "bvn" /\ BVN!Next /\ UNCHANGED <<intakeVars, vars, debitVars>>
       \/ part = "debit" /\ Debit!Next /\ UNCHANGED <<intakeVars, vars, bvnVars>>

WorkSpec == WorkInit /\ [][WorkNext]_workVars

\* The fairness of each part.  It asks no part that stands still to move: but for the
\* sweep nothing of it is enabled before that part's first step, which nothing forces.
WorkFairSpec ==
    /\ WorkSpec /\ Intake!Fairness /\ Fairness /\ BVN!Fairness
    /\ \A s \in Sweepers :
          /\ WF_debitVars(part = "debit" /\ Debit!Sweep(s))
          /\ \A a \in Advances : Debit!SweepFairness(s, a)
    /\ Debit!RailFairness

-----------------------------------------------------------------------------
(* Properties of the other parts, each stated in full in its module. *)

\* ProcessPayrollTask: a batch on its way has somebody at it, and one at a time, as far
\* as the faults of the behaviour allow.  ProcessBVNTask keeps the outcome it ends with
\* and asks for a definitive answer once.
WorkIsKept == [](Intake!TypeOK /\ Intake!SomebodyIsAtIt) /\ BVN!CheckIsKept

\* CreatePayroll, ProcessPayrollTask and RetryFailedItems leave no batch to itself, as
\* far as the faults of the behaviour allow, and a BVN check that was queued ends.
WorkIsTakenUp == Intake!BatchIsTakenUp /\ BVN!CheckEnds

\* attemptD2CCollectionForAdvance, ConfirmD2CCollectionFailure: a debit under way ends, and
\* an advance that is tried again and again is settled or written off.
AdvanceIsResolved == Debit!AdvanceIsResolved
=============================================================================
