----------------------------- MODULE Repayments -----------------------------
(***************************************************************************)
(* The two ways an advance is repaid, with everything that may race.       *)
(* "payroll": one employer's payroll runs net advances out of pay.         *)
(* "debit": sweeps, several at once, debit the accounts of workers without *)
(* an employer.  They share no state here; a behaviour is one of a single  *)
(* part, chosen at the start, while the other stands still.  The variables *)
(* of the first part, and its properties, are those of WageAdvance itself. *)
(***************************************************************************)
EXTENDS WageAdvance

CONSTANTS
    Advances, Debt, MaxAttempts, MaxRows, MaxLinks, Sweepers   \* D2CCollection

VARIABLES
    part,
    debtStatus, repaid, owed, collection, debitAmount, referenced, links, linked, mandate,
    readConsent, debitConsent, authorizing, withdrawn, sweeper, rail

debitVars == <<debtStatus, repaid, owed, collection, debitAmount, referenced, links,
               linked, mandate, readConsent, debitConsent, authorizing, withdrawn,
               sweeper, rail>>
repaymentVars == <<part, vars, debitVars>>

-----------------------------------------------------------------------------
Debit == INSTANCE D2CCollection WITH
    Amount <- Debt, LostAnswers <- TRUE,
    status <- debtStatus, recovered <- repaid, receivable <- owed

ASSUME RepaymentsConstants == Debit!CollectionConstants

-----------------------------------------------------------------------------
RepaymentsInit ==
    /\ part \in {"payroll", "debit"}
    /\ Init
    /\ Debit!Init

RepaymentsNext ==
    /\ UNCHANGED part
    /\ \/ part = "payroll" /\ Next /\ UNCHANGED debitVars
       \/ part = "debit" /\ Debit!Next /\ UNCHANGED vars

RepaymentsSpec == RepaymentsInit /\ [][RepaymentsNext]_repaymentVars

-----------------------------------------------------------------------------
(* Properties of the debits, each stated in full in D2CCollection. *)

\* ConfirmD2CCollectionSuccess, WriteOffAdvance: what a worker is recorded to have repaid
\* and to owe agrees with the advance.
DebitBooksMatch == Debit!DebitBooksMatch

\* ConfirmD2CCollectionSuccess: what is booked as recovered was really debited.
RecoveredMeansLanded == Debit!RecoveredMeansLanded
=============================================================================
