---------------------------- MODULE SharedRecords ----------------------------
(***************************************************************************)
(* Records that overlapping and repeated requests share: the entry of an   *)
(* idempotency key, the login codes of a phone, workers' hours and the     *)
(* ledger.  They share nothing with each other; a behaviour is one of a    *)
(* single part, chosen at the start, while the others stand still.  The    *)
(* variables of the ledger, and its properties, are those of Ledger        *)
(* itself.                                                                 *)
(***************************************************************************)
EXTENDS Ledger

CONSTANTS
    Callers, Body,                                                       \* Idempotency
    Phones, Codes, MaxAttempts, MaxIssues,                               \* OneTimeCode
    Employees, Entries, Owner, WorkDay, Minutes, Legacy,                 \* TimeEntry
    MaxMinutesPerDay, Days, WeekOf, Periods, PeriodEnd, Thresholds, Clients

VARIABLES
    part,
    entry, stage, answer, effects,
    faults, cooldown, daily, lapses, code, attempts, issue, count,
    stored, guessed, ofToday, mine, compared, accepted,
    status, paidBy, active, today, threshold, request, run, payrolls, item

keyVars == <<entry, stage, answer, effects>>
codeVars == <<faults, cooldown, daily, lapses, code, attempts, issue, count,
              stored, guessed, ofToday, mine, compared, accepted>>
hoursVars == <<status, paidBy, active, today, threshold, request, run, payrolls, item>>
sharedVars == <<part, keyVars, codeVars, hoursVars, vars>>

-----------------------------------------------------------------------------
\* Handlers are faster than inflightTTL.
Key == INSTANCE Idempotency WITH
    Requests <- Callers, SlowHandlers <- FALSE, pc <- stage

Code == INSTANCE OneTimeCode WITH Requests <- Phones, pc <- issue, today <- ofToday

Hours == INSTANCE TimeEntry WITH Requests <- Clients, created <- payrolls

ASSUME SharedRecordsConstants ==
    /\ Key!IdempotencyConstants
    /\ Code!OneTimeCodeConstants
    /\ Hours!TimeConstants

-----------------------------------------------------------------------------
\* Where a part stands still it has one initial state.
SharedInit ==
    /\ part \in {"key", "code", "hours", "ledger"}
    /\ Key!Init
    /\ Code!Init /\ (part # "code" => ~ faults)
    /\ Hours!Init
    /\ part # "hours" => /\ today = CHOOSE d \in Days : \A e \in Legacy : WorkDay[e] <= d
                         /\ threshold = CHOOSE t \in Thresholds : TRUE
    /\ Init
    /\ part # "ledger" => /\ req = [t \in Txns |-> CHOOSE p \in Requests[t] : TRUE]
                          /\ accounts = {[identity |-> i, by |-> Earlier] :
                                             i \in CHOOSE I \in Charts : TRUE}

SharedNext ==
    /\ UNCHANGED part
    /\ \/ part = "key" /\ Key!Next /\ UNCHANGED <<codeVars, hoursVars, vars>>
       \/ part = "code" /\ Code!Next /\ UNCHANGED <<keyVars, hoursVars, vars>>
       \/ part = "hours" /\ Hours!Next /\ UNCHANGED <<keyVars, codeVars, vars>>
       \/ part = "ledger" /\ Next /\ UNCHANGED <<keyVars, codeVars, hoursVars>>

SharedSpec == SharedInit /\ [][SharedNext]_sharedVars

\* The fairness of each part, asked of its own behaviours.
SharedFairSpec ==
    /\ SharedSpec
    /\ \A r \in Callers : WF_keyVars(part = "key" /\ Key!Step(r))
    /\ WF_keyVars(part = "key" /\ Key!LockExpires)
    /\ Code!Fairness
    /\ \A n \in Periods : SF_hoursVars(part = "hours" /\ Hours!PayrollBegin(n))
    /\ \A w \in Employees : SF_hoursVars(part = "hours" /\ Hours!PayrollEmployee(w))
    /\ SF_hoursVars(part = "hours" /\ Hours!PayrollCommit)
    /\ \A t \in Txns : WF_vars(part = "ledger" /\ Step(t))

-----------------------------------------------------------------------------
(* Properties of the parts, each stated in full in its module. *)

\* The idempotency middleware: the work of a key is done once unless its response was
\* lost, and the response stands and goes to its own body.
KeyHasOneEffect == Key!KeyHasOneEffect

\* What Redis holds for a while does lapse: the lock of a key, also after a crash, and
\* the count of a phone that reached the daily cap.
LocksAndCapsLift == Key!LockIsReleased /\ Code!CapLifts

\* Hours approved late are paid by a later run (UnpaidApprovedEntriesThrough).
ApprovedIsPaid == Hours!ApprovedIsPaid

\* No order of waiting and failing inserts keeps a caller of PostTransaction waiting.
CallersAreServed == part = "ledger" => EveryRequestEnds
=============================================================================
