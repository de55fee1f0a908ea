------------------------------ MODULE Accounts ------------------------------
(***************************************************************************)
(* What people hold and change: the employer's logins, an employee's       *)
(* record, a company's policies, a phone's login codes, and the money that *)
(* reconciliation compares.  They share no state; a behaviour is one of a  *)
(* single part, chosen at the start, while the others stand still.         *)
(* "admins" and "sessions" are two sides of the employer's logins: several *)
(* people at one moment, and one person over time.  The variables of the   *)
(* employees, and their properties, are those of EmployeeRecord itself.    *)
(***************************************************************************)
EXTENDS EmployeeRecord, FiniteSets

CONSTANTS
    People, First, TTL, MaxAge, Horizon, MaxOpen,                        \* EmployerAccess
    Txns, Fields, Cooling, Valid, Offered, Default, Amounts, MaxTime,    \* PolicySettings
    Requests, Codes, MaxAttempts, MaxIssues,                             \* OneTimeCode
    Orgs, Threshold, MaxMovements, MaxRuns                               \* Reconciliation

VARIABLES
    part,
    org, exists, role, enabled, must, password, token, now, orgLock, admin, changing,
    proof, chose,
    settings, floor, hour, txn, audit, overtaken,
    faults, cooldown, daily, lapses, code, attempts, issue, count, stored, guessed, today,
    mine, compared, accepted,
    wallet, cash, inflight, arrived, moved, runs, prev, job, still, drifts, strays, known

accessVars == <<org, exists, role, enabled, must, password, token, now, orgLock, admin,
                changing, proof, chose>>
policyVars == <<settings, floor, hour, txn, audit, overtaken>>
codeVars == <<faults, cooldown, daily, lapses, code, attempts, issue, count, stored,
              guessed, today, mine, compared, accepted>>
reconVars == <<wallet, cash, inflight, arrived, moved, runs, prev, job, still, drifts,
               strays, known>>
accountVars == <<part, accessVars, vars, policyVars, codeVars, reconVars>>

-----------------------------------------------------------------------------
Access == INSTANCE EmployerAccess WITH active <- enabled, lock <- orgLock

Policy == INSTANCE PolicySettings WITH row <- settings, now <- hour

Code == INSTANCE OneTimeCode WITH pc <- issue

Recon == INSTANCE Reconciliation

ASSUME AccountsConstants ==
    /\ Access!EmployerAccessConstants
    /\ Policy!PolicySettingsConstants
    /\ Code!OneTimeCodeConstants
    /\ Recon!ReconciliationConstants /\ IsFiniteSet(Orgs)

-----------------------------------------------------------------------------
AccountInit ==
    /\ part \in {"admins", "sessions", "employee", "policy", "code", "recon"}
    /\ Access!Init
    /\ Init
    /\ Policy!Init
    /\ Code!Init /\ (part # "code" => ~ faults)
    /\ Recon!Init

\* Several people while the clock stands still.
AdminsStep == Access!Next /\ now' = now

\* The first admin alone.
SessionsStep == Access!Next /\ \A p \in People \ {First} : ~ exists'[p]

AccountNext ==
    /\ UNCHANGED part
    /\ \/ /\ part = "admins" /\ AdminsStep
          /\ UNCHANGED <<vars, policyVars, codeVars, reconVars>>
       \/ /\ part = "sessions" /\ SessionsStep
          /\ UNCHANGED <<vars, policyVars, codeVars, reconVars>>
       \/ /\ part = "employee" /\ Next
          /\ UNCHANGED <<accessVars, policyVars, codeVars, reconVars>>
       \/ /\ part = "policy" /\ Policy!Next
          /\ UNCHANGED <<accessVars, vars, codeVars, reconVars>>
       \/ /\ part = "code" /\ Code!Next
          /\ UNCHANGED <<accessVars, vars, policyVars, reconVars>>
       \/ /\ part = "recon" /\ Recon!Next
          /\ UNCHANGED <<accessVars, vars, policyVars, codeVars>>

AccountSpec == AccountInit /\ [][AccountNext]_accountVars

-----------------------------------------------------------------------------
(* Properties of the other parts, each stated in full in its module. *)

\* EmployerUserService.Update never leaves an organization without an active admin.
AdminRemains == Access!AdminRemains

\* A session is no longer and no wider than the password behind it (RefreshToken,
\* ResetPassword), among several people and over time.
SessionInv == Access!SessionInv

\* Of overlapping updates of a policy or a protected payday, the first to commit alters
\* what it carries and waits its time; what a later one undoes shows in the audit trail.
PolicyChangesStand ==
    []Policy!TypeOK /\ Policy!ChangesInTimeStand /\ Policy!UndoingShows

\* A phone's keys hold one use of a code, its guesses and the day's codes (Issue,
\* verifyScript), whatever lapses or fails first.
CodeWithinLimits == Code!CodeWithinLimits

\* The passes of ReconcileWallets report what moved untracked, and alert on it.
ReportsTellStrays == [](Recon!TypeOK /\ Recon!DriftsAddUp) /\ Recon!AlertTellsStrays
=============================================================================
