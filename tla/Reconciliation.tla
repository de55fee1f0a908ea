--------------------------- MODULE Reconciliation ---------------------------
(***************************************************************************)
(* The reconciliation job beside the movements it compares.  The ledger's  *)
(* cash_settlement moves when an advance or grant is approved, the wallet  *)
(* when it is paid; a deposit reaches the wallet first and the ledger with *)
(* the webhook.  The job reads the wallet, then one organization after     *)
(* another, each in a transaction of its own, while all this goes on.      *)
(*                                                                         *)
(* Every movement is of one unit: a run only adds and compares.            *)
(***************************************************************************)
EXTENDS Integers

CONSTANTS
    Orgs,
    Threshold,      \* drift beyond which a run alerts
    MaxMovements,   \* bound on the movements begun
    MaxRuns         \* bound on the runs recorded

ReconciliationConstants == {Threshold, MaxMovements, MaxRuns} \subseteq Nat

NoRun == [wallet |-> 0, total |-> 0, drift |-> 0, alerted |-> FALSE, first |-> TRUE]
NoJob == [pc |-> "idle", wallet |-> 0, left |-> {}, total |-> 0]

VARIABLES
    wallet,    \* the balance of the source wallet
    cash,      \* cash[o]: the ledger's cash_settlement, credit-normal
    inflight,  \* inflight[o]: approved and booked, not yet paid
    arrived,   \* arrived[o]: deposits in the wallet, not yet booked
    moved,     \* movements begun
    runs,      \* runs recorded
    prev,      \* the last of them
    job,       \* the pass under way
    \* History: whether the pass has seen everything at rest, drifts reported and
    \* untracked movements since the last pass that had, and both at that pass.
    still, drifts, strays, known

books == <<wallet, cash, inflight, arrived, moved>>
history == <<still, drifts, strays, known>>
vars == <<books, runs, prev, job, history>>

\* Balances and amounts are numbers, and a pass reads each organization once.
TypeOK ==
    /\ wallet \in Int /\ cash \in [Orgs -> Int]
    /\ inflight \in [Orgs -> Nat] /\ arrived \in [Orgs -> Nat]
    /\ moved \in 0 .. MaxMovements /\ runs \in 0 .. MaxRuns
    /\ prev \in [wallet: Int, total: Int, drift: Int, alerted: BOOLEAN, first: BOOLEAN]
    /\ prev.first => ~prev.alerted
    /\ job \in [pc: {"idle", "reading"}, wallet: Int, left: SUBSET Orgs, total: Int]
    /\ still \in BOOLEAN /\ {drifts, strays, known.drift, known.stray} \subseteq Int
    /\ known.made \in BOOLEAN

Init ==
    /\ wallet = 0 /\ moved = 0 /\ runs = 0
    /\ cash = [o \in Orgs |-> 0]
    /\ inflight = [o \in Orgs |-> 0] /\ arrived = [o \in Orgs |-> 0]
    /\ prev = NoRun /\ job = NoJob
    /\ still = FALSE /\ drifts = 0 /\ strays = 0
    /\ known = [made |-> FALSE, drift |-> 0, stray |-> 0]

-----------------------------------------------------------------------------
(* The movements. *)
AtRest == \A o \in Orgs : inflight[o] = 0 /\ arrived[o] = 0

Move == moved < MaxMovements /\ moved' = moved + 1

\* postAdvanceLedger, with the approval; hardship grants do the same.
Approve(o) ==
    /\ Move
    /\ cash' = [cash EXCEPT ![o] = @ + 1]
    /\ inflight' = [inflight EXCEPT ![o] = @ + 1]
    /\ UNCHANGED <<wallet, arrived>>

PayOut(o) ==
    /\ inflight[o] > 0
    /\ wallet' = wallet - 1
    /\ inflight' = [inflight EXCEPT ![o] = @ - 1]
    /\ UNCHANGED <<cash, arrived, moved>>

\* CancelAdvance: the payout failed or was cancelled, its posting is reversed.
Reverse(o) ==
    /\ inflight[o] > 0
    /\ cash' = [cash EXCEPT ![o] = @ - 1]
    /\ inflight' = [inflight EXCEPT ![o] = @ - 1]
    /\ UNCHANGED <<wallet, arrived, moved>>

Deposit(o) ==
    /\ Move
    /\ wallet' = wallet + 1
    /\ arrived' = [arrived EXCEPT ![o] = @ + 1]
    /\ UNCHANGED <<cash, inflight>>

\* RecordEmployerFunding, from the webhook.
BookDeposit(o) ==
    /\ arrived[o] > 0
    /\ cash' = [cash EXCEPT ![o] = @ - 1]
    /\ arrived' = [arrived EXCEPT ![o] = @ - 1]
    /\ UNCHANGED <<wallet, inflight, moved>>

Movement ==
    /\ \E o \in Orgs : Approve(o) \/ PayOut(o) \/ Reverse(o) \/ Deposit(o) \/ BookDeposit(o)
    /\ still' = FALSE
    /\ UNCHANGED <<runs, prev, job, drifts, strays, known>>

\* A payroll sent from the same wallet, a fee, a transfer by hand.
Untracked(x) ==
    /\ Move
    /\ wallet' = wallet + x
    /\ strays' = strays + x
    /\ still' = FALSE
    /\ UNCHANGED <<cash, inflight, arrived, runs, prev, job, drifts, known>>

-----------------------------------------------------------------------------
(* Run. *)
ReadWallet ==
    /\ job.pc = "idle" /\ runs < MaxRuns
    /\ job' = [pc |-> "reading", wallet |-> wallet, left |-> Orgs, total |-> 0]
    /\ still' = AtRest
    /\ UNCHANGED <<books, runs, prev, drifts, strays, known>>

\* sumCashSettlement, one organization.
ReadOrg(o) ==
    /\ o \in job.left
    /\ job' = [job EXCEPT !.left = @ \ {o}, !.total = @ + cash[o]]
    /\ UNCHANGED <<books, runs, prev, history>>

\* One failing read fails the whole run.
OrgFails(o) ==
    /\ o \in job.left
    /\ job' = NoJob
    /\ still' = FALSE
    /\ UNCHANGED <<books, runs, prev, drifts, strays, known>>

Drift == (job.wallet - prev.wallet) + (job.total - prev.total)

\* Bug: only money missing alerts.
MutAlerts(d) == d < -Threshold

Alerts(d) == (IF d < 0 THEN -d ELSE d) > Threshold

\* The first run has nothing to compare with, and does not alert.
Recorded ==
    LET d == IF runs = 0 THEN 0 ELSE Drift IN
    [wallet |-> job.wallet, total |-> job.total, drift |-> d,
     alerted |-> runs > 0 /\ Alerts(d), first |-> runs = 0]

Record ==
    /\ job.pc = "reading" /\ job.left = {}
    /\ prev' = Recorded
    /\ runs' = runs + 1
    /\ job' = NoJob
    /\ IF still
       THEN /\ known' = IF known.made THEN [made |-> TRUE, drift |-> drifts + Recorded.drift,
                                            stray |-> strays]
                        ELSE [known EXCEPT !.made = TRUE]
            /\ drifts' = 0 /\ strays' = 0
       ELSE /\ drifts' = drifts + Recorded.drift
            /\ UNCHANGED <<known, strays>>
    /\ still' = FALSE
    /\ UNCHANGED books

Next ==
    \/ Movement
    \/ \E x \in {-1, 1} : Untracked(x)
    \/ ReadWallet
    \/ \E o \in Orgs : ReadOrg(o) \/ OrgFails(o)
    \/ Record

Spec == Init /\ [][Next]_vars

-----------------------------------------------------------------------------
(* Properties *)

\* Between two passes that found everything at rest, the drifts reported, by them
\* and by every pass in between however skewed, add up to the untracked
\* movements: no pass loses or invents any.
DriftsAddUp == known.drift = known.stray

AlertIsRight ==
    (job.pc = "reading" /\ still /\ runs' > runs /\ known.made /\ drifts = 0)
        => prev'.alerted = (strays < -Threshold \/ strays > Threshold)

\* A run that saw everything at rest, after one that had, alerts exactly when
\* more than the threshold moved untracked, in or out.
AlertTellsStrays == [][AlertIsRight]_vars
=============================================================================
