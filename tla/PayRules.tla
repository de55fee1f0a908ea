------------------------------ MODULE PayRules ------------------------------
(***************************************************************************)
(* The rules that put a figure or a date before a worker: the allowance of *)
(* early pay, the dependency score, bills against payday, the predicted    *)
(* payday, hourly pay and the arithmetic under them.  They share no state; *)
(* a behaviour is one of a single part, chosen at the start, while the     *)
(* others stand still.  "month" and "saver" are two sides of early pay,    *)
(* "habit" and "heavy" two habits of drawing.  The variables of the        *)
(* arithmetic, and its properties, are those of Money itself.              *)
(***************************************************************************)
EXTENDS Money

CONSTANTS
    Days, LastDay, Salary, MaxAccrualPct, AbsoluteCap, MinDraw,          \* EarlyPay
    EmergencyFloor, CoolingOff, MaxDraws, Draws, MaxAdvance,
    ProtectedFloors, Savings,
    Habits, HeavyHabits, Revoked, Caps, Floors,                          \* Dependency
    Lengths, Recordable, MaxAvailable,                                   \* BillTiming
    SweepDays, Postings, Movements, MaxMoves, Lookback,                  \* PaydaySweep
    MinInterval, MaxInterval,
    Employees, Entries, Owner, WorkDay, Minutes, Legacy,                 \* TimeEntry
    MaxMinutesPerDay, WorkDates, WeekOf, Periods, PeriodEnd, Thresholds, Clients

VARIABLES
    part,
    day, advances, floor, savings, paid, payslip, shown, debt, early,
    limit, share, draws, payweek, quiet, peak,
    today, bills, removed, available,
    date, account, swept, foretold, debit,
    status, paidBy, active, workday, threshold, request, run, created, item

payVars == <<day, advances, floor, savings, paid, payslip, shown, debt, early>>
scoreVars == <<limit, share, draws, payweek, quiet, peak>>
billVars == <<today, bills, removed, available>>
sweepVars == <<date, account, swept, foretold, debit>>
hoursVars == <<status, paidBy, active, workday, threshold, request, run, created, item>>
ruleVars == <<part, payVars, scoreVars, billVars, sweepVars, hoursVars, vars>>

-----------------------------------------------------------------------------
Pay == INSTANCE EarlyPay WITH Amounts <- Draws

Habit == INSTANCE Dependency WITH Habits <- Habits \cup HeavyHabits

Bill == INSTANCE BillTiming WITH Bills <- Recordable

Payday == INSTANCE PaydaySweep WITH Days <- SweepDays, day <- date

Hours == INSTANCE TimeEntry WITH Days <- WorkDates, Requests <- Clients, today <- workday

ASSUME PayRulesConstants ==
    /\ MoneyConstants /\ 0 \in Amounts
    /\ Pay!EarlyPayConstants
    /\ Habit!DependencyConstants
    /\ Bill!BillTimingConstants
    /\ Payday!PaydaySweepConstants
    /\ Hours!TimeConstants

-----------------------------------------------------------------------------
\* Where a part stands still it has one initial state.
RulesInit ==
    /\ part \in {"month", "saver", "habit", "heavy", "bills", "payday", "hours", "money"}
    /\ Pay!Init /\ early = (part = "saver")
    /\ Habit!Init
    /\ CASE part = "habit" -> <<limit, share>> \in Habits
         [] part = "heavy" -> <<limit, share>> \in HeavyHabits
         [] OTHER -> <<limit, share>> = CHOOSE h \in Habits : TRUE
    /\ Bill!Init /\ (part # "bills" => available = 0)
    /\ Payday!Init
    /\ Hours!Init
    /\ part # "hours" => /\ workday = CHOOSE d \in WorkDates : \A e \in Legacy : WorkDay[e] <= d
                         /\ threshold = CHOOSE t \in Thresholds : TRUE
    /\ Init /\ (part # "money" => call = [op |-> "add", k |-> 0, other |-> 0])

\* A worker who does not save, paid after each period.
MonthStep == Pay!Next /\ savings' = savings

\* A worker who saves, in a first period that may be paid before it is over.
SaverStep == Pay!Next /\ day' <= Days /\ floor' = floor

\* A worker who in a month draws up to the limit or not at all, and takes nothing back.
HeavyStep ==
    \/ Habit!Draw
    \/ (payweek \/ Habit!ThisMonth \in {0, limit}) /\ Habit!Wait

RulesNext ==
    /\ UNCHANGED part
    /\ \/ /\ \/ part = "month" /\ MonthStep
             \/ part = "saver" /\ SaverStep
          /\ UNCHANGED <<scoreVars, billVars, sweepVars, hoursVars, vars>>
       \/ /\ \/ part = "habit" /\ Habit!Next
             \/ part = "heavy" /\ HeavyStep
          /\ UNCHANGED <<payVars, billVars, sweepVars, hoursVars, vars>>
       \/ /\ part = "bills" /\ Bill!Next
          /\ UNCHANGED <<payVars, scoreVars, sweepVars, hoursVars, vars>>
       \/ /\ part = "payday" /\ Payday!Next
          /\ UNCHANGED <<payVars, scoreVars, billVars, hoursVars, vars>>
       \/ /\ part = "hours" /\ Hours!Next
          /\ UNCHANGED <<payVars, scoreVars, billVars, sweepVars, vars>>
       \/ /\ part = "money" /\ Return
          /\ UNCHANGED <<payVars, scoreVars, billVars, sweepVars, hoursVars>>

RulesSpec == RulesInit /\ [][RulesNext]_ruleVars

-----------------------------------------------------------------------------
(* Properties of the other parts, each stated in full in its module. *)

\* eligibilityTx and CreatePayroll: advances are drawn on wages earned and not yet
\* paid, and what is withheld for savings leaves something to pay.
DrawsLeavePay == Pay!DrawsLeavePay

\* The protected payday a worker set, and the payday GetEligibility projected, land.
PaydayLands == Pay!FloorReachesPayday /\ Pay!PlainProjectionLands

\* ScoreDependency tells habits apart, and one more draw never widens what TierCap
\* leaves open.
ScoreTellsHabits == []Habit!ScoreTellsHabits /\ Habit!DrawNarrowsAccess

\* GetBillTimingPlan: due dates are the next ones and stand, and what is shown as
\* coverable is covered together.
BillPlanHolds == [](Bill!DueIsNext /\ Bill!PlanFits) /\ Bill!DateStands

\* PredictNextPayday rests on one class of pays in any order, and no debit comes
\* before a whole cycle has passed.
PredictionIsSound ==
    [](Payday!ClusterIsAClass /\ Payday!OrderDoesNotMatter) /\ Payday!DebitWaitsACycle

\* A worker's approved hours fit the day, are paid by one item and for good, at
\* overtime wherever in the week the threshold was reached.
HoursPaidOnce ==
    /\ [](Hours!TypeOK /\ Hours!ApprovedDayFits /\ Hours!ItemPaysItsEntries)
    /\ Hours!WeekCountsAcrossRuns /\ Hours!PaidIsFinal
=============================================================================
