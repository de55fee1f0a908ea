------------------------------ MODULE EarlyPay ------------------------------
(***************************************************************************)
(* Early pay as one salaried worker meets it: wages accrue by working day, *)
(* eligibility turns them into an allowance, the worker keeps part of      *)
(* payday out of reach and saves part of it, and payroll lands what is     *)
(* left.  The amounts of a decision are modelled here; how a payout is     *)
(* sent, confirmed and booked is WageAdvance's.                            *)
(*                                                                         *)
(* Every transaction that reads advances to decide on them holds the       *)
(* organization's lock, so each is one step.  A request that is declined   *)
(* changes nothing eligibility reads, and is not a step.  The dependency   *)
(* tier (see Dependency) is any of the four at each decision.              *)
(***************************************************************************)
EXTENDS DependencyTiers, Sequences, SequencesExt

CONSTANTS
    Days,           \* working days in a period
    LastDay,        \* bound: working days that pass
    Salary,         \* employees.salary
    MaxAccrualPct, AbsoluteCap, MinDraw, EmergencyFloor, CoolingOff, MaxDraws,
                    \* EWAPolicy; CoolingOff in days
    Amounts,        \* amounts asked for
    MaxAdvance,     \* bound: advances
    ProtectedFloors,\* protected paydays a worker sets
    Savings         \* savings preferences a worker sets

Off == [mode |-> "off"]
Percents(S) == [mode : {"fixed_percent"}, amount : S]
RoundUps(S) == [mode : {"round_up"}, amount : S]

EarlyPayConstants ==
    /\ Days \in Nat \ {0}
    /\ LastDay \in Nat
    /\ Salary \in Nat \ {0}
    /\ MaxAccrualPct \in 1 .. 100
    /\ {AbsoluteCap, MinDraw, EmergencyFloor, CoolingOff, MaxDraws, MaxAdvance} \subseteq Nat
    /\ Amounts \subseteq Nat \ {0}
    /\ ProtectedFloors \subseteq Nat
    /\ Savings \subseteq {Off} \cup Percents(1 .. 90) \cup RoundUps(Nat \ {0})

VARIABLES
    day,       \* working days since the first period began
    advances,  \* approved advances, in the order they were requested
    floor,     \* ewa_worker_preferences: the protected payday and when it was set
    savings,   \* ewa_savings_preferences
    paid,      \* periods whose payroll has run
    payslip,   \* the last payroll item: withheld, saved and net
    shown,     \* the projection last shown to the worker, until they draw again
    debt,      \* history: what was outstanding when the floor was last set
    early      \* whether the employer may run payroll before the period is over

vars == <<day, advances, floor, savings, paid, payslip, shown, debt, early>>

Period == day \div Days + 1
None == [period |-> 0]
Slots == DOMAIN advances

TypeOK ==
    /\ day \in 0 .. LastDay
    /\ advances \in Seq([amount : Amounts, day : 0 .. LastDay, period : Nat, recovered : Nat,
                         status : {"approved", "disbursed", "settled", "cancelled"}])
    /\ Len(advances) <= MaxAdvance
    /\ floor \in [amount : ProtectedFloors \cup {0}, at : -1 .. LastDay]
    /\ savings \in Savings \cup {Off}
    /\ \A p \in paid : p \in 1 .. Period
    /\ payslip \in [withheld : 0 .. Salary, saved : 0 .. Salary, net : 0 .. Salary]
    /\ shown = None \/ shown \in [period : 1 .. Period, projected : Nat, pending : BOOLEAN,
                                  savings : Savings \cup {Off}]
    /\ debt \in Nat
    /\ early \in BOOLEAN

-----------------------------------------------------------------------------
(* eligibilityTx.                                                          *)

\* Mutant: the day in progress counts as worked.
MutAccruedToDate == PercentOf(Salary, (day % Days) + 1, Days)

\* Straight-line over working days; today is earned once it is over.
AccruedToDate == PercentOf(Salary, day % Days, Days)

PolicyCap == Min({PercentOf(AccruedToDate, MaxAccrualPct, 100), AbsoluteCap})

Remaining(a) == a.amount - a.recovered

SumOver(S) == MapThenSumSet(LAMBDA i : Remaining(advances[i]), S)

Open == {i \in Slots : advances[i].status \in {"approved", "disbursed"}}
Disbursed == {i \in Slots : advances[i].status = "disbursed"}

\* outstandingTx: open debt of any period, and this period's own draws.
Outstanding == SumOver(Open)
Recoverable == SumOver(Disbursed)
Drawn == {i \in Slots : advances[i].period = Period /\ advances[i].status # "cancelled"}

\* Mutant: the tier's allowance overrides the worker's floor.
MutAvailable(tier) ==
    Max({0, TierCap(tier, PolicyCap, EmergencyFloor) - Outstanding})

\* What the tier leaves of the policy's cap, and the worker's own floor over all.
Available(tier) ==
    LET left == Max({0, TierCap(tier, PolicyCap, EmergencyFloor) - Outstanding})
        headroom == Max({0, Max({0, Salary - floor.amount}) - Outstanding})
    IN  IF floor.amount > 0 THEN Min({left, headroom}) ELSE left

\* The velocity guardrails, which start afresh with each period.
Rested(tier) ==
    /\ Cardinality(Drawn) < MaxDraws
    /\ \A i \in Drawn : day >= advances[i].day + CoolingOff * TierCoolingOff(tier)

Projected == Max({0, Salary - Recoverable})

-----------------------------------------------------------------------------
Init ==
    /\ day = 0
    /\ advances = <<>>
    /\ floor = [amount |-> 0, at |-> -1]
    /\ savings = Off
    /\ paid = {}
    /\ payslip = [withheld |-> 0, saved |-> 0, net |-> 0]
    /\ shown = None
    /\ debt = 0
    /\ early \in BOOLEAN

NextDay ==
    /\ day < LastDay
    /\ day' = day + 1
    /\ UNCHANGED <<advances, floor, savings, paid, payslip, shown, debt>>

\* GetEligibility: the worker is shown what will land on payday.
GetEligibility ==
    /\ shown' = [period |-> Period, projected |-> Projected, pending |-> Open # Disbursed,
                  savings |-> savings]
    /\ UNCHANGED <<day, advances, floor, savings, paid, payslip, debt>>

RequestAdvance(x, tier) ==
    /\ Len(advances) < MaxAdvance
    /\ Rested(tier)
    /\ x >= MinDraw
    /\ x <= Available(tier)
    /\ advances' = Append(advances, [amount |-> x, day |-> day, period |-> Period,
                                     recovered |-> 0, status |-> "approved"])
    /\ shown' = None
    /\ UNCHANGED <<day, floor, savings, paid, payslip, debt>>

\* The provider confirms the payout, or it fails.
Resolve(i, to) ==
    /\ advances[i].status = "approved"
    /\ advances' = [advances EXCEPT ![i].status = to]
    /\ UNCHANGED <<day, floor, savings, paid, payslip, shown, debt>>

\* Raised at once, lowered only after the cooling-off period.
SetProtectedPayday(f) ==
    /\ f < floor.amount /\ floor.at >= 0 => day >= floor.at + CoolingOff
    /\ floor' = [amount |-> f, at |-> day]
    /\ debt' = Outstanding
    /\ UNCHANGED <<day, advances, savings, paid, payslip, shown>>

SetSavingsPreference(s) ==
    /\ savings' = s
    /\ UNCHANGED <<day, advances, floor, paid, payslip, shown, debt>>

-----------------------------------------------------------------------------
(* CreatePayroll, for this worker.                                         *)

\* SettleAdvancesForPayrollItem: what is withheld for advance i out of the
\* gross pay, older ones first.
Due(p) == {i \in Disbursed : advances[i].period <= p}

Portion(p, i) ==
    IF i \notin Due(p) THEN 0
    ELSE Min({Remaining(advances[i]),
              Max({0, Salary - SumOver({j \in Due(p) : j < i})})})

Settled(p, i) ==
    LET a == advances[i]
        got == a.recovered + Portion(p, i)
    IN  IF a.status = "approved" /\ a.period <= p THEN [a EXCEPT !.status = "cancelled"]
        ELSE IF i \in Due(p)
        THEN [a EXCEPT !.recovered = got,
                       !.status = IF got >= a.amount THEN "settled" ELSE @]
        ELSE a

\* How far the pay falls short of the next multiple of the unit.
roundUpDelta(net, unit) == IF net % unit = 0 THEN 0 ELSE unit - (net % unit)

\* DivertSavingsForPayrollItem: nothing at all when it would take everything.
Diverted(net) ==
    LET amount == CASE savings.mode = "fixed_percent" -> PercentOf(net, savings.amount, 100)
                    [] savings.mode = "round_up" -> roundUpDelta(net, savings.amount)
                    [] OTHER -> 0
    IN  IF amount < net THEN amount ELSE 0

\* The lock, the settlement, the diversion and the item, in one transaction.
CreatePayroll(p) ==
    LET withheld == MapThenSumSet(LAMBDA i : Portion(p, i), Slots)
        saved == Diverted(Salary - withheld)
    IN
    /\ p \notin paid
    /\ p < Period \/ (early /\ p = Period)
    /\ paid' = paid \cup {p}
    /\ advances' = [i \in Slots |-> Settled(p, i)]
    /\ payslip' = [withheld |-> withheld, saved |-> saved, net |-> Salary - withheld - saved]
    /\ UNCHANGED <<day, floor, savings, shown, debt>>

Next ==
    /\ UNCHANGED early
    /\ \/ NextDay
       \/ GetEligibility
       \/ \E x \in Amounts, tier \in 1 .. 4 : RequestAdvance(x, tier)
       \/ \E i \in Slots, to \in {"disbursed", "cancelled"} : Resolve(i, to)
       \/ \E f \in ProtectedFloors : SetProtectedPayday(f)
       \/ \E s \in Savings : SetSavingsPreference(s)
       \/ \E p \in 1 .. Period : CreatePayroll(p)

Spec == Init /\ [][Next]_vars

-----------------------------------------------------------------------------
Payrolls == 1 .. Period
Unpaid == {p \in 1 .. Period - 1 : p \notin paid}

\* Advances are limited to wages already earned and not yet paid: no credit is
\* extended, across periods, late payrolls and any order of payouts.
WithinUnpaidWages ==
    Outstanding <= Salary * Cardinality(Unpaid)
                   + (IF Period \in paid THEN 0 ELSE PercentOf(Salary, day % Days, Days))

FloorLands ==
    \A p \in Payrolls :
        CreatePayroll(p) => Salary - payslip'.withheld >= Min({floor.amount, Salary - debt})

\* The protected payday holds at payroll: before savings, at least the floor
\* lands, or what was left when the worker set it.
FloorReachesPayday == [][FloorLands]_vars

\* Savings never leave a worker with nothing on payday.
SavingsLeavePay == payslip.saved > 0 => payslip.net > 0

AsProjected ==
    \A p \in Payrolls :
        CreatePayroll(p) /\ shown.period = p /\ ~ shown.pending /\ savings = Off
            => payslip'.net >= shown.projected

\* With nothing under way when the worker looked, and no savings, ProjectedPayday
\* lands if nothing further is drawn, whatever payrolls ran in between.  (With a
\* payout under way, or with savings, less may land than was shown.)
PlainProjectionLands == [][AsProjected]_vars

\* The wages drawn on are earned and unpaid unless the employer pays before the period
\* is over, and savings leave some of what is left (eligibilityTx, CreatePayroll).
DrawsLeavePay ==
    TypeOK /\ (early \/ WithinUnpaidWages) /\ SavingsLeavePay
=============================================================================
