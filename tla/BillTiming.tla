----------------------------- MODULE BillTiming -----------------------------
(***************************************************************************)
(* A worker's recurring bills laid out against the next payday.  A bill    *)
(* falls on its due day of every month, or on the last day of a shorter    *)
(* one; payday is the last day of the month; the bills due before it share *)
(* what the worker could draw today, soonest first.                        *)
(*                                                                         *)
(* A date is <<month, day>>.  What can be drawn (see EarlyPay) is any      *)
(* amount on any day.  Bills due on the same day are taken in any order:   *)
(* the rows come unordered and the sort is not stable.                     *)
(***************************************************************************)
EXTENDS Integers, Sequences, SequencesExt, FiniteSetsExt

CONSTANTS
    Lengths,     \* the lengths of consecutive months
    Bills,       \* bills the worker may record: [id, amount, due]
    MaxAvailable \* bound on what can be drawn

BillTimingConstants ==
    /\ Lengths \in Seq(28 .. 31) /\ Len(Lengths) > 1
    /\ \A b \in Bills : b.amount \in Nat \ {0} /\ b.due \in 1 .. 31
    /\ MaxAvailable \in Nat

VARIABLES
    today,      \* asOf
    bills,      \* the active bills
    removed,    \* the ones no longer active
    available   \* Eligibility.Available

vars == <<today, bills, removed, available>>

\* The last month is only there for bills that fall into it.
Dates == {d \in (1 .. Len(Lengths)) \X (1 .. 31) : d[2] <= Lengths[d[1]]}
Before(c, d) == c[1] < d[1] \/ (c[1] = d[1] /\ c[2] < d[2])

-----------------------------------------------------------------------------
(* nextBillDueDate. *)

\* The day a bill falls on in a month.
DueIn(m, due) == Min({due, Lengths[m]})

Passed(m, due) == DueIn(m, due) < today[2]

nextBillDueDate(due) ==
    LET m == today[1] IN
    IF Passed(m, due) THEN <<m + 1, DueIn(m + 1, due)>> ELSE <<m, DueIn(m, due)>>

-----------------------------------------------------------------------------
(* GetBillTimingPlan. *)
\* Bug: payday is thirty days away.
MutNextPayday ==
    LET d == today[2] + 30  n == Lengths[today[1]]
    IN  IF d > n THEN <<today[1] + 1, d - n>> ELSE <<today[1], d>>

NextPayday == <<today[1], Lengths[today[1]]>>

Mismatched(b) == Before(nextBillDueDate(b.due), NextPayday)

\* The bills, soonest due first.
Orders ==
    {s \in SetToSeqs(bills) :
        \A i, j \in DOMAIN s :
            Before(nextBillDueDate(s[i].due), nextBillDueDate(s[j].due)) => i < j}

\* One turn of the loop: a bill due before payday that fits in what is left.
Cover(b, plan) ==
    IF Mismatched(b) /\ b.amount <= plan.left
    THEN [plan EXCEPT !.coverable = @ \cup {b}, !.left = @ - b.amount]
    ELSE plan

Plan(s) ==
    FoldLeft(LAMBDA plan, b : Cover(b, plan), [coverable |-> {}, left |-> available], s)

-----------------------------------------------------------------------------
Init ==
    /\ today = <<1, 1>>
    /\ bills = {} /\ removed = {}
    /\ available \in 0 .. MaxAvailable

AddBill(b) ==
    /\ b \notin bills \cup removed
    /\ bills' = bills \cup {b}
    /\ UNCHANGED <<today, removed, available>>

RemoveBill(b) ==
    /\ b \in bills
    /\ bills' = bills \ {b}
    /\ removed' = removed \cup {b}
    /\ UNCHANGED <<today, available>>

NextDay ==
    /\ IF today[2] < Lengths[today[1]]
       THEN today' = <<today[1], today[2] + 1>>
       ELSE today[1] + 1 < Len(Lengths) /\ today' = <<today[1] + 1, 1>>
    /\ available' \in 0 .. MaxAvailable
    /\ UNCHANGED <<bills, removed>>

Next ==
    \/ NextDay
    \/ \E b \in Bills : AddBill(b) \/ RemoveBill(b)

Spec == Init /\ [][Next]_vars

-----------------------------------------------------------------------------
(* Properties *)

Falls(d, due) == d[2] = due \/ (d[2] < due /\ d[2] = Lengths[d[1]])

\* nextBillDueDate is the first day from today on which the bill falls, through
\* months of any length.
DueIsNext ==
    \A b \in bills :
        LET due == nextBillDueDate(b.due) IN
        /\ Falls(due, b.due) /\ ~Before(due, today)
        /\ \A d \in Dates : Falls(d, b.due) /\ ~Before(d, today) => ~Before(d, due)

Stands ==
    \A b \in bills \cap bills' :
        LET due == nextBillDueDate(b.due) IN
        ~Before(due, today') => /\ nextBillDueDate(b.due)' = due
                                /\ today'[1] = today[1] => Mismatched(b)' = Mismatched(b)

\* A date shown to the worker stands until it is over: the passing of days alone
\* neither moves it nor makes a gap before payday appear or close.
DateStands == [][Stands]_vars

\* In whatever order bills of one day are taken: the coverable bills fit together in
\* what can be drawn, and each other bill due before payday does not fit even in
\* what they leave.
PlanFits ==
    \A s \in Orders :
        LET plan == Plan(s) IN
        /\ MapThenSumSet(LAMBDA b : b.amount, plan.coverable) + plan.left = available
        /\ plan.left >= 0
        /\ \A b \in bills \ plan.coverable : Mismatched(b) => b.amount > plan.left
=============================================================================
