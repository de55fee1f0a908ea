----------------------------- MODULE TimeEntry -----------------------------
(***************************************************************************)
(* Hours of hourly workers: a worker claims minutes for a date, an admin   *)
(* approves or rejects the claim, and the payroll run pays every approved  *)
(* entry no run has paid before, splitting each ISO week's minutes at the  *)
(* overtime threshold.                                                     *)
(*                                                                         *)
(* A request is a transaction of several statements: what it reads before  *)
(* it holds the lock on the worker's day, and what it reads and writes     *)
(* under the lock.  The payroll run holds the organization's lock; it      *)
(* reads each worker's entries in a statement of its own and commits them  *)
(* all at once.                                                            *)
(***************************************************************************)
EXTENDS Integers, FiniteSets, SequencesExt

CONSTANTS
    Employees,         \* hourly workers
    Entries,           \* time entries that may ever be submitted
    Owner,             \* time_entries.employee_id
    WorkDay,           \* time_entries.work_date
    Minutes,           \* time_entries.minutes_worked
    Legacy,            \* pending entries older than the check at submission
    MaxMinutesPerDay,  \* maxMinutesPerEntry
    Days,              \* bound: the dates of the model, 1 .. n
    WeekOf,            \* ISO week of a date
    Periods,           \* bound: the payroll periods of the model, 1 .. n
    PeriodEnd,         \* first date after the period
    Thresholds,        \* values an admin may give the overtime threshold
    Requests           \* requests served at the same time

TimeConstants ==
    /\ IsFiniteSet(Entries)
    /\ Owner \in [Entries -> Employees]
    /\ WorkDay \in [Entries -> Days]
    /\ Minutes \in [Entries -> Nat]
    /\ Legacy \subseteq Entries
    /\ MaxMinutesPerDay \in Nat
    /\ Days \subseteq Nat /\ IsFiniteSet(Days)
    /\ DOMAIN WeekOf = Days
    /\ Periods \subseteq Nat \ {0}
    /\ PeriodEnd \in [Periods -> Nat]
    /\ Thresholds \subseteq Nat \ {0} /\ Thresholds # {}

VARIABLES
    status,     \* time_entries.status; "none" before the insert
    paidBy,     \* the period whose item is in paid_payroll_item_id, 0 for NULL
    active,     \* employees.is_active
    today,      \* the date
    threshold,  \* payroll_policies.overtime_threshold_minutes_per_week
    request,    \* each request in progress
    run,        \* the payroll run that holds the organization's lock
    created,    \* the periods whose payroll is committed; unique per organization
    item        \* the payroll item of each period and worker

payVars == <<paidBy, run, created, item>>
world == <<active, today, threshold>>
vars == <<status, request, paidBy, run, created, item, active, today, threshold>>

Idle == [pc |-> "idle"]
NoItem == [regular |-> 0, overtime |-> 0]
Item == [regular : Nat, overtime : Nat]
Request ==
    [pc : {"read", "locked"}, op : {"submit", "approve"}, entry : Entries,
     claimed : Nat]
\* What ComputeHourlyGross returned for a worker, and the threshold it read.
Breakdown == [entries : SUBSET Entries, pay : Item, threshold : Thresholds]
TypeOK ==
    /\ status \in [Entries -> {"none", "pending", "approved", "rejected"}]
    /\ paidBy \in [Entries -> Periods \cup {0}]
    /\ active \in [Employees -> BOOLEAN]
    /\ today \in Days
    /\ threshold \in Thresholds
    /\ \A r \in Requests : request[r] = Idle \/ request[r] \in Request
    /\ run.pc = "running" =>
          /\ run.period \in Periods
          /\ run.todo \subseteq Employees
          /\ \A w \in DOMAIN run.gross : run.gross[w] \in Breakdown
    /\ created \subseteq Periods
    /\ item \in [Periods -> [Employees -> Item]]

Init ==
    /\ status = [e \in Entries |-> IF e \in Legacy THEN "pending" ELSE "none"]
    /\ paidBy = [e \in Entries |-> 0]
    /\ active = [w \in Employees |-> TRUE]
    /\ today \in Days
    /\ \A e \in Legacy : WorkDay[e] <= today
    /\ threshold \in Thresholds
    /\ request = [r \in Requests |-> Idle]
    /\ run = Idle
    /\ created = {}
    /\ item = [n \in Periods |-> [w \in Employees |-> NoItem]]

MinutesOf(S) == MapThenSumSet(LAMBDA e : Minutes[e], S)

SameDay(e) == {f \in Entries : Owner[f] = Owner[e] /\ WorkDay[f] = WorkDay[e]}

\* dayMinutes: the minutes of the entry's worker and date in some statuses.
DayMinutes(e, statuses, excluded) ==
    MinutesOf({f \in SameDay(e) \ excluded : status[f] \in statuses})

\* lockEmployeeDay: no other transaction has locked the worker's date.
DayFree(e) ==
    \A r \in Requests : request[r].pc = "locked" => request[r].entry \notin SameDay(e)

-----------------------------------------------------------------------------
(* Requests (time_entry_service.go).                                       *)

Begin(r, op, e) ==
    /\ request[r] = Idle
    /\ request' = [request EXCEPT ![r] =
                     [pc |-> "read", op |-> op, entry |-> e, claimed |-> 0]]
    /\ UNCHANGED <<status, payVars, world>>

\* The checks before the lock: range, date, and a worker who is active.
SubmitRead(r, e) ==
    /\ status[e] = "none"
    /\ \A q \in Requests : request[q] # Idle => request[q].entry # e
    /\ Minutes[e] > 0 /\ Minutes[e] <= MaxMinutesPerDay
    /\ WorkDay[e] <= today
    /\ active[Owner[e]]
    /\ Begin(r, "submit", e)

\* The row is loaded; its status is not looked at.
ApproveRead(r, e) ==
    /\ status[e] # "none"
    /\ Begin(r, "approve", e)

\* The day is locked and its minutes summed: all claims for a submission, the
\* other approved entries for an approval.
LockDay(r) ==
    /\ request[r].pc = "read"
    /\ LET e == request[r].entry IN
       /\ DayFree(e)
       /\ request' = [request EXCEPT
             ![r].pc = "locked",
             ![r].claimed = IF request[r].op = "submit"
                            THEN DayMinutes(e, {"pending", "approved"}, {})
                            ELSE DayMinutes(e, {"approved"}, {e})]
    /\ UNCHANGED <<status, payVars, world>>

Fits(r) ==
    request[r].claimed + Minutes[request[r].entry] <= MaxMinutesPerDay

Finish(r) ==
    /\ request' = [request EXCEPT ![r] = Idle]
    /\ UNCHANGED <<payVars, world>>

SubmitTimeEntry(r) ==
    /\ request[r].pc = "locked" /\ request[r].op = "submit"
    /\ Fits(r)
    /\ status' = [status EXCEPT ![request[r].entry] = "pending"]
    /\ Finish(r)

\* TransitionTimeEntry: a compare-and-set on pending.
MayResolve(e) == status[e] = "pending"

ApproveTimeEntry(r) ==
    /\ request[r].pc = "locked" /\ request[r].op = "approve"
    /\ Fits(r)
    /\ MayResolve(request[r].entry)
    /\ status' = [status EXCEPT ![request[r].entry] = "approved"]
    /\ Finish(r)

\* Refused (a full day, an entry already resolved), failed or abandoned: the
\* transaction rolls back and its lock goes with it.
RequestRollsBack(r) ==
    /\ request[r] # Idle
    /\ status' = status
    /\ Finish(r)

\* Rejecting takes no lock; only the compare-and-set decides.
RejectTimeEntry(e) ==
    /\ MayResolve(e)
    /\ status' = [status EXCEPT ![e] = "rejected"]
    /\ UNCHANGED <<request, payVars, world>>

-----------------------------------------------------------------------------
(* Gross pay of hourly workers (hourly_pay_service.go).                    *)

Lesser(a, b) == IF a < b THEN a ELSE b

\* The period's end, and never a date that has not happened yet.
PeriodUpperBound(n) == Lesser(PeriodEnd[n], today + 1)

\* Only the entries of the period itself.
MutPeriodOnly(w, n) ==
    {e \in Entries : /\ Owner[e] = w
                     /\ status[e] = "approved"
                     /\ paidBy[e] = 0
                     /\ WorkDay[e] < PeriodUpperBound(n)
                     /\ \A m \in Periods : m < n => PeriodEnd[m] <= WorkDay[e]}

UnpaidApprovedEntriesThrough(w, n) ==
    {e \in Entries : /\ Owner[e] = w
                     /\ status[e] = "approved"
                     /\ paidBy[e] = 0
                     /\ WorkDay[e] < PeriodUpperBound(n)}

\* A week's overtime counted from zero in every run.
MutPaidMinutes(w, week) == 0

PaidMinutesInISOWeek(w, week) ==
    MinutesOf({e \in Entries : /\ Owner[e] = w
                               /\ status[e] = "approved"
                               /\ paidBy[e] # 0
                               /\ WeekOf[WorkDay[e]] = week})

Weeks == {WeekOf[d] : d \in Days}

\* One turn of the loop over the entries: the part of the entry below the
\* threshold is regular, the rest overtime, and the week's total grows.
AttributeEntry(limit, sofar, e) ==
    LET week == WeekOf[WorkDay[e]]
        before == sofar.week[week]
        regular == IF before >= limit THEN 0
                   ELSE Lesser(Minutes[e], limit - before)
    IN [week |-> [sofar.week EXCEPT ![week] = before + Minutes[e]],
        regular |-> sofar.regular + regular,
        overtime |-> sofar.overtime + Minutes[e] - regular]

\* Oldest first; entries of one date in some fixed order.
OldestFirst(S) ==
    CHOOSE s \in SetToSeqs(S) :
        \A i, j \in DOMAIN s : i < j => WorkDay[s[i]] <= WorkDay[s[j]]

ComputeHourlyGross(w, n) ==
    LET entries == UnpaidApprovedEntriesThrough(w, n)
        seeded == [week |-> [k \in Weeks |-> PaidMinutesInISOWeek(w, k)],
                   regular |-> 0, overtime |-> 0]
        split == FoldLeft(LAMBDA acc, e : AttributeEntry(threshold, acc, e), seeded,
                          OldestFirst(entries))
    IN [entries |-> entries,
        pay |-> [regular |-> split.regular, overtime |-> split.overtime],
        threshold |-> threshold]

-----------------------------------------------------------------------------
(* The payroll run (CreatePayroll), one at a time under the organization's *)
(* lock, one per period.                                                   *)

\* The lock, the period's uniqueness and the list of active workers.
PayrollBegin(n) ==
    /\ run = Idle
    /\ n \notin created
    /\ \E w \in Employees : active[w]
    /\ run' = [pc |-> "running", period |-> n,
               todo |-> {w \in Employees : active[w]}, gross |-> <<>>]
    /\ UNCHANGED <<status, request, paidBy, created, item, world>>

PayrollEmployee(w) ==
    /\ run.pc = "running"
    /\ w \in run.todo
    /\ run' = [run EXCEPT !.todo = @ \ {w},
                          !.gross = [v \in DOMAIN @ \cup {w} |->
                              IF v = w THEN ComputeHourlyGross(w, run.period) ELSE @[v]]]
    /\ UNCHANGED <<status, request, paidBy, created, item, world>>

\* The items and the stamps of MarkTimeEntriesPaid become visible together.
PayrollCommit ==
    /\ run.pc = "running"
    /\ run.todo = {}
    /\ created' = created \cup {run.period}
    /\ item' = [item EXCEPT ![run.period] =
                  [w \in Employees |-> IF w \in DOMAIN run.gross
                                      THEN run.gross[w].pay ELSE NoItem]]
    /\ paidBy' = [e \in Entries |->
                    IF \E w \in DOMAIN run.gross : e \in run.gross[w].entries
                    THEN run.period ELSE paidBy[e]]
    /\ run' = Idle
    /\ UNCHANGED <<status, request, world>>

\* Any error, or a crash, rolls the whole run back.
PayrollRollsBack ==
    /\ run.pc = "running"
    /\ run' = Idle
    /\ UNCHANGED <<status, request, paidBy, created, item, world>>

-----------------------------------------------------------------------------
(* What else happens: no operation makes a terminated worker active again. *)

Terminate(w) ==
    /\ active[w]
    /\ active' = [active EXCEPT ![w] = FALSE]
    /\ UNCHANGED <<status, request, payVars, today, threshold>>

UpdatePayrollPolicy(t) ==
    /\ t # threshold
    /\ threshold' = t
    /\ UNCHANGED <<status, request, payVars, active, today>>

NextDay ==
    /\ today + 1 \in Days
    /\ today' = today + 1
    /\ UNCHANGED <<status, request, payVars, active, threshold>>

Next ==
    \/ \E r \in Requests, e \in Entries : SubmitRead(r, e) \/ ApproveRead(r, e)
    \/ \E r \in Requests : \/ LockDay(r)
                            \/ SubmitTimeEntry(r)
                            \/ ApproveTimeEntry(r)
                            \/ RequestRollsBack(r)
    \/ \E e \in Entries : RejectTimeEntry(e)
    \/ \E n \in Periods : PayrollBegin(n)
    \/ \E w \in Employees : PayrollEmployee(w)
    \/ PayrollCommit
    \/ PayrollRollsBack
    \/ \E w \in Employees : Terminate(w)
    \/ \E t \in Thresholds : UpdatePayrollPolicy(t)
    \/ NextDay

Spec == Init /\ [][Next]_vars

\* The employer keeps starting the payroll of a period until it is created, a
\* started run goes on, and not every run fails.  Nothing is assumed of admins.
Fairness ==
    /\ \A n \in Periods : SF_vars(PayrollBegin(n))
    /\ \A w \in Employees : SF_vars(PayrollEmployee(w))
    /\ SF_vars(PayrollCommit)

FairSpec == Spec /\ Fairness

-----------------------------------------------------------------------------
(* Properties.                                                             *)

\* However submissions, approvals and rejections race, the approved entries of a
\* worker's day never exceed 24 hours (lockEmployeeDay and the check under it).
ApprovedDayFits ==
    \A e \in Entries : DayMinutes(e, {"approved"}, {}) <= MaxMinutesPerDay

\* The minutes on a payroll item are those of the entries stamped with it, so a
\* minute is paid by one item only (ComputeHourlyGross, MarkTimeEntriesPaid).
ItemPaysItsEntries ==
    \A n \in Periods : \A w \in Employees :
        item[n][w].regular + item[n][w].overtime =
            MinutesOf({e \in Entries : Owner[e] = w /\ paidBy[e] = n})

Over(minutes, limit) == IF minutes > limit THEN minutes - limit ELSE 0

\* However a week's entries are spread over runs, each run's overtime is what its
\* minutes add beyond the threshold to everything paid in the week so far
\* (PaidMinutesInISOWeek).
WeekCountsAcrossRuns ==
    [][\A n \in Periods : \A w \in Employees :
          item'[n][w] # item[n][w] =>
              item'[n][w].overtime =
                  MapThenSumSet(
                      LAMBDA k : Over(PaidMinutesInISOWeek(w, k)', run.gross[w].threshold)
                                 - Over(PaidMinutesInISOWeek(w, k), run.gross[w].threshold),
                      Weeks)]_vars

\* A paid entry stays approved and stays with the item that paid it
\* (TransitionTimeEntry, MarkTimeEntriesPaid).
PaidIsFinal ==
    [][\A e \in Entries : paidBy[e] # 0 =>
          paidBy'[e] = paidBy[e] /\ status'[e] = "approved"]_vars

\* A payroll that is still to be started covers the entry's date.
RunAhead(e) ==
    \E n \in Periods \ created :
        /\ ~ (run.pc = "running" /\ run.period = n)
        /\ WorkDay[e] < PeriodEnd[n]

\* An approved entry is paid by a later run even when it was approved after the run
\* of its own period, unless its worker has left (UnpaidApprovedEntriesThrough).
ApprovedIsPaid ==
    \A e \in Entries :
        status[e] = "approved" /\ RunAhead(e) ~> paidBy[e] # 0 \/ ~ active[Owner[e]]
=============================================================================
