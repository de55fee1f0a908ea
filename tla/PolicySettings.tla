--------------------------- MODULE PolicySettings ---------------------------
(***************************************************************************)
(* The settings an organization and its workers change while the system    *)
(* runs: a policy (the wage-advance policy, and the payroll policy, which  *)
(* is updated by the same steps) and a worker's protected payday.  Each    *)
(* change is a transaction that reads the row, computes the new one and    *)
(* upserts all of it; the read takes no lock, so under READ COMMITTED      *)
(* another transaction may commit between the read and the upsert.         *)
(***************************************************************************)
EXTENDS Integers

CONSTANTS
    Txns,      \* transactions in progress at one time
    Fields,    \* the policy's columns
    Cooling,   \* the column cooling_off_hours
    Valid,     \* the values each column accepts
    Offered,   \* the values an update may carry
    Default,   \* the policy of an organization that has saved none
    Amounts,   \* amounts of a protected payday
    MaxTime    \* bound: the clock

Policies == {p \in [Fields -> Offered] : \A f \in Fields : p[f] \in Valid[f]}

Never == -1
NoRow == [none |-> TRUE]

PolicySettingsConstants ==
    /\ Cooling \in Fields
    /\ Valid[Cooling] \subseteq Nat
    /\ Default \in Policies /\ NoRow \notin Policies
    /\ Amounts \subseteq Nat
    /\ MaxTime \in Nat

VARIABLES
    row,      \* the saved policy
    floor,    \* the worker's preference: the amount, and when it last changed
    now,      \* the clock
    txn,      \* each transaction: idle, or what it asks for and what it read
    audit,    \* the last entry of the policy's audit trail
    overtaken \* history: the transactions that read what another has since replaced

vars == <<row, floor, now, txn, audit, overtaken>>

Idle == [kind |-> "idle"]
\* An update carries only the fields it changes; the others are nil.
Updates == UNION {[F -> Offered] : F \in SUBSET Fields}
Preferences == [amount : Amounts \cup {0}, changed : {Never} \cup 0 .. MaxTime]

TypeOK ==
    /\ row \in Policies \cup {NoRow}
    /\ floor \in Preferences
    /\ now \in 0 .. MaxTime
    /\ \A t \in Txns :
        \/ txn[t] = Idle
        \/ /\ txn[t].kind = "policy"
           /\ txn[t].update \in Updates /\ txn[t].read \in Policies
        \/ /\ txn[t].kind = "floor"
           /\ txn[t].amount \in Amounts /\ txn[t].at \in 0 .. now
    /\ audit \in [before : Policies, after : Policies]
    /\ overtaken \subseteq {t \in Txns : txn[t] # Idle}

Init ==
    /\ row = NoRow
    /\ floor = [amount |-> 0, changed |-> Never]
    /\ now = 0
    /\ txn = [t \in Txns |-> Idle]
    /\ audit = [before |-> Default, after |-> Default]
    /\ overtaken = {}

Becomes(t, x) == txn' = [txn EXCEPT ![t] = x]

\* t ends, and what the other transactions of these kinds read is replaced.
Commits(t, kinds) ==
    /\ Becomes(t, Idle)
    /\ overtaken' = (overtaken \cup {u \in Txns : txn[u].kind \in kinds}) \ {t}

\* policyTx: the saved row, or the default.
PolicyTx == IF row = NoRow THEN Default ELSE row

-----------------------------------------------------------------------------
(* UpdatePolicy, UpdatePayrollPolicy *)

\* One value out of its range refuses the whole update.
Accepts(u) == \A f \in DOMAIN u : u[f] \in Valid[f]

ReadPolicy(t, u) ==
    /\ txn[t] = Idle
    /\ Accepts(u)
    /\ Becomes(t, [kind |-> "policy", update |-> u, read |-> PolicyTx])
    /\ UNCHANGED <<row, floor, now, audit, overtaken>>

\* Bug: the update is applied to the default.
MutApply(u, p) == [f \in Fields |-> IF f \in DOMAIN u THEN u[f] ELSE Default[f]]

Apply(u, p) == [f \in Fields |-> IF f \in DOMAIN u THEN u[f] ELSE p[f]]

Before(x) == x.read

\* The upsert of every column and the audit entry, in one commit.
UpdatePolicy(t) ==
    /\ txn[t].kind = "policy"
    /\ row' = Apply(txn[t].update, txn[t].read)
    /\ audit' = [before |-> Before(txn[t]), after |-> row']
    /\ Commits(t, {"policy", "floor"})
    /\ UNCHANGED <<floor, now>>

-----------------------------------------------------------------------------
(* SetProtectedPayday *)

\* Raising is free; lowering waits cooling_off_hours from the last change.
MayLower(amount) ==
    \/ amount >= floor.amount
    \/ floor.changed = Never
    \/ now >= floor.changed + PolicyTx[Cooling]

ReadFloor(t, amount) ==
    /\ txn[t] = Idle
    /\ MayLower(amount)
    /\ Becomes(t, [kind |-> "floor", amount |-> amount, at |-> now])
    /\ UNCHANGED <<row, floor, now, audit, overtaken>>

SetProtectedPayday(t) ==
    /\ txn[t].kind = "floor"
    /\ floor' = [amount |-> txn[t].amount, changed |-> txn[t].at]
    /\ Commits(t, {"floor"})
    /\ UNCHANGED <<row, now, audit>>

Tick ==
    /\ now < MaxTime
    /\ now' = now + 1
    /\ UNCHANGED <<row, floor, txn, audit, overtaken>>

Next ==
    \/ \E t \in Txns :
        \/ \E u \in Updates : ReadPolicy(t, u)
        \/ UpdatePolicy(t)
        \/ \E a \in Amounts : ReadFloor(t, a)
        \/ SetProtectedPayday(t)
    \/ Tick

Spec == Init /\ [][Next]_vars

-----------------------------------------------------------------------------

NilStays ==
    \A f \in Fields :
        PolicyTx'[f] # PolicyTx[f] =>
            \E t \in Txns : /\ txn[t].kind = "policy" /\ txn'[t] = Idle
                            /\ f \in DOMAIN txn[t].update

\* PayrollPolicyUpdate and PolicyUpdate: a nil field is left as it is.  A column
\* of the policy in force changes only by an update that carries it.
NilLeavesAsIs == [][NilStays]_vars

AuditContinues == audit' # audit => audit'.before = audit.after

FloorStays ==
    floor'.amount < floor.amount /\ floor.changed # Never
        => now >= floor.changed + PolicyTx[Cooling]

\* The step is no commit of an overtaken transaction.
InTime == \A t \in overtaken : txn'[t] = txn[t]

\* UpdatePolicy, SetProtectedPayday: of transactions that overlap, the first to commit
\* alters only what it carries, its audit entry begins with the policy the previous
\* one ended with, and it lowers a floor only cooling_off_hours after the last change.
ChangesInTimeStand == [][InTime => NilStays /\ AuditContinues /\ FloorStays]_vars

SeamShows ==
    /\ audit'.after = PolicyTx'
    /\ ~ NilStays => ~ AuditContinues

\* AppendAuditTx in the commit: the trail always ends with the policy in force, and
\* where an overtaken update undid a column it did not carry, two entries do not meet.
UndoingShows == [][SeamShows]_vars
=============================================================================
