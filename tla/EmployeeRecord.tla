--------------------------- MODULE EmployeeRecord ---------------------------
(***************************************************************************)
(* The employee row and the worker login that goes with it.  Employees are *)
(* hired with or without a phone, edited and terminated by overlapping     *)
(* requests.  An edit locks the row and saves all of it; a termination     *)
(* reads the row without a lock and then writes one column of it.          *)
(*                                                                         *)
(* Of the fields, one bank account and the phone stand for the rest: a     *)
(* login is the phone and an active flag of its own.                       *)
(***************************************************************************)
EXTENDS Integers

CONSTANTS
    Employees,
    Editors,      \* requests that edit
    Terminators,  \* requests that terminate
    Phones,
    Banks,
    MaxEdits      \* bound on the edits asked for

None == "none"
ASSUME EmployeeRecordConstants ==
    /\ MaxEdits \in Nat
    /\ None \notin Phones \cup Banks \cup Employees \cup Editors \cup Terminators
    /\ Editors \cap Terminators = {}

VARIABLES
    active,   \* employees.is_active; FALSE before the employee is hired too
    bank,     \* where the pay goes; None before the employee is hired
    phone,    \* users.phone, None without a login
    login,    \* users.is_active
    lock,     \* lock[e]: the request holding the row, or None
    edit,     \* edit[a]: the edit a has under way: of, bank, phone, row read
    end,      \* end[t]: the termination under way
    edits,
    \* History: what the audit trail says of each employee, how many times it
    \* says "terminated", and the texts sent by the last edit.
    told, endings, texts

row == <<active, bank, phone, login>>
history == <<told, endings, texts>>
vars == <<row, lock, edit, end, edits, history>>

NoEdit == [of |-> None, bank |-> None, phone |-> None, was |-> None, live |-> FALSE]
NoEnd == [pc |-> "idle", of |-> None]

Texts == [to: Phones, about: {"bank", "phone"}]

\* Every record is well formed, and nobody has a login without a phone.
TypeOK ==
    /\ active \in [Employees -> BOOLEAN] /\ login \in [Employees -> BOOLEAN]
    /\ bank \in [Employees -> Banks \cup {None}]
    /\ phone \in [Employees -> Phones \cup {None}]
    /\ \A e \in Employees : login[e] => phone[e] # None
    /\ lock \in [Employees -> Editors \cup Terminators \cup {None}]
    /\ edits \in 0 .. MaxEdits
    /\ told \in [Employees -> [bank: Banks \cup {None}, phone: Phones \cup {None}]]
    /\ endings \in [Employees -> Nat]
    /\ texts \subseteq Texts

Init ==
    /\ active = [e \in Employees |-> FALSE] /\ login = [e \in Employees |-> FALSE]
    /\ bank = [e \in Employees |-> None] /\ phone = [e \in Employees |-> None]
    /\ lock = [e \in Employees |-> None]
    /\ edit = [a \in Editors |-> NoEdit] /\ end = [t \in Terminators |-> NoEnd]
    /\ edits = 0
    /\ told = [e \in Employees |-> [bank |-> None, phone |-> None]]
    /\ endings = [e \in Employees |-> 0]
    /\ texts = {}

-----------------------------------------------------------------------------
\* users.phone is unique, whether its login is active or not.
Taken(e, p) == p # None /\ \E o \in Employees \ {e} : phone[o] = p

\* Without a phone the employee is payroll-only.
HireLogin(p) == p # None

\* CreateEmployee: the row, the login, the consent and the audit entry commit
\* together, or not at all.
Hire(e, b, p) ==
    /\ bank[e] = None /\ ~Taken(e, p)
    /\ active' = [active EXCEPT ![e] = TRUE]
    /\ bank' = [bank EXCEPT ![e] = b]
    /\ phone' = [phone EXCEPT ![e] = p]
    /\ login' = [login EXCEPT ![e] = HireLogin(p)]
    /\ told' = [told EXCEPT ![e] = [bank |-> b, phone |-> p]]
    /\ UNCHANGED <<lock, edit, end, edits, endings, texts>>

(* UpdateEmployee: SELECT ... FOR UPDATE, refused if the row is inactive; the
   bank and phone asked for (None: not named); validation, done on what was
   read, may refuse the edit.  Then the login and the whole row are written
   and, after the commit, the texts go out: a Notifier is configured. *)
RowFree(e) == lock[e] = None

\* Bug: the employee is not looked at again once locked.
MutEditable(e) == TRUE

Editable(e) == active[e]

OpenEdit(a, e, b, p) ==
    /\ edit[a] = NoEdit /\ edits < MaxEdits
    /\ bank[e] # None /\ RowFree(e) /\ Editable(e)
    /\ edits' = edits + 1
    /\ lock' = [lock EXCEPT ![e] = a]
    /\ edit' = [edit EXCEPT ![a] = [of |-> e, bank |-> b, phone |-> p,
                                    was |-> bank[e], live |-> active[e]]]
    /\ UNCHANGED <<row, end, history>>

CloseEdit(a) ==
    /\ lock' = [lock EXCEPT ![edit[a].of] = None]
    /\ edit' = [edit EXCEPT ![a] = NoEdit]

\* A field is not valid, the phone is another login's, or the database fails.
RefuseEdit(a) ==
    /\ edit[a] # NoEdit
    /\ CloseEdit(a)
    /\ UNCHANGED <<row, end, edits, history>>

NewBank(u) == IF u.bank = None THEN u.was ELSE u.bank
NewPhone(u) == IF u.phone = None THEN phone[u.of] ELSE u.phone
Moved(u) == u.phone # None /\ phone[u.of] # None /\ u.phone # phone[u.of]

\* Bug: one text per edit.
MutNotices(u) ==
    IF NewBank(u) # u.was
    THEN {[to |-> p, about |-> "bank"] : p \in {NewPhone(u)} \ {None}}
    ELSE {[to |-> p, about |-> "phone"] : p \in {q \in {phone[u.of]} : Moved(u)}}

\* The bank notice goes to the login as the edit leaves it, the phone notice to
\* the number it replaces.
Notices(u) ==
    {[to |-> p, about |-> "bank"] : p \in {q \in {NewPhone(u)} \ {None} : NewBank(u) # u.was}}
    \cup {[to |-> p, about |-> "phone"] : p \in {q \in {phone[u.of]} : Moved(u)}}

\* What the audit trail says of the employee after an entry that names what changed.
Audited(u) ==
    [bank  |-> IF NewBank(u) # u.was THEN NewBank(u) ELSE told[u.of].bank,
     phone |-> IF NewPhone(u) # phone[u.of] THEN NewPhone(u) ELSE told[u.of].phone]

CommitEdit(a) ==
    LET u == edit[a]  e == u.of IN
    /\ u # NoEdit /\ ~Taken(e, u.phone)
    /\ phone' = [phone EXCEPT ![e] = NewPhone(u)]
    /\ login' = [login EXCEPT ![e] = @ \/ (phone[e] = None /\ u.phone # None)]
    /\ IF NewBank(u) # u.was \/ NewPhone(u) # phone[e]
       THEN /\ bank' = [bank EXCEPT ![e] = NewBank(u)]
            /\ active' = [active EXCEPT ![e] = u.live]
            /\ told' = [told EXCEPT ![e] = Audited(u)]
       ELSE UNCHANGED <<bank, active, told>>
    /\ texts' = Notices(u)
    /\ CloseEdit(a)
    /\ UNCHANGED <<end, edits, endings>>

(* Terminate: reads the row without a lock; if it is active, waits for the row,
   writes is_active, revokes the logins it then finds, and audits. *)
ReadForEnd(t, e) ==
    /\ end[t] = NoEnd /\ bank[e] # None /\ active[e]
    /\ end' = [end EXCEPT ![t] = [pc |-> "read", of |-> e]]
    /\ UNCHANGED <<row, lock, edit, edits, history>>

Deactivate(t) ==
    /\ end[t].pc = "read" /\ RowFree(end[t].of)
    /\ lock' = [lock EXCEPT ![end[t].of] = t]
    /\ end' = [end EXCEPT ![t].pc = "written"]
    /\ UNCHANGED <<row, edit, edits, history>>

RevokeAndCommit(t) ==
    LET e == end[t].of IN
    /\ end[t].pc = "written"
    /\ active' = [active EXCEPT ![e] = FALSE]
    /\ login' = [login EXCEPT ![e] = FALSE]
    /\ endings' = [endings EXCEPT ![e] = @ + 1]
    /\ lock' = [lock EXCEPT ![e] = None]
    /\ end' = [end EXCEPT ![t] = NoEnd]
    /\ UNCHANGED <<bank, phone, edit, edits, told, texts>>

EndFails(t) ==
    /\ end[t].pc = "written"
    /\ lock' = [lock EXCEPT ![end[t].of] = None]
    /\ end' = [end EXCEPT ![t] = NoEnd]
    /\ UNCHANGED <<row, edit, edits, history>>

Next ==
    \/ \E e \in Employees, p \in Phones \cup {None} :
        \/ \E b \in Banks : Hire(e, b, p)
        \/ \E a \in Editors, b \in Banks \cup {None} : OpenEdit(a, e, b, p)
    \/ \E a \in Editors : CommitEdit(a) \/ RefuseEdit(a)
    \/ \E t \in Terminators :
        \/ \E e \in Employees : ReadForEnd(t, e)
        \/ Deactivate(t) \/ RevokeAndCommit(t) \/ EndFails(t)

Spec == Init /\ [][Next]_vars

-----------------------------------------------------------------------------
(* Properties *)

\* UpdateEmployee: "a concurrent termination ... can't be overwritten by this one's
\* save of a stale copy".  Once terminated, an employee stays so.
TerminatedStays == \A e \in Employees : endings[e] > 0 => ~active[e]

\* A terminated worker has no login that works, also when the phone that gives a
\* login is added by an edit overlapping the termination.
NoLoginAfterEnd == \A e \in Employees : login[e] => active[e]

\* The audit trail's last word on an employee's bank account and phone is what the
\* rows hold, whatever edits overlapped.
AuditIsCurrent ==
    \A e \in Employees : told[e] = [bank |-> bank[e], phone |-> phone[e]]

FormerHears ==
    \A e \in Employees :
        phone[e] # None /\ bank[e] # None /\ (bank'[e] # bank[e] \/ phone'[e] # phone[e])
        => \E x \in texts' : x.to = phone[e]

\* When an edit moves the pay to another account or the login to another phone, the
\* phone that was on file is told.
FormerPhoneHears == [][FormerHears]_vars

\* A termination stands whatever edits and hires overlap it: the employee stays
\* inactive and without a login (UpdateEmployee, Terminate).
TerminationStands == TypeOK /\ TerminatedStays /\ NoLoginAfterEnd

\* Who has to know of a change does: the audit trail ends with what the rows hold,
\* and the phone that was on file is told (UpdateEmployee, notify).
ChangesAreTold == []AuditIsCurrent /\ FormerPhoneHears
=============================================================================
