---------------------------- MODULE Accounts_proofs ----------------------------
(* Proofs about what people hold and change: the employees' records, for   *)
(* every number of employees and of requests that edit or terminate them   *)
(* at once; the employer's logins, for any number of people and operations *)
(* under way and any lives of a token and a session; a phone's login       *)
(* codes, for any overlapping requests and any caps; the policies, for any *)
(* columns, values and overlapping updates; reconciliation, for any        *)
(* organizations and movements; and, at the end, the composition of them.  *)
(* The variables of the employees are those of EmployeeRecord itself.      *)
EXTENDS Accounts, Sums_proofs

-----------------------------------------------------------------------------
(* The inductive invariant.                                                *)

EditRec == [of : Employees, bank : Banks \cup {None}, phone : Phones \cup {None},
            was : Banks, live : BOOLEAN]

EndRec == [pc : {"read", "written"}, of : Employees]

\* Requests are where the code can be.
RequestsTyped ==
    /\ edit \in [Editors -> {NoEdit} \cup EditRec]
    /\ end \in [Terminators -> {NoEnd} \cup EndRec]

\* An open edit has the lock of its row, and what it read of the row still holds:
\* this is what SELECT ... FOR UPDATE is for.
EditHoldsRow ==
    \A a \in Editors : edit[a] # NoEdit =>
        /\ lock[edit[a].of] = a
        /\ edit[a].was = bank[edit[a].of]
        /\ edit[a].live /\ active[edit[a].of]

\* A termination that has written has the lock of its row; one that has only read
\* may find the row changed, but never gone.
EndHoldsRow ==
    \A t \in Terminators : end[t] # NoEnd =>
        /\ bank[end[t].of] # None
        /\ end[t].pc = "written" => lock[end[t].of] = t

\* Only who was hired works or is terminated.
OnlyHired == \A e \in Employees : active[e] \/ endings[e] > 0 => bank[e] # None

RecordInv ==
    /\ TypeOK
    /\ RequestsTyped
    /\ EditHoldsRow
    /\ EndHoldsRow
    /\ OnlyHired
    /\ TerminatedStays
    /\ NoLoginAfterEnd
    /\ AuditIsCurrent

\* An edit that is under way is of an employee.
LEMMA OpenEditTyped ==
    ASSUME RecordInv, NEW a \in Editors, edit[a] # NoEdit
    PROVE  /\ edit[a] \in EditRec
           /\ edit[a].of \in Employees
           /\ edit[a].bank \in Banks \cup {None}
           /\ edit[a].phone \in Phones \cup {None}
           /\ edit[a].was \in Banks
           /\ edit[a].was = bank[edit[a].of]
           /\ edit[a].live = TRUE
           /\ active[edit[a].of] = TRUE
           /\ lock[edit[a].of] = a
           /\ bank[edit[a].of] # None
<1>1. edit[a] \in EditRec
  BY DEF RecordInv, RequestsTyped
<1>2. edit[a].was \in Banks /\ edit[a].was = bank[edit[a].of]
  BY <1>1 DEF RecordInv, EditHoldsRow, EditRec
<1>3. bank[edit[a].of] # None
  BY <1>2, EmployeeRecordConstants
<1> QED
  BY <1>1, <1>3 DEF RecordInv, EditHoldsRow, EditRec, TypeOK

\* So is a termination.
LEMMA OpenEndTyped ==
    ASSUME RecordInv, NEW t \in Terminators, end[t].pc # "idle"
    PROVE  /\ end[t] \in EndRec
           /\ end[t].of \in Employees
           /\ bank[end[t].of] # None
           /\ end[t].pc = "written" => lock[end[t].of] = t
<1>1. end[t] # NoEnd /\ end[t] \in EndRec
  BY DEF RecordInv, RequestsTyped, NoEnd
<1> QED
  BY <1>1 DEF RecordInv, EndHoldsRow, EndRec

LEMMA InitRecord == Init => RecordInv
  BY EmployeeRecordConstants
     DEF Init, RecordInv, TypeOK, RequestsTyped, EditHoldsRow, EndHoldsRow, OnlyHired,
         TerminatedStays, NoLoginAfterEnd, AuditIsCurrent, NoEdit, NoEnd, Texts

LEMMA HireKeepsRecord ==
    ASSUME RecordInv, NEW e \in Employees, NEW b \in Banks, NEW p \in Phones \cup {None},
           Hire(e, b, p)
    PROVE  RecordInv'
<1>1. /\ b # None /\ bank[e] = None
      /\ active' = [active EXCEPT ![e] = TRUE] /\ bank' = [bank EXCEPT ![e] = b]
      /\ phone' = [phone EXCEPT ![e] = p] /\ login' = [login EXCEPT ![e] = HireLogin(p)]
      /\ told' = [told EXCEPT ![e] = [bank |-> b, phone |-> p]]
      /\ UNCHANGED <<lock, edit, end, edits, endings, texts>>
  BY EmployeeRecordConstants DEF Hire
<1>2. TypeOK'
  BY <1>1 DEF RecordInv, TypeOK, HireLogin
<1>3. RequestsTyped'
  BY <1>1 DEF RecordInv, RequestsTyped
<1>4. EditHoldsRow'
  <2>1. ASSUME NEW a \in Editors, edit[a] # NoEdit
        PROVE  edit[a].of \in Employees /\ edit[a].of # e
    BY <1>1, <2>1, OpenEditTyped
  <2> QED
    BY <1>1, <2>1 DEF RecordInv, EditHoldsRow, TypeOK
<1>5. EndHoldsRow'
  BY <1>1 DEF RecordInv, EndHoldsRow, TypeOK
<1>6. OnlyHired' /\ TerminatedStays' /\ NoLoginAfterEnd'
  BY <1>1 DEF RecordInv, OnlyHired, TerminatedStays, NoLoginAfterEnd, TypeOK
<1>7. AuditIsCurrent'
  BY <1>1 DEF RecordInv, AuditIsCurrent, TypeOK
<1> QED
  BY <1>2, <1>3, <1>4, <1>5, <1>6, <1>7 DEF RecordInv

LEMMA OpenEditKeepsRecord ==
    ASSUME RecordInv, NEW e \in Employees, NEW a \in Editors,
           NEW b \in Banks \cup {None}, NEW p \in Phones \cup {None}, OpenEdit(a, e, b, p)
    PROVE  RecordInv'
<1> DEFINE u == [of |-> e, bank |-> b, phone |-> p, was |-> bank[e], live |-> active[e]]
<1>1. /\ edit[a] = NoEdit /\ edits < MaxEdits /\ lock[e] = None /\ active[e] = TRUE
      /\ bank[e] # None
      /\ edits' = edits + 1 /\ lock' = [lock EXCEPT ![e] = a]
      /\ edit' = [edit EXCEPT ![a] = u]
      /\ UNCHANGED <<active, bank, phone, login, end, told, endings, texts>>
  BY DEF OpenEdit, RowFree, Editable, row, history, RecordInv, TypeOK
<1>2. bank[e] \in Banks
  BY <1>1 DEF RecordInv, TypeOK
<1>3. u \in EditRec
  BY <1>1, <1>2 DEF EditRec
<1> HIDE DEF u
<1>4. u.of = e /\ u.was = bank[e] /\ u.live = TRUE
  BY <1>1 DEF u
<1>5. TypeOK'
  BY <1>1, EmployeeRecordConstants DEF RecordInv, TypeOK
<1>6. RequestsTyped'
  BY <1>1, <1>3 DEF RecordInv, RequestsTyped
<1>7. EditHoldsRow'
  <2> SUFFICES ASSUME NEW o \in Editors, edit'[o] # NoEdit
               PROVE  /\ lock'[edit'[o].of] = o
                      /\ edit'[o].was = bank'[edit'[o].of]
                      /\ edit'[o].live /\ active'[edit'[o].of]
    BY DEF EditHoldsRow
  <2>1. CASE o = a
    BY <1>1, <1>4, <2>1 DEF RecordInv, TypeOK, RequestsTyped
  <2>2. CASE o # a
    <3>1. edit'[o] = edit[o] /\ edit[o] # NoEdit
      BY <1>1, <2>2 DEF RecordInv, RequestsTyped
    <3>2. /\ edit[o].of \in Employees /\ lock[edit[o].of] = o
          /\ edit[o].was = bank[edit[o].of] /\ edit[o].live /\ active[edit[o].of]
      BY <3>1, OpenEditTyped
    <3>3. edit[o].of # e
      BY <1>1, <3>2, EmployeeRecordConstants
    <3> QED
      BY <1>1, <3>1, <3>2, <3>3 DEF RecordInv, TypeOK
  <2> QED
    BY <2>1, <2>2
<1>8. EndHoldsRow'
  BY <1>1, OpenEndTyped, EmployeeRecordConstants DEF RecordInv, EndHoldsRow, TypeOK, NoEnd,
     RequestsTyped, EndRec
<1>9. OnlyHired' /\ TerminatedStays' /\ NoLoginAfterEnd' /\ AuditIsCurrent'
  BY <1>1 DEF RecordInv, OnlyHired, TerminatedStays, NoLoginAfterEnd, AuditIsCurrent
<1> QED
  BY <1>5, <1>6, <1>7, <1>8, <1>9 DEF RecordInv

\* Closing an edit frees its own row and disturbs no other request.
LEMMA CloseEditKeepsRequests ==
    ASSUME RecordInv, NEW a \in Editors, edit[a] # NoEdit, CloseEdit(a),
           UNCHANGED <<end, edits, endings>>,
           \A e \in Employees \ {edit[a].of} : bank'[e] = bank[e] /\ active'[e] = active[e],
           bank'[edit[a].of] # None
    PROVE  /\ lock' \in [Employees -> Editors \cup Terminators \cup {None}]
           /\ RequestsTyped'
           /\ EditHoldsRow'
           /\ EndHoldsRow'
<1> DEFINE e == edit[a].of
<1>1. e \in Employees /\ lock[e] = a
  BY OpenEditTyped
<1>2. lock' = [lock EXCEPT ![e] = None] /\ edit' = [edit EXCEPT ![a] = NoEdit]
  BY DEF CloseEdit
<1> HIDE DEF e
<1>3. lock' \in [Employees -> Editors \cup Terminators \cup {None}]
  BY <1>2 DEF RecordInv, TypeOK
<1>4. RequestsTyped'
  BY <1>2 DEF RecordInv, RequestsTyped
<1>5. EditHoldsRow'
  <2> SUFFICES ASSUME NEW o \in Editors, edit'[o] # NoEdit
               PROVE  /\ lock'[edit'[o].of] = o
                      /\ edit'[o].was = bank'[edit'[o].of]
                      /\ edit'[o].live /\ active'[edit'[o].of]
    BY DEF EditHoldsRow
  <2>1. o # a /\ edit'[o] = edit[o] /\ edit[o] # NoEdit
    BY <1>2 DEF RecordInv, RequestsTyped
  <2>2. /\ edit[o].of \in Employees /\ lock[edit[o].of] = o
        /\ edit[o].was = bank[edit[o].of] /\ edit[o].live /\ active[edit[o].of]
    BY <2>1, OpenEditTyped
  <2>3. edit[o].of # e
    BY <1>1, <2>1, <2>2
  <2> QED
    BY <1>1, <1>2, <2>1, <2>2, <2>3 DEF RecordInv, TypeOK, e
<1>6. EndHoldsRow'
  <2> SUFFICES ASSUME NEW t \in Terminators, end[t] # NoEnd
               PROVE  /\ bank'[end[t].of] # None
                      /\ end[t].pc = "written" => lock'[end[t].of] = t
    BY DEF EndHoldsRow
  <2>1. /\ end[t].of \in Employees /\ bank[end[t].of] # None
        /\ end[t].pc = "written" => lock[end[t].of] = t
    BY DEF RecordInv, EndHoldsRow, RequestsTyped, EndRec
  <2>2. end[t].pc = "written" => end[t].of # e
    BY <1>1, <2>1, EmployeeRecordConstants
  <2> QED
    BY <1>1, <1>2, <2>1, <2>2 DEF RecordInv, TypeOK, e
<1> QED
  BY <1>3, <1>4, <1>5, <1>6

LEMMA RefuseKeepsRecord ==
    ASSUME RecordInv, NEW a \in Editors, RefuseEdit(a)
    PROVE  RecordInv'
<1>1. /\ edit[a] # NoEdit /\ CloseEdit(a)
      /\ UNCHANGED <<active, bank, phone, login, end, edits, told, endings, texts>>
  BY DEF RefuseEdit, row, history
<1>2. bank[edit[a].of] # None
  BY <1>1, OpenEditTyped
<1>3. /\ lock' \in [Employees -> Editors \cup Terminators \cup {None}]
      /\ RequestsTyped' /\ EditHoldsRow' /\ EndHoldsRow'
  BY <1>1, <1>2, CloseEditKeepsRequests
<1>4. TypeOK'
  BY <1>1, <1>3 DEF RecordInv, TypeOK
<1>5. OnlyHired' /\ TerminatedStays' /\ NoLoginAfterEnd' /\ AuditIsCurrent'
  BY <1>1 DEF RecordInv, OnlyHired, TerminatedStays, NoLoginAfterEnd, AuditIsCurrent
<1> QED
  BY <1>3, <1>4, <1>5 DEF RecordInv

\* What a commit of an edit leaves in the row, in one place: the row stays active,
\* and bank and phone become what the audit trail then says of them.
LEMMA CommitWrites ==
    ASSUME RecordInv, NEW a \in Editors, CommitEdit(a)
    PROVE  LET e == edit[a].of IN
           /\ edit[a] # NoEdit
           /\ e \in Employees
           /\ active' = active
           /\ NewBank(edit[a]) \in Banks
           /\ NewPhone(edit[a]) \in Phones \cup {None}
           /\ phone[e] # None => NewPhone(edit[a]) # None
           /\ bank' = [bank EXCEPT ![e] = NewBank(edit[a])]
           /\ phone' = [phone EXCEPT ![e] = NewPhone(edit[a])]
           /\ told' = [told EXCEPT ![e] = [bank |-> NewBank(edit[a]),
                                          phone |-> NewPhone(edit[a])]]
<1> DEFINE u == edit[a]
           e == u.of
<1>1. /\ u # NoEdit
      /\ phone' = [phone EXCEPT ![e] = NewPhone(u)]
      /\ IF NewBank(u) # u.was \/ NewPhone(u) # phone[e]
         THEN /\ bank' = [bank EXCEPT ![e] = NewBank(u)]
              /\ active' = [active EXCEPT ![e] = u.live]
              /\ told' = [told EXCEPT ![e] = Audited(u)]
         ELSE UNCHANGED <<bank, active, told>>
  BY DEF CommitEdit
<1>2. /\ e \in Employees /\ u.bank \in Banks \cup {None} /\ u.phone \in Phones \cup {None}
      /\ u.was \in Banks /\ u.was = bank[e] /\ u.live = TRUE /\ active[e] = TRUE
  BY <1>1, OpenEditTyped
<1>3. /\ bank \in [Employees -> Banks \cup {None}]
      /\ phone \in [Employees -> Phones \cup {None}]
      /\ active \in [Employees -> BOOLEAN]
      /\ told \in [Employees -> [bank: Banks \cup {None}, phone: Phones \cup {None}]]
      /\ told[e] = [bank |-> bank[e], phone |-> phone[e]]
  BY <1>2 DEF RecordInv, TypeOK, AuditIsCurrent
<1>4. NewBank(u) \in Banks
  BY <1>2 DEF NewBank
<1>5. NewPhone(u) \in Phones \cup {None} /\ (phone[e] # None => NewPhone(u) # None)
  BY <1>2, <1>3 DEF NewPhone
<1>6. Audited(u) = [bank |-> NewBank(u), phone |-> NewPhone(u)]
  BY <1>2, <1>3 DEF Audited
<1> HIDE DEF u, e
<1>7. active' = active
  <2>1. u.live = active[e]
    BY <1>2
  <2>2. [active EXCEPT ![e] = active[e]] = active
    BY <1>3
  <2> QED
    BY <1>1, <2>1, <2>2, Zenon
<1>8. bank' = [bank EXCEPT ![e] = NewBank(u)]
  BY <1>1, <1>2, <1>3
<1>9. told' = [told EXCEPT ![e] = [bank |-> NewBank(u), phone |-> NewPhone(u)]]
  BY <1>1, <1>2, <1>3, <1>6
<1> QED
  BY <1>1, <1>2, <1>4, <1>5, <1>7, <1>8, <1>9 DEF u, e

LEMMA CommitKeepsRecord ==
    ASSUME RecordInv, NEW a \in Editors, CommitEdit(a)
    PROVE  RecordInv'
<1> DEFINE u == edit[a]
           e == u.of
<1>1. /\ u # NoEdit /\ e \in Employees /\ active' = active
      /\ NewBank(u) \in Banks /\ NewPhone(u) \in Phones \cup {None}
      /\ phone[e] # None => NewPhone(u) # None
      /\ bank' = [bank EXCEPT ![e] = NewBank(u)]
      /\ phone' = [phone EXCEPT ![e] = NewPhone(u)]
      /\ told' = [told EXCEPT ![e] = [bank |-> NewBank(u), phone |-> NewPhone(u)]]
  BY CommitWrites
<1>2. /\ login' = [login EXCEPT ![e] = @ \/ (phone[e] = None /\ u.phone # None)]
      /\ texts' = Notices(u) /\ CloseEdit(a) /\ UNCHANGED <<end, edits, endings>>
  BY DEF CommitEdit
<1>3. NewBank(u) # None
  BY <1>1, EmployeeRecordConstants
<1>4. active[e] = TRUE
  BY <1>1, OpenEditTyped
<1>5. u.phone # None => NewPhone(u) # None
  BY DEF NewPhone
<1>6. texts' \subseteq Texts
  <2>1. \A p \in {phone[e], NewPhone(u)} : p # None => p \in Phones
    BY <1>1 DEF RecordInv, TypeOK
  <2>2. Moved(u) => phone[e] # None
    BY DEF Moved
  <2> HIDE DEF u, e
  <2>3. Notices(u) \subseteq Texts
    BY <2>1, <2>2 DEF Notices, Texts, e
  <2> QED
    BY <1>2, <2>3
<1>7. /\ lock' \in [Employees -> Editors \cup Terminators \cup {None}]
      /\ RequestsTyped' /\ EditHoldsRow' /\ EndHoldsRow'
  <2>1. /\ \A o \in Employees \ {e} : bank'[o] = bank[o] /\ active'[o] = active[o]
        /\ bank'[e] # None
    BY <1>1, <1>3 DEF RecordInv, TypeOK
  <2> QED
    BY <1>1, <1>2, <2>1, CloseEditKeepsRequests
<1> HIDE DEF u, e
<1>8. TypeOK'
  <2>1. login' \in [Employees -> BOOLEAN] /\ \A o \in Employees : login'[o] => phone'[o] # None
    BY <1>1, <1>2, <1>5 DEF RecordInv, TypeOK
  <2> QED
    BY <1>1, <1>2, <1>6, <1>7, <2>1 DEF RecordInv, TypeOK
<1>9. OnlyHired' /\ TerminatedStays'
  BY <1>1, <1>2, <1>3 DEF RecordInv, OnlyHired, TerminatedStays, TypeOK
<1>10. NoLoginAfterEnd'
  BY <1>1, <1>2, <1>4 DEF RecordInv, NoLoginAfterEnd, TypeOK
<1>11. AuditIsCurrent'
  BY <1>1 DEF RecordInv, AuditIsCurrent, TypeOK
<1> QED
  BY <1>7, <1>8, <1>9, <1>10, <1>11 DEF RecordInv

LEMMA ReadForEndKeepsRecord ==
    ASSUME RecordInv, NEW t \in Terminators, NEW e \in Employees, ReadForEnd(t, e)
    PROVE  RecordInv'
<1>1. /\ bank[e] # None /\ end' = [end EXCEPT ![t] = [pc |-> "read", of |-> e]]
      /\ UNCHANGED <<active, bank, phone, login, lock, edit, edits, told, endings, texts>>
  BY DEF ReadForEnd, row, history
<1>2. TypeOK' /\ EditHoldsRow' /\ OnlyHired' /\ TerminatedStays' /\ NoLoginAfterEnd'
      /\ AuditIsCurrent'
  BY <1>1 DEF RecordInv, TypeOK, EditHoldsRow, OnlyHired, TerminatedStays, NoLoginAfterEnd,
     AuditIsCurrent
<1>3. RequestsTyped'
  BY <1>1 DEF RecordInv, RequestsTyped, EndRec
<1>4. EndHoldsRow'
  BY <1>1 DEF RecordInv, RequestsTyped, EndHoldsRow
<1> QED
  BY <1>2, <1>3, <1>4 DEF RecordInv

LEMMA DeactivateKeepsRecord ==
    ASSUME RecordInv, NEW t \in Terminators, Deactivate(t)
    PROVE  RecordInv'
<1> DEFINE e == end[t].of
<1>1. /\ end[t].pc = "read" /\ lock[e] = None
      /\ lock' = [lock EXCEPT ![e] = t] /\ end' = [end EXCEPT ![t].pc = "written"]
      /\ UNCHANGED <<active, bank, phone, login, edit, edits, told, endings, texts>>
  BY DEF Deactivate, RowFree, row, history
<1>2. end[t] \in EndRec /\ e \in Employees /\ bank[e] # None
  BY <1>1, OpenEndTyped
<1>3. /\ [end[t] EXCEPT !.pc = "written"] \in EndRec
      /\ [end[t] EXCEPT !.pc = "written"].of = e
      /\ end' = [end EXCEPT ![t] = [end[t] EXCEPT !.pc = "written"]]
  BY <1>1, <1>2 DEF EndRec
<1> HIDE DEF e
<1>4. TypeOK'
  BY <1>1, <1>2 DEF RecordInv, TypeOK
<1>5. OnlyHired' /\ TerminatedStays' /\ NoLoginAfterEnd' /\ AuditIsCurrent'
  BY <1>1 DEF RecordInv, OnlyHired, TerminatedStays, NoLoginAfterEnd, AuditIsCurrent
<1>6. RequestsTyped'
  BY <1>1, <1>3 DEF RecordInv, RequestsTyped
<1>7. EditHoldsRow'
  <2>1. ASSUME NEW a \in Editors, edit[a] # NoEdit
        PROVE  edit[a].of \in Employees /\ edit[a].of # e
    BY <1>1, <2>1, OpenEditTyped, EmployeeRecordConstants
  <2> QED
    BY <1>1, <2>1 DEF RecordInv, EditHoldsRow, TypeOK
<1>8. EndHoldsRow'
  <2> SUFFICES ASSUME NEW o \in Terminators, end'[o] # NoEnd
               PROVE  /\ bank'[end'[o].of] # None
                      /\ end'[o].pc = "written" => lock'[end'[o].of] = o
    BY DEF EndHoldsRow
  <2>1. CASE o = t
    BY <1>1, <1>2, <1>3, <2>1 DEF RecordInv, TypeOK, RequestsTyped
  <2>2. CASE o # t
    <3>1. end'[o] = end[o]
      BY <1>3, <2>2 DEF RecordInv, RequestsTyped
    <3>2. /\ bank[end[o].of] # None /\ end[o].of \in Employees
          /\ end[o].pc = "written" => lock[end[o].of] = o
      BY <3>1 DEF RecordInv, EndHoldsRow, RequestsTyped, EndRec
    <3>3. end[o].pc = "written" => end[o].of # e
      BY <1>1, <3>2, EmployeeRecordConstants
    <3> QED
      BY <1>1, <1>2, <3>1, <3>2, <3>3 DEF RecordInv, TypeOK
  <2> QED
    BY <2>1, <2>2
<1> QED
  BY <1>4, <1>5, <1>6, <1>7, <1>8 DEF RecordInv

\* A termination that ends, either way, frees its own row and disturbs no other
\* request.
LEMMA EndKeepsRequests ==
    ASSUME RecordInv, NEW t \in Terminators, end[t].pc = "written",
           lock' = [lock EXCEPT ![end[t].of] = None], end' = [end EXCEPT ![t] = NoEnd],
           UNCHANGED <<bank, edit>>,
           \A e \in Employees \ {end[t].of} : active'[e] = active[e]
    PROVE  /\ lock' \in [Employees -> Editors \cup Terminators \cup {None}]
           /\ RequestsTyped'
           /\ EditHoldsRow'
           /\ EndHoldsRow'
<1> DEFINE e == end[t].of
<1>1. e \in Employees /\ lock[e] = t
  BY OpenEndTyped
<1> HIDE DEF e
<1>2. lock' \in [Employees -> Editors \cup Terminators \cup {None}]
  BY DEF RecordInv, TypeOK
<1>3. RequestsTyped'
  BY DEF RecordInv, RequestsTyped
<1>4. EditHoldsRow'
  <2> SUFFICES ASSUME NEW a \in Editors, edit[a] # NoEdit
               PROVE  /\ lock'[edit[a].of] = a
                      /\ edit[a].was = bank[edit[a].of]
                      /\ edit[a].live /\ active'[edit[a].of]
    BY DEF EditHoldsRow
  <2>1. /\ edit[a].of \in Employees /\ lock[edit[a].of] = a
        /\ edit[a].was = bank[edit[a].of] /\ edit[a].live /\ active[edit[a].of]
    BY OpenEditTyped
  <2>2. edit[a].of # e
    BY <1>1, <2>1, EmployeeRecordConstants
  <2> QED
    BY <2>1, <2>2 DEF RecordInv, TypeOK, e
<1>5. EndHoldsRow'
  <2> SUFFICES ASSUME NEW o \in Terminators, end'[o] # NoEnd
               PROVE  /\ bank[end'[o].of] # None
                      /\ end'[o].pc = "written" => lock'[end'[o].of] = o
    BY DEF EndHoldsRow
  <2>1. o # t /\ end'[o] = end[o] /\ end[o] # NoEnd
    BY DEF RecordInv, RequestsTyped
  <2>2. /\ bank[end[o].of] # None /\ end[o].of \in Employees
        /\ end[o].pc = "written" => lock[end[o].of] = o
    BY <2>1 DEF RecordInv, EndHoldsRow, RequestsTyped, EndRec
  <2>3. end[o].pc = "written" => end[o].of # e
    BY <1>1, <2>1, <2>2
  <2> QED
    BY <2>1, <2>2, <2>3 DEF RecordInv, TypeOK, e
<1> QED
  BY <1>2, <1>3, <1>4, <1>5

LEMMA RevokeKeepsRecord ==
    ASSUME RecordInv, NEW t \in Terminators, RevokeAndCommit(t)
    PROVE  RecordInv'
<1> DEFINE e == end[t].of
<1>1. /\ end[t].pc = "written"
      /\ active' = [active EXCEPT ![e] = FALSE] /\ login' = [login EXCEPT ![e] = FALSE]
      /\ endings' = [endings EXCEPT ![e] = @ + 1]
      /\ lock' = [lock EXCEPT ![e] = None] /\ end' = [end EXCEPT ![t] = NoEnd]
      /\ UNCHANGED <<bank, phone, edit, edits, told, texts>>
  BY DEF RevokeAndCommit
<1>2. e \in Employees /\ bank[e] # None
  BY <1>1, OpenEndTyped
<1>3. \A o \in Employees \ {e} : active'[o] = active[o]
  BY <1>1 DEF RecordInv, TypeOK
<1>4. /\ lock' \in [Employees -> Editors \cup Terminators \cup {None}]
      /\ RequestsTyped' /\ EditHoldsRow' /\ EndHoldsRow'
  BY <1>1, <1>3, EndKeepsRequests
<1> HIDE DEF e
<1>5. TypeOK'
  BY <1>1, <1>2, <1>4 DEF RecordInv, TypeOK
<1>6. OnlyHired' /\ TerminatedStays' /\ NoLoginAfterEnd' /\ AuditIsCurrent'
  BY <1>1, <1>2 DEF RecordInv, OnlyHired, TerminatedStays, NoLoginAfterEnd, AuditIsCurrent,
     TypeOK
<1> QED
  BY <1>4, <1>5, <1>6 DEF RecordInv

LEMMA EndFailsKeepsRecord ==
    ASSUME RecordInv, NEW t \in Terminators, EndFails(t)
    PROVE  RecordInv'
<1>1. /\ end[t].pc = "written"
      /\ lock' = [lock EXCEPT ![end[t].of] = None] /\ end' = [end EXCEPT ![t] = NoEnd]
      /\ UNCHANGED <<active, bank, phone, login, edit, edits, told, endings, texts>>
  BY DEF EndFails, row, history
<1>2. /\ lock' \in [Employees -> Editors \cup Terminators \cup {None}]
      /\ RequestsTyped' /\ EditHoldsRow' /\ EndHoldsRow'
  BY <1>1, EndKeepsRequests
<1>3. TypeOK'
  BY <1>1, <1>2 DEF RecordInv, TypeOK
<1>4. OnlyHired' /\ TerminatedStays' /\ NoLoginAfterEnd' /\ AuditIsCurrent'
  BY <1>1 DEF RecordInv, OnlyHired, TerminatedStays, NoLoginAfterEnd, AuditIsCurrent
<1> QED
  BY <1>2, <1>3, <1>4 DEF RecordInv

LEMMA NextKeepsRecord == RecordInv /\ [Next]_vars => RecordInv'
<1> SUFFICES ASSUME RecordInv, [Next]_vars
             PROVE  RecordInv'
  OBVIOUS
<1>1. CASE UNCHANGED vars
  BY <1>1 DEF vars, row, history, RecordInv, TypeOK, RequestsTyped, EditHoldsRow,
     EndHoldsRow, OnlyHired, TerminatedStays, NoLoginAfterEnd, AuditIsCurrent
<1>2. CASE Next
  BY <1>2, HireKeepsRecord, OpenEditKeepsRecord, CommitKeepsRecord, RefuseKeepsRecord,
     ReadForEndKeepsRecord, DeactivateKeepsRecord, RevokeKeepsRecord, EndFailsKeepsRecord,
     Zenon
     DEF Next
<1> QED
  BY <1>1, <1>2

\* The inductive invariant holds: an edit under way owns its row, so nothing it has
\* read goes stale, and a termination that has written owns it too.
THEOREM RecordInvariant == Spec => []RecordInv
  BY InitRecord, NextKeepsRecord, PTL DEF Spec

\* A terminated employee stays inactive and without a login that works, however many
\* edits, hires and further terminations overlap (UpdateEmployee, Terminate).
THEOREM TerminationAlwaysStands == Spec => []TerminationStands
<1>1. RecordInv => TerminationStands
  BY DEF RecordInv, TerminationStands
<1> QED
  BY <1>1, RecordInvariant, PTL

-----------------------------------------------------------------------------
(* The audit trail and the texts.                                          *)

\* A commit that moves the bank account or the phone of a login texts the phone it
\* replaces: the bank notice goes to it, or the phone notice does.
LEMMA CommitTells ==
    ASSUME RecordInv, NEW a \in Editors, CommitEdit(a)
    PROVE  FormerHears
<1> DEFINE u == edit[a]
           e == u.of
<1>1. /\ u # NoEdit /\ e \in Employees
      /\ bank' = [bank EXCEPT ![e] = NewBank(u)]
      /\ phone' = [phone EXCEPT ![e] = NewPhone(u)]
  BY CommitWrites
<1>2. texts' = Notices(u)
  BY DEF CommitEdit
<1>3. u.was = bank[e]
  BY <1>1, OpenEditTyped
<1> SUFFICES ASSUME NEW o \in Employees, phone[o] # None,
                    bank'[o] # bank[o] \/ phone'[o] # phone[o]
             PROVE  \E x \in texts' : x.to = phone[o]
  BY DEF FormerHears
<1>4. o = e /\ (NewBank(u) # u.was \/ NewPhone(u) # phone[e])
  BY <1>1, <1>3 DEF RecordInv, TypeOK
<1> HIDE DEF u
<1>5. CASE NewPhone(u) = phone[e]
  <2>1. [to |-> phone[e], about |-> "bank"] \in Notices(u)
    BY <1>4, <1>5 DEF Notices
  <2> QED
    BY <1>2, <1>4, <2>1
<1>6. CASE NewPhone(u) # phone[e]
  <2>1. Moved(u)
    BY <1>4, <1>6 DEF NewPhone, Moved
  <2>2. [to |-> phone[e], about |-> "phone"] \in Notices(u)
    BY <2>1 DEF Notices
  <2> QED
    BY <1>2, <1>4, <2>2
<1> QED
  BY <1>5, <1>6

LEMMA StepTells == RecordInv /\ [Next]_vars => FormerHears
<1> SUFFICES ASSUME RecordInv, [Next]_vars
             PROVE  FormerHears
  OBVIOUS
<1>1. CASE \E a \in Editors : CommitEdit(a)
  BY <1>1, CommitTells
<1>2. ASSUME NEW e \in Employees, NEW b \in Banks, NEW p \in Phones \cup {None}, Hire(e, b, p)
      PROVE  FormerHears
  BY <1>2 DEF Hire, FormerHears, RecordInv, TypeOK
<1>3. ASSUME UNCHANGED <<bank, phone>>
      PROVE  FormerHears
  BY <1>3 DEF FormerHears
<1>4. \/ UNCHANGED <<bank, phone>>
      \/ \E a \in Editors : CommitEdit(a)
      \/ \E e \in Employees, b \in Banks, p \in Phones \cup {None} : Hire(e, b, p)
  BY Zenon DEF Next, vars, OpenEdit, RefuseEdit, ReadForEnd, Deactivate, RevokeAndCommit,
     EndFails, row
<1> QED
  BY <1>1, <1>2, <1>3, <1>4

\* The audit trail's last word is what the rows hold, and the phone that was on file
\* hears of every move of the pay or of the login, whatever edits overlap
\* (UpdateEmployee and its notices).
THEOREM ChangesAlwaysTold == Spec => ChangesAreTold
<1>1. RecordInv => AuditIsCurrent
  BY DEF RecordInv
<1>2. RecordInv /\ [Next]_vars => [FormerHears]_vars
  BY StepTells
<1> QED
  BY <1>1, <1>2, RecordInvariant, PTL DEF Spec, ChangesAreTold, FormerPhoneHears

-----------------------------------------------------------------------------
(* The employer's logins and sessions: the inductive invariant.            *)

Updates == [pc: {"idle", "asked", "locked"}, of: People, role: Access!Roles, active: BOOLEAN]

\* The variables have their types.
Rows ==
    /\ org \in {"none", "created", "ready", "removed", "empty"}
    /\ exists \in [People -> BOOLEAN] /\ enabled \in [People -> BOOLEAN]
    /\ must \in [People -> BOOLEAN]
    /\ role \in [People -> Access!Roles]
    /\ password \in [People -> {"temp", "own"}]
    /\ token \in [People -> Access!Tokens]
    /\ now \in 0 .. Horizon
    /\ orgLock \in SUBSET People
    /\ admin \in [People -> Updates]
    /\ changing \in [People -> Access!Tokens]
    /\ proof \in [People -> 0 .. Horizon] /\ chose \in [People -> BOOLEAN]

\* One update at a time is past the advisory lock.
OneHolder ==
    /\ \A p, q \in orgLock : p = q
    /\ \A p \in People : admin[p].pc = "locked" <=> p \in orgLock

\* Only people who have a row are active, and there are none before onboarding is done.
RowsFirst ==
    /\ org # "ready" => \A p \in People : ~ exists[p]
    /\ \A p \in People : enabled[p] => exists[p]
    /\ \A p \in People : admin[p].pc # "idle" => exists[admin[p].of]

\* What Update found under the lock is so until it commits.
StillAllowed ==
    \A p \in People : admin[p].pc = "locked" =>
        Access!Allowed(admin[p].of, admin[p].role, admin[p].active)

AdminIInv == OneHolder /\ RowsFirst /\ StillAllowed /\ Access!AdminRemains

\* A password that is the person's own was chosen, and so was what a full token shows.
ChosenBefore ==
    \A p \in People : exists[p] /\ ~ must[p] => chose[p]

\* A token starts no later than the last proof of the password, and outlives it by no
\* more than a session and a token's life; a change of password is answered within the
\* hour it was asked.
SessionBounds ==
    \A p \in People :
        /\ token[p].auth <= proof[p] /\ token[p].exp <= proof[p] + MaxAge + TTL
        /\ proof[p] <= now
        /\ changing[p].auth <= proof[p]
        /\ changing[p] # Access!NoToken => proof[p] = now

SessionIInv ==
    /\ Access!FlagFollowsPassword
    /\ Access!FullTokenWasChosen
    /\ ChosenBefore
    /\ SessionBounds

-----------------------------------------------------------------------------
(* Types.                                                                   *)

LEMMA Consts ==
    ASSUME Access!EmployerAccessConstants
    PROVE  /\ First \in People /\ TTL \in Nat /\ TTL >= 1 /\ MaxAge \in Nat
           /\ Horizon \in Nat /\ Access!NoToken \in Access!Tokens /\ Access!Idle \in Updates
<1>1. First \in People /\ TTL \in Nat /\ TTL >= 1 /\ MaxAge \in Nat /\ Horizon \in Nat
  BY DEF Access!EmployerAccessConstants
<1>2. Access!NoToken \in Access!Tokens
  BY <1>1 DEF Access!NoToken, Access!Tokens, Access!Roles
<1>3. Access!Idle \in Updates
  BY <1>1 DEF Access!Idle, Updates, Access!Roles
<1> QED
  BY <1>1, <1>2, <1>3

LEMMA InitRows ==
    ASSUME Access!EmployerAccessConstants, Access!Init
    PROVE  Rows
  BY Consts DEF Access!Init, Rows, Access!Roles

\* What a new row and a new token change.
LEMMA RowTypes ==
    ASSUME Rows, NEW p \in People, NEW r \in Access!Roles, Access!Row(p, r)
    PROVE  /\ exists' \in [People -> BOOLEAN] /\ enabled' \in [People -> BOOLEAN]
           /\ must' \in [People -> BOOLEAN] /\ role' \in [People -> Access!Roles]
           /\ password' \in [People -> {"temp", "own"}]
           /\ exists'[p] /\ enabled'[p] /\ must'[p] /\ role'[p] = r /\ password'[p] = "temp"
           /\ \A q \in People \ {p} :
                /\ exists'[q] = exists[q] /\ enabled'[q] = enabled[q] /\ must'[q] = must[q]
                /\ role'[q] = role[q] /\ password'[q] = password[q]
  BY DEF Rows, Access!Row

LEMMA IssueTypes ==
    ASSUME Rows, NEW p \in People, NEW t \in Access!Tokens, Access!Issue(p, t)
    PROVE  /\ token' \in [People -> Access!Tokens]
           /\ token'[p] \in {t, token[p]}
           /\ \A q \in People \ {p} : token'[q] = token[q]
  BY DEF Rows, Access!Issue

\* The tokens issued are tokens.
LEMMA IssuedTokens ==
    ASSUME Access!EmployerAccessConstants, Rows, NEW p \in People
    PROVE  /\ [auth |-> now, exp |-> now + TTL, must |-> must[p],
            role |-> role[p]] \in Access!Tokens
           /\ Access!Renewed(token[p]) \in Access!Tokens
           /\ Access!Renewed(token[p]).auth = token[p].auth
           /\ Access!Renewed(token[p]).exp = now + TTL
           /\ Access!Renewed(token[p]).must = token[p].must
           /\ [changing[p] EXCEPT !.exp = now + TTL, !.must = FALSE] \in Access!Tokens
           /\ [changing[p] EXCEPT !.exp = now + TTL, !.must = FALSE].auth = changing[p].auth
           /\ [changing[p] EXCEPT !.exp = now + TTL, !.must = FALSE].exp = now + TTL
<1>1. now + TTL \in 0 .. Horizon + TTL
  BY Consts DEF Rows
<1>2. now \in 0 .. Horizon /\ must[p] \in BOOLEAN /\ role[p] \in Access!Roles
      /\ token[p] \in Access!Tokens /\ changing[p] \in Access!Tokens
  BY DEF Rows
<1> QED
  BY <1>1, <1>2 DEF Access!Tokens, Access!Renewed

LEMMA StepRows ==
    ASSUME Access!EmployerAccessConstants, Rows, [Access!Next]_(Access!vars)
    PROVE  Rows'
<1> USE DEF Access!people, Access!history
<1>1. CASE Access!CreateOrg \/ Access!FirstAdminFails
  BY <1>1 DEF Access!CreateOrg, Access!FirstAdminFails, Rows
<1>2. CASE Access!FirstAdmin
  <2>1. Access!Row(First, "admin") /\ org' = "ready"
        /\ UNCHANGED <<token, now, orgLock, admin, changing, proof, chose>>
    BY <1>2 DEF Access!FirstAdmin
  <2>2. First \in People /\ "admin" \in Access!Roles
    BY Consts DEF Access!Roles
  <2> QED
    BY <2>1, <2>2, RowTypes DEF Rows
<1>3. CASE Access!Tick
  BY <1>3, Consts DEF Access!Tick, Rows
<1>4. ASSUME NEW p \in People, Access!LockPeople(p)
      PROVE  Rows'
  <2>1. \A l \in {"locked"} : [admin EXCEPT ![p].pc = l] \in [People -> Updates]
    BY DEF Rows, Updates
  <2>2. [admin EXCEPT ![p] = Access!Idle] \in [People -> Updates]
    BY Consts DEF Rows
  <2>3. admin' \in [People -> Updates]
    BY <1>4, <2>1, <2>2 DEF Access!LockPeople
  <2>4. orgLock' \in SUBSET People
    BY <1>4 DEF Access!LockPeople, Rows
  <2> QED
    BY <1>4, <2>3, <2>4 DEF Access!LockPeople, Rows
<1>5. ASSUME NEW p \in People, Access!CommitUpdate(p)
      PROVE  Rows'
  <2>1. admin[p] \in Updates /\ admin[p].of \in People /\ admin[p].role \in Access!Roles
        /\ admin[p].active \in BOOLEAN
    BY DEF Rows, Updates
  <2>2. role' \in [People -> Access!Roles] /\ enabled' \in [People -> BOOLEAN]
    BY <1>5, <2>1 DEF Access!CommitUpdate, Rows
  <2>3. admin' \in [People -> Updates] /\ orgLock' \in SUBSET People
    BY <1>5, Consts DEF Access!CommitUpdate, Rows
  <2> QED
    BY <1>5, <2>2, <2>3 DEF Access!CommitUpdate, Rows
<1>6. ASSUME NEW p \in People, Access!Login(p)
      PROVE  Rows'
  <2>1. token' \in [People -> Access!Tokens]
    BY <1>6, IssuedTokens, IssueTypes DEF Access!Login
  <2>2. proof' \in [People -> 0 .. Horizon]
    BY <1>6 DEF Access!Login, Rows
  <2> QED
    BY <1>6, <2>1, <2>2 DEF Access!Login, Rows
<1>7. ASSUME NEW p \in People, Access!RefreshToken(p)
      PROVE  Rows'
  <2>1. token' \in [People -> Access!Tokens]
    BY <1>7, IssuedTokens, IssueTypes DEF Access!RefreshToken
  <2> QED
    BY <1>7, <2>1 DEF Access!RefreshToken, Rows
<1>8. ASSUME NEW p \in People, Access!ReadPassword(p)
      PROVE  Rows'
  BY <1>8 DEF Access!ReadPassword, Rows
<1>9. ASSUME NEW p \in People, Access!ChangePassword(p)
      PROVE  Rows'
  <2>1. token' \in [People -> Access!Tokens]
    BY <1>9, IssuedTokens, IssueTypes DEF Access!ChangePassword
  <2>2. changing' \in [People -> Access!Tokens] /\ password' \in [People -> {"temp", "own"}]
    BY <1>9, Consts DEF Access!ChangePassword, Rows
  <2>3. must' \in [People -> BOOLEAN] /\ chose' \in [People -> BOOLEAN]
    BY <1>9 DEF Access!ChangePassword, Rows
  <2> QED
    BY <1>9, <2>1, <2>2, <2>3 DEF Access!ChangePassword, Rows
<1>10. ASSUME NEW p \in People, NEW q \in People, Access!ResetPassword(p, q)
       PROVE  Rows'
  <2>1. password' \in [People -> {"temp", "own"}] /\ must' \in [People -> BOOLEAN]
    BY <1>10 DEF Access!ResetPassword, Rows
  <2> QED
    BY <1>10, <2>1 DEF Access!ResetPassword, Rows
<1>11. ASSUME NEW p \in People, NEW q \in People, NEW r \in Access!Roles, Access!Create(p, q, r)
       PROVE  Rows'
  <2>1. Access!Row(q, r) /\ UNCHANGED <<org, token, now, orgLock, admin, changing, proof, chose>>
    BY <1>11 DEF Access!Create
  <2> QED
    BY <2>1, RowTypes DEF Rows
<1>12. ASSUME NEW p \in People, NEW q \in People, NEW r \in Access!Roles, NEW a \in BOOLEAN,
              Access!AskUpdate(p, q, r, a)
       PROVE  Rows'
  <2>1. [pc |-> "asked", of |-> q, role |-> r, active |-> a] \in Updates
    BY DEF Updates
  <2>2. admin' \in [People -> Updates]
    BY <1>12, <2>1 DEF Access!AskUpdate, Rows
  <2> QED
    BY <1>12, <2>2 DEF Access!AskUpdate, Rows
<1>13. CASE UNCHANGED Access!vars
  BY <1>13 DEF Access!vars, Rows
<1> QED
  BY <1>1, <1>2, <1>3, <1>4, <1>5, <1>6, <1>7, <1>8, <1>9, <1>10, <1>11, <1>12, <1>13
     DEF Access!Next

-----------------------------------------------------------------------------
(* There is always an admin.                                                *)

LEMMA InitAdmin == Access!Init => AdminIInv
<1> SUFFICES ASSUME Access!Init
             PROVE  AdminIInv
  OBVIOUS
<1>1. \A p \in People : admin[p].pc = "idle" /\ ~ exists[p] /\ ~ enabled[p]
  BY DEF Access!Init, Access!Idle
<1>2. OneHolder /\ StillAllowed
  BY <1>1 DEF Access!Init, OneHolder, StillAllowed
<1>3. RowsFirst /\ Access!AdminRemains
  BY <1>1 DEF Access!Init, RowsFirst, Access!AdminRemains
<1> QED
  BY <1>2, <1>3 DEF AdminIInv

\* A row that is new takes nothing from anyone who was there.
LEMMA NewRowKeeps ==
    ASSUME Rows, AdminIInv, NEW q \in People, NEW r \in Access!Roles, ~ exists[q],
            Access!Row(q, r),
           UNCHANGED <<orgLock, admin>>, org' = "ready",
           org = "ready" \/ r = "admin"
    PROVE  AdminIInv'
<1> USE DEF AdminIInv
<1>1. /\ exists'[q] /\ enabled'[q] /\ role'[q] = r
      /\ \A o \in People \ {q} :
            exists'[o] = exists[o] /\ enabled'[o] = enabled[o] /\ role'[o] = role[o]
  BY RowTypes
<1>2. OneHolder'
  BY DEF OneHolder
<1>3. RowsFirst'
  <2>1. \A p \in People : exists[p] => exists'[p]
    BY <1>1
  <2>2. \A p \in People : admin[p].of \in People
    BY DEF Rows, Updates
  <2> QED
    BY <1>1, <2>1, <2>2 DEF RowsFirst
<1>4. StillAllowed'
  <2> SUFFICES ASSUME NEW p \in People, admin[p].pc = "locked",
                      Access!Leaves(admin[p].of, admin[p].role, admin[p].active)'
               PROVE  Access!OtherAdmins(admin[p].of)' # {}
    BY DEF StillAllowed, Access!Allowed
  <2> DEFINE u == admin[p].of
  <2>1. u \in People /\ exists[u] /\ u # q
    BY DEF Rows, Updates, RowsFirst
  <2>2. Access!Leaves(u, admin[p].role, admin[p].active)
    BY <1>1, <2>1 DEF Access!Leaves
  <2>3. Access!OtherAdmins(u) # {}
    BY <2>2 DEF StillAllowed, Access!Allowed
  <2>4. PICK o \in People \ {u} : exists[o] /\ role[o] = "admin" /\ enabled[o]
    BY <2>3 DEF Access!OtherAdmins
  <2>5. exists'[o] /\ role'[o] = "admin" /\ enabled'[o]
    BY <1>1, <2>4
  <2> QED
    BY <2>4, <2>5 DEF Access!OtherAdmins
<1>5. Access!AdminRemains'
  <2>1. CASE r = "admin"
    BY <1>1, <2>1 DEF Access!AdminRemains
  <2>2. CASE org = "ready"
    <3>1. PICK o \in People : exists[o] /\ role[o] = "admin" /\ enabled[o]
      BY <2>2 DEF Access!AdminRemains
    <3>2. exists'[o] /\ role'[o] = "admin" /\ enabled'[o]
      BY <1>1, <3>1
    <3> QED
      BY <3>2 DEF Access!AdminRemains
  <2> QED
    BY <2>1, <2>2
<1> QED
  BY <1>2, <1>3, <1>4, <1>5

LEMMA LockKeepsAdmin ==
    ASSUME Access!EmployerAccessConstants, Rows, AdminIInv, NEW p \in People,
            Access!LockPeople(p)
    PROVE  AdminIInv'
<1> USE DEF AdminIInv
<1>1. /\ admin[p].pc = "asked" /\ orgLock = {} /\ \A q \in People \ {p} : admin'[q] = admin[q]
      /\ UNCHANGED <<org, exists, role, enabled>>
  BY DEF Access!LockPeople, Access!LockFree, Access!people, Rows
<1>2. Access!AdminRemains'
  BY <1>1 DEF Access!AdminRemains
<1>3. CASE Access!Allowed(admin[p].of, admin[p].role, admin[p].active)
  <2>1. /\ orgLock' = {p} /\ admin'[p].pc = "locked" /\ admin'[p].of = admin[p].of
        /\ admin'[p].role = admin[p].role /\ admin'[p].active = admin[p].active
    BY <1>3 DEF Access!LockPeople, Rows, Updates
  <2>2. OneHolder'
    BY <1>1, <2>1 DEF OneHolder
  <2>3. RowsFirst'
    BY <1>1, <2>1 DEF RowsFirst
  <2>4. StillAllowed'
    BY <1>1, <1>3, <2>1 DEF StillAllowed, Access!Allowed, Access!Leaves, Access!OtherAdmins,
            OneHolder
  <2> QED
    BY <1>2, <2>2, <2>3, <2>4
<1>4. CASE ~ Access!Allowed(admin[p].of, admin[p].role, admin[p].active)
  <2>1. orgLock' = orgLock /\ admin'[p].pc = "idle"
    BY <1>4 DEF Access!LockPeople, Rows, Access!Idle
  <2>2. OneHolder'
    BY <1>1, <2>1 DEF OneHolder
  <2>3. RowsFirst'
    BY <1>1, <2>1 DEF RowsFirst
  <2>4. StillAllowed'
    BY <1>1, <2>1 DEF StillAllowed, Access!Allowed, Access!Leaves, Access!OtherAdmins
  <2> QED
    BY <1>2, <2>2, <2>3, <2>4
<1> QED
  BY <1>3, <1>4

LEMMA CommitKeepsAdmin ==
    ASSUME Access!EmployerAccessConstants, Rows, AdminIInv, NEW p \in People,
            Access!CommitUpdate(p)
    PROVE  AdminIInv'
<1> USE DEF AdminIInv
<1> DEFINE u == admin[p].of
           r == admin[p].role
           a == admin[p].active
<1>1. u \in People /\ r \in Access!Roles /\ a \in BOOLEAN
  BY DEF Rows, Updates
<1>2. /\ admin[p].pc = "locked" /\ exists' = exists /\ org' = org
      /\ admin'[p].pc = "idle" /\ \A q \in People \ {p} : admin'[q] = admin[q]
      /\ orgLock' = orgLock \ {p}
  BY DEF Access!CommitUpdate, Rows, Access!Idle
<1>3. role'[u] = r /\ \A q \in People \ {u} : role'[q] = role[q]
  BY <1>1 DEF Access!CommitUpdate, Rows
<1>4. enabled'[u] = a /\ \A q \in People \ {u} : enabled'[q] = enabled[q]
  BY <1>1 DEF Access!CommitUpdate, Rows
<1>5. Access!Allowed(u, r, a) /\ exists[u]
  BY <1>2 DEF StillAllowed, RowsFirst
<1> HIDE DEF u, r, a
<1>6. orgLock' = {} /\ \A q \in People : admin'[q].pc # "locked"
  BY <1>2 DEF OneHolder
<1>7. OneHolder' /\ StillAllowed'
  BY <1>6 DEF OneHolder, StillAllowed
<1>8. RowsFirst'
  BY <1>1, <1>2, <1>4, <1>5 DEF RowsFirst
<1>9. Access!AdminRemains'
  <2> SUFFICES ASSUME org = "ready"
               PROVE  \E o \in People : exists'[o] /\ role'[o] = "admin" /\ enabled'[o]
    BY <1>2 DEF Access!AdminRemains
  <2>1. PICK o \in People : exists[o] /\ role[o] = "admin" /\ enabled[o]
    BY DEF Access!AdminRemains
  <2>2. CASE o # u
    BY <1>2, <1>3, <1>4, <2>1, <2>2
  <2>3. CASE o = u /\ Access!Leaves(u, r, a)
    <3>1. PICK k \in People \ {u} : exists[k] /\ role[k] = "admin" /\ enabled[k]
      BY <1>5, <2>3 DEF Access!Allowed, Access!OtherAdmins
    <3> QED
      BY <1>2, <1>3, <1>4, <3>1
  <2>4. CASE o = u /\ ~ Access!Leaves(u, r, a)
    <3>1. r = "admin" /\ a
      BY <1>1, <2>1, <2>4 DEF Access!Leaves
    <3> QED
      BY <1>1, <1>2, <1>3, <1>4, <1>5, <3>1
  <2> QED
    BY <2>2, <2>3, <2>4
<1> QED
  BY <1>7, <1>8, <1>9

LEMMA StepAdmin ==
    ASSUME Access!EmployerAccessConstants, Rows, AdminIInv, [Access!Next]_(Access!vars)
    PROVE  AdminIInv'
<1> USE DEF Access!people
<1>1. ASSUME UNCHANGED <<exists, role, enabled, orgLock, admin>>,
             org' = org \/ (org # "ready" /\ org' # "ready")
      PROVE  AdminIInv'
  BY <1>1 DEF AdminIInv, OneHolder, RowsFirst, StillAllowed, Access!AdminRemains,
          Access!Allowed, Access!Leaves,
              Access!OtherAdmins
<1>2. CASE Access!FirstAdmin
  <2>1. ~ exists[First] /\ First \in People /\ "admin" \in Access!Roles
    BY <1>2, Consts DEF Access!FirstAdmin, AdminIInv, RowsFirst, Access!Roles
  <2> QED
    BY <1>2, <2>1, NewRowKeeps DEF Access!FirstAdmin
<1>3. ASSUME NEW p \in People, NEW q \in People, NEW r \in Access!Roles, Access!Create(p, q, r)
      PROVE  AdminIInv'
  <2>1. org = "ready"
    BY <1>3 DEF Access!Create, Access!MayManage, Access!LetIn, AdminIInv, RowsFirst
  <2> QED
    BY <1>3, <2>1, NewRowKeeps DEF Access!Create
<1>4. ASSUME NEW p \in People, NEW q \in People, NEW r \in Access!Roles, NEW a \in BOOLEAN,
             Access!AskUpdate(p, q, r, a)
      PROVE  AdminIInv'
  <2>1. /\ admin[p].pc = "idle" /\ exists[q]
        /\ admin'[p].pc = "asked" /\ admin'[p].of = q
        /\ \A o \in People \ {p} : admin'[o] = admin[o]
        /\ UNCHANGED <<org, exists, role, enabled, orgLock>>
    BY <1>4 DEF Access!AskUpdate, Rows
  <2>2. OneHolder' /\ RowsFirst'
    BY <2>1 DEF AdminIInv, OneHolder, RowsFirst
  <2>3. StillAllowed' /\ Access!AdminRemains'
    BY <2>1 DEF AdminIInv, StillAllowed, Access!AdminRemains, Access!Allowed, Access!Leaves,
            Access!OtherAdmins
  <2> QED
    BY <2>2, <2>3 DEF AdminIInv
<1>5. CASE Access!CreateOrg \/ Access!FirstAdminFails \/ Access!Tick \/ UNCHANGED Access!vars
  BY <1>1, <1>5 DEF Access!CreateOrg, Access!FirstAdminFails, Access!Tick, Access!vars
<1>6. ASSUME NEW p \in People,
             \/ Access!Login(p) \/ Access!RefreshToken(p)
             \/ Access!ReadPassword(p) \/ Access!ChangePassword(p)
             \/ \E q \in People : Access!ResetPassword(p, q)
      PROVE  AdminIInv'
  BY <1>1, <1>6 DEF Access!Login, Access!RefreshToken, Access!ReadPassword,
          Access!ChangePassword, Access!ResetPassword
<1> QED
  BY <1>2, <1>3, <1>4, <1>5, <1>6, LockKeepsAdmin, CommitKeepsAdmin DEF Access!Next

\* Update's check and write for any number of admins who demote and deactivate each
\* other at once, while others are added: what was checked under the lock still holds
\* at the commit.
THEOREM AdminInvariant ==
    ASSUME Access!EmployerAccessConstants
    PROVE  Access!Spec => [](Rows /\ AdminIInv)
<1>1. Access!Init => Rows /\ AdminIInv
  BY InitRows, InitAdmin
<1>2. Rows /\ AdminIInv /\ [Access!Next]_(Access!vars) => Rows' /\ AdminIInv'
  BY StepRows, StepAdmin
<1> QED
  BY <1>1, <1>2, PTL DEF Access!Spec

\* A ready organization is never left without an active admin (Update's advisory lock
\* and its count of the other admins).
THEOREM AdminAlwaysRemains ==
    ASSUME Access!EmployerAccessConstants
    PROVE  Access!Spec => []Access!AdminRemains
<1>1. AdminIInv => Access!AdminRemains
  BY DEF AdminIInv
<1> QED
  BY <1>1, AdminInvariant, PTL

-----------------------------------------------------------------------------
(* Sessions end.                                                            *)

LEMMA InitSession ==
    ASSUME Access!EmployerAccessConstants, Access!Init
    PROVE  SessionIInv
<1>1. \A p \in People :
        /\ ~ exists[p] /\ token[p].must /\ token[p].auth = 0 /\ token[p].exp = 0
        /\ changing[p] = Access!NoToken /\ changing[p].auth = 0 /\ proof[p] = 0
  BY DEF Access!Init, Access!NoToken
<1>2. Access!FlagFollowsPassword /\ Access!FullTokenWasChosen /\ ChosenBefore
  BY <1>1 DEF Access!FlagFollowsPassword, Access!FullTokenWasChosen, ChosenBefore
<1>3. now = 0 /\ 0 <= 0 + MaxAge + TTL
  BY Consts DEF Access!Init
<1>4. SessionBounds
  BY <1>1, <1>3 DEF SessionBounds
<1> QED
  BY <1>2, <1>4 DEF SessionIInv

\* A step that issues no token and moves no clock.
LEMMA RowsOnly ==
    ASSUME SessionIInv, UNCHANGED <<token, now, changing, proof, chose>>,
           Access!FlagFollowsPassword',
           \A p \in People : exists'[p] /\ ~ must'[p] => exists[p] /\ ~ must[p]
    PROVE  SessionIInv'
  BY DEF SessionIInv, Access!FullTokenWasChosen, ChosenBefore, SessionBounds

LEMMA RowKeepsSession ==
    ASSUME Rows, SessionIInv, NEW q \in People, NEW r \in Access!Roles, Access!Row(q, r),
           UNCHANGED <<token, now, changing, proof, chose>>
    PROVE  SessionIInv'
<1>1. Access!FlagFollowsPassword'
  BY RowTypes DEF SessionIInv, Access!FlagFollowsPassword
<1>2. \A p \in People : exists'[p] /\ ~ must'[p] => exists[p] /\ ~ must[p]
  BY RowTypes
<1> QED
  BY <1>1, <1>2, RowsOnly

LEMMA LoginKeepsSession ==
    ASSUME Access!EmployerAccessConstants, Rows, SessionIInv, NEW p \in People, Access!Login(p)
    PROVE  SessionIInv'
<1> USE DEF SessionIInv
<1> DEFINE t == [auth |-> now, exp |-> now + TTL, must |-> must[p], role |-> role[p]]
<1>1. exists[p] /\ UNCHANGED <<exists, must, password, now, changing, chose>>
  BY DEF Access!Login, Access!Authenticated, Access!people
<1>2. proof'[p] = now /\ \A q \in People \ {p} : proof'[q] = proof[q]
  BY DEF Access!Login, Rows
<1>3. t \in Access!Tokens /\ t.auth = now /\ t.exp = now + TTL /\ t.must = must[p]
  BY IssuedTokens
<1>4. Access!Issue(p, t)
  BY DEF Access!Login
<1> HIDE DEF t
<1>5. token'[p] \in {t, token[p]} /\ \A q \in People \ {p} : token'[q] = token[q]
  BY <1>3, <1>4, IssueTypes
<1>6. Access!FlagFollowsPassword' /\ ChosenBefore'
  BY <1>1 DEF Access!FlagFollowsPassword, ChosenBefore
<1>7. Access!FullTokenWasChosen'
  BY <1>1, <1>3, <1>5 DEF Access!FullTokenWasChosen, ChosenBefore
<1>8. SessionBounds'
  <2>1. /\ now \in Int /\ MaxAge \in Nat /\ TTL \in Nat
        /\ \A q \in People : /\ token[q].auth \in Int /\ token[q].exp \in Int
                             /\ changing[q].auth \in Int /\ proof[q] \in Int
    BY Consts DEF Rows, Access!Tokens
  <2>2. /\ proof[p] <= now /\ token[p].auth <= proof[p]
        /\ token[p].exp <= proof[p] + MaxAge + TTL /\ changing[p].auth <= proof[p]
    BY DEF SessionBounds
  <2>3. /\ token'[p].auth <= now /\ token'[p].exp <= now + MaxAge + TTL
        /\ changing[p].auth <= now
    BY <1>3, <1>5, <2>1, <2>2
  <2>4. now <= now
    BY <2>1
  <2> QED
    BY <1>1, <1>2, <1>5, <2>3, <2>4 DEF SessionBounds
<1> QED
  BY <1>6, <1>7, <1>8

LEMMA RefreshKeepsSession ==
    ASSUME Access!EmployerAccessConstants, Rows, SessionIInv, NEW p \in People,
            Access!RefreshToken(p)
    PROVE  SessionIInv'
<1> USE DEF SessionIInv
<1>1. /\ now - token[p].auth <= MaxAge
      /\ UNCHANGED <<exists, must, password, now, changing, proof, chose>>
  BY DEF Access!RefreshToken, Access!people, Access!history
<1>2. /\ Access!Renewed(token[p]) \in Access!Tokens
      /\ Access!Renewed(token[p]).auth = token[p].auth
      /\ Access!Renewed(token[p]).exp = now + TTL
      /\ Access!Renewed(token[p]).must = token[p].must
  BY IssuedTokens
<1>3. token'[p] \in {Access!Renewed(token[p]),
        token[p]} /\ \A q \in People \ {p} : token'[q] = token[q]
  BY <1>2, IssueTypes DEF Access!RefreshToken
<1>4. Access!FlagFollowsPassword' /\ ChosenBefore'
  BY <1>1 DEF Access!FlagFollowsPassword, ChosenBefore
<1>5. Access!FullTokenWasChosen'
  BY <1>1, <1>2, <1>3 DEF Access!FullTokenWasChosen
<1>6. SessionBounds'
  <2>1. /\ now \in Int /\ MaxAge \in Nat /\ TTL \in Nat /\ token[p].auth \in Int
        /\ token[p].exp \in Int /\ proof[p] \in Int
    BY Consts DEF Rows, Access!Tokens
  <2>2. token[p].auth <= proof[p] /\ token[p].exp <= proof[p] + MaxAge + TTL
    BY DEF SessionBounds
  <2>3. now + TTL <= proof[p] + MaxAge + TTL
    BY <1>1, <2>1, <2>2
  <2>4. token'[p].auth <= proof[p] /\ token'[p].exp <= proof[p] + MaxAge + TTL
    BY <1>2, <1>3, <2>2, <2>3
  <2> QED
    BY <1>1, <1>3, <2>4 DEF SessionBounds
<1> QED
  BY <1>4, <1>5, <1>6

LEMMA ReadKeepsSession ==
    ASSUME Access!EmployerAccessConstants, Rows, SessionIInv, NEW p \in People,
            Access!ReadPassword(p)
    PROVE  SessionIInv'
<1> USE DEF SessionIInv
<1>1. UNCHANGED <<exists, must, password, now, token, chose>>
  BY DEF Access!ReadPassword, Access!people
<1>2. /\ proof'[p] = now /\ changing'[p] = token[p]
      /\ \A q \in People \ {p} : proof'[q] = proof[q] /\ changing'[q] = changing[q]
  BY DEF Access!ReadPassword, Rows
<1>3. Access!FlagFollowsPassword' /\ ChosenBefore' /\ Access!FullTokenWasChosen'
  BY <1>1 DEF Access!FlagFollowsPassword, ChosenBefore, Access!FullTokenWasChosen
<1>4. SessionBounds'
  <2>1. /\ now \in Int /\ MaxAge \in Nat /\ TTL \in Nat /\ token[p].auth \in Int
        /\ token[p].exp \in Int /\ proof[p] \in Int
    BY Consts DEF Rows, Access!Tokens
  <2>2. /\ token[p].auth <= proof[p] /\ token[p].exp <= proof[p] + MaxAge + TTL
        /\ proof[p] <= now
    BY DEF SessionBounds
  <2>3. token[p].auth <= now /\ token[p].exp <= now + MaxAge + TTL /\ now <= now
    BY <2>1, <2>2
  <2> QED
    BY <1>1, <1>2, <2>3 DEF SessionBounds
<1> QED
  BY <1>3, <1>4

LEMMA ChangeKeepsSession ==
    ASSUME Access!EmployerAccessConstants, Rows, SessionIInv, NEW p \in People,
            Access!ChangePassword(p)
    PROVE  SessionIInv'
<1> USE DEF SessionIInv
<1> DEFINE t == [changing[p] EXCEPT !.exp = now + TTL, !.must = FALSE]
<1>1. changing[p] # Access!NoToken /\ UNCHANGED <<exists, now, proof>> /\ Access!Issue(p, t)
  BY DEF Access!ChangePassword
<1>2. t \in Access!Tokens /\ t.auth = changing[p].auth /\ t.exp = now + TTL
  BY IssuedTokens
<1> HIDE DEF t
<1>3. token'[p] \in {t, token[p]} /\ \A q \in People \ {p} : token'[q] = token[q]
  BY <1>1, <1>2, IssueTypes
<1>4. password'[p] = "own" /\ \A q \in People \ {p} : password'[q] = password[q]
  BY DEF Access!ChangePassword, Rows
<1>5. ~ must'[p] /\ chose'[p]
      /\ \A q \in People \ {p} : must'[q] = must[q] /\ chose'[q] = chose[q]
  BY DEF Access!ChangePassword, Rows
<1>6. changing'[p] = Access!NoToken /\ \A q \in People \ {p} : changing'[q] = changing[q]
  BY DEF Access!ChangePassword, Rows
<1>7. Access!FlagFollowsPassword'
  BY <1>1, <1>4, <1>5 DEF Access!FlagFollowsPassword
<1>8. ChosenBefore' /\ Access!FullTokenWasChosen'
  BY <1>1, <1>3, <1>5 DEF ChosenBefore, Access!FullTokenWasChosen
<1>9. SessionBounds'
  <2>1. /\ now \in Int /\ MaxAge \in Nat /\ TTL \in Nat /\ token[p].auth \in Int
        /\ token[p].exp \in Int /\ proof[p] \in Nat /\ changing[p].auth \in Int
    BY Consts DEF Rows, Access!Tokens
  <2>2. /\ token[p].auth <= proof[p] /\ token[p].exp <= proof[p] + MaxAge + TTL
        /\ proof[p] = now /\ changing[p].auth <= proof[p]
    BY <1>1 DEF SessionBounds
  <2>3. now + TTL <= proof[p] + MaxAge + TTL
    BY <2>1, <2>2
  <2>4. token'[p].auth <= proof[p] /\ token'[p].exp <= proof[p] + MaxAge + TTL
    BY <1>2, <1>3, <2>2, <2>3
  <2>5. Access!NoToken.auth = 0 /\ 0 <= proof[p]
    BY <2>1 DEF Access!NoToken
  <2> QED
    BY <1>1, <1>3, <1>6, <2>4, <2>5 DEF SessionBounds
<1> QED
  BY <1>7, <1>8, <1>9

LEMMA StepSession ==
    ASSUME Access!EmployerAccessConstants, Rows, SessionIInv, [Access!Next]_(Access!vars)
    PROVE  SessionIInv'
<1> USE DEF Access!people, Access!history
<1>1. ASSUME UNCHANGED <<exists, must, password, token, now, changing, proof, chose>>
      PROVE  SessionIInv'
  BY <1>1 DEF SessionIInv, Access!FlagFollowsPassword, Access!FullTokenWasChosen,
          ChosenBefore, SessionBounds
<1>2. CASE Access!FirstAdmin
  <2>1. First \in People /\ "admin" \in Access!Roles
    BY Consts DEF Access!Roles
  <2> QED
    BY <1>2, <2>1, RowKeepsSession DEF Access!FirstAdmin
<1>3. ASSUME NEW p \in People, NEW q \in People, NEW r \in Access!Roles, Access!Create(p, q, r)
      PROVE  SessionIInv'
  BY <1>3, RowKeepsSession DEF Access!Create
<1>4. CASE Access!Tick
  <2>1. /\ now' = now + 1 /\ \A p \in People : changing[p] = Access!NoToken
        /\ UNCHANGED <<exists, must, password, token, changing, proof, chose>>
    BY <1>4 DEF Access!Tick
  <2>2. now \in Int /\ \A p \in People : proof[p] \in Int
    BY DEF Rows
  <2>3. \A p \in People : proof[p] <= now'
    BY <2>1, <2>2 DEF SessionIInv, SessionBounds
  <2>4. SessionBounds'
    BY <2>1, <2>3 DEF SessionIInv, SessionBounds
  <2> QED
    BY <2>1, <2>4 DEF SessionIInv, Access!FlagFollowsPassword, Access!FullTokenWasChosen,
            ChosenBefore
<1>5. ASSUME NEW p \in People, NEW q \in People, Access!ResetPassword(p, q)
      PROVE  SessionIInv'
  <2>1. UNCHANGED <<exists, token, now, changing, proof, chose>>
    BY <1>5 DEF Access!ResetPassword
  <2>2. password'[q] = "temp" /\ \A o \in People \ {q} : password'[o] = password[o]
    BY <1>5 DEF Access!ResetPassword, Rows
  <2>3. must'[q] /\ \A o \in People \ {q} : must'[o] = must[o]
    BY <1>5 DEF Access!ResetPassword, Rows
  <2>4. Access!FlagFollowsPassword'
    BY <2>1, <2>2, <2>3 DEF SessionIInv, Access!FlagFollowsPassword
  <2> QED
    BY <2>1, <2>3, <2>4, RowsOnly
<1>6. CASE Access!CreateOrg \/ Access!FirstAdminFails \/ UNCHANGED Access!vars
  BY <1>1, <1>6 DEF Access!CreateOrg, Access!FirstAdminFails, Access!vars
<1>7. ASSUME NEW p \in People,
             \/ Access!LockPeople(p) \/ Access!CommitUpdate(p)
             \/ \E q \in People, r \in Access!Roles, a \in BOOLEAN : Access!AskUpdate(p, q, r, a)
      PROVE  SessionIInv'
  BY <1>1, <1>7 DEF Access!LockPeople, Access!CommitUpdate, Access!AskUpdate
<1> QED
  BY <1>2, <1>3, <1>4, <1>5, <1>6, <1>7, LoginKeepsSession, RefreshKeepsSession,
     ReadKeepsSession, ChangeKeepsSession DEF Access!Next

\* loginUser, RefreshToken and ChangePassword over any stretch of time: what is known of
\* every token bounds how long refreshing can go on.
THEOREM SessionInvariant ==
    ASSUME Access!EmployerAccessConstants
    PROVE  Access!Spec => []SessionIInv
<1>1. Access!Init => SessionIInv
  BY InitSession
<1>2. Rows /\ SessionIInv /\ [Access!Next]_(Access!vars) => SessionIInv'
  BY StepSession
<1> QED
  BY <1>1, <1>2, AdminInvariant, PTL DEF Access!Spec

\* A session is no longer and no wider than the password behind it (RefreshToken's
\* MaxSessionAge, RequirePasswordChanged), for any life of a token and of a session.
THEOREM SessionsEnd ==
    ASSUME Access!EmployerAccessConstants
    PROVE  Access!Spec => []Access!SessionInv
<1>1. ASSUME Rows, AdminIInv, SessionIInv
      PROVE  Access!SessionInv
  <2>1. Cardinality(orgLock) <= 1
    <3>1. CASE orgLock = {}
      BY <3>1, FS_EmptySet
    <3>2. CASE orgLock # {}
      <4>1. PICK p \in orgLock : orgLock = {p}
        BY <1>1, <3>2 DEF AdminIInv, OneHolder
      <4>2. Cardinality({p}) = 1
        BY FS_Singleton
      <4>3. Cardinality(orgLock) = 1
        BY <4>1, <4>2, Zenon
      <4> QED
        BY <4>3
    <3> QED
      BY <3>1, <3>2
  <2>2. \A p \in People : (admin[p].pc = "locked") = (p \in orgLock)
    BY <1>1 DEF AdminIInv, OneHolder
  <2>3. Access!TypeOK
    <3>1. Access!Cardinality(orgLock) = Cardinality(orgLock)
      BY DEF Access!Cardinality, Cardinality
    <3> QED
      BY <1>1, <2>1, <2>2, <3>1 DEF Rows, Updates, Access!TypeOK
  <2>4. Access!SessionEnds
    <3> SUFFICES ASSUME NEW p \in People, now < token[p].exp
                 PROVE  now - proof[p] < MaxAge + TTL
      BY DEF Access!SessionEnds, Access!TokenValid
    <3>1. now \in Int /\ proof[p] \in Int /\ token[p].exp \in Int
          /\ MaxAge \in Int /\ TTL \in Int
      BY <1>1, Consts DEF Rows, Access!Tokens
    <3>2. token[p].exp <= proof[p] + MaxAge + TTL
      BY <1>1 DEF SessionIInv, SessionBounds
    <3> QED
      BY <3>1, <3>2
  <2> QED
    BY <1>1, <2>3, <2>4 DEF SessionIInv, Access!SessionInv
<1>2. Rows /\ AdminIInv /\ SessionIInv => Access!SessionInv
  BY <1>1
<1> QED
  BY <1>2, AdminInvariant, SessionInvariant, PTL

-----------------------------------------------------------------------------
(* The login codes of one phone.                                            *)

\* The requests counted in the current day that may still store a code.
Pending ==
    {r \in Requests : mine[r] /\ issue[r] \in {"counted", "admitted"} /\ count[r] <= MaxIssues}

\* The day's count covers the codes stored and those that may still be.
CountCovers ==
    /\ IsFiniteSet(Pending)
    /\ stored + Cardinality(Pending) <= daily
    /\ stored + Cardinality(Pending) <= MaxIssues
    /\ \A r \in Requests : issue[r] = "admitted" => count[r] <= MaxIssues

\* What was guessed in the current day, and what its live code may still admit, is
\* covered by the codes stored in it.
GuessesCovered ==
    guessed + (IF today THEN MaxAttempts - compared ELSE 0) <= stored * MaxAttempts

\* A live code was not accepted, and its guesses are counted.
LiveUnspent == code # Code!None => attempts = compared /\ accepted = 0

CodeIInv ==
    /\ Code!TypeOK
    /\ Code!CodeSpentOnce
    /\ LiveUnspent
    /\ CountCovers
    /\ GuessesCovered

LEMMA CodeInit ==
    ASSUME Code!OneTimeCodeConstants, Code!Init
    PROVE  CodeIInv
<1>1. MaxAttempts \in Nat \ {0} /\ MaxIssues \in Nat \ {0}
  BY DEF Code!OneTimeCodeConstants
<1>2. Code!TypeOK
  <2>1. issue \in [Requests -> {"idle", "cooled", "counted", "admitted"}]
        /\ count \in [Requests -> 0 .. MaxIssues + 1] /\ mine \in [Requests -> BOOLEAN]
    BY <1>1 DEF Code!Init
  <2>2. {stored, guessed, compared, accepted} \subseteq Nat
    BY DEF Code!Init
  <2>3. /\ faults \in BOOLEAN /\ cooldown \in BOOLEAN /\ lapses \in BOOLEAN
        /\ today \in BOOLEAN /\ (lapses => daily > 0)
    BY Zenon DEF Code!Init
  <2>4. daily \in 0 .. MaxIssues + 1 /\ attempts \in 0 .. MaxAttempts
        /\ code \in Codes \cup {Code!None}
    BY <1>1 DEF Code!Init
  <2> QED
    BY <2>1, <2>2, <2>3, <2>4, Zenon DEF Code!TypeOK
<1>3. CountCovers
  <2>1. Pending = {}
    BY DEF Code!Init, Pending
  <2>2. IsFiniteSet({}) /\ Cardinality({}) = 0
    BY FS_EmptySet
  <2>3. IsFiniteSet(Pending) /\ Cardinality(Pending) = 0
    BY <2>1, <2>2
  <2>4. \A r \in Requests : issue[r] = "idle"
    BY DEF Code!Init
  <2> QED
    BY <1>1, <2>3, <2>4 DEF CountCovers, Code!Init
<1> QED
  BY <1>1, <1>2, <1>3 DEF CodeIInv, Code!Init, Code!CodeSpentOnce, LiveUnspent, GuessesCovered

\* A step that changes no request's account keeps the count covered.
LEMMA CoverKept ==
    ASSUME CountCovers, UNCHANGED stored, Pending' = Pending, daily' = daily,
           UNCHANGED <<issue, count>>
    PROVE  CountCovers'
  BY DEF CountCovers

\* A request that ends gives back its place.
LEMMA CoverShrinks ==
    ASSUME CodeIInv, Code!OneTimeCodeConstants, NEW r \in Requests,
           issue' = [issue EXCEPT ![r] = "idle"],
           UNCHANGED <<stored, daily, count, mine>>
    PROVE  CountCovers'
<1>1. Pending' \subseteq Pending
  BY DEF CodeIInv, Code!TypeOK, Pending
<1>2. /\ IsFiniteSet(Pending') /\ Cardinality(Pending') <= Cardinality(Pending)
      /\ Cardinality(Pending') \in Nat /\ Cardinality(Pending) \in Nat
  BY <1>1, FS_Subset, FS_CardinalityType DEF CodeIInv, CountCovers
<1>3. stored \in Int /\ daily \in Int /\ MaxIssues \in Int
  BY DEF CodeIInv, Code!TypeOK, Code!OneTimeCodeConstants
<1>4. \A q \in Requests : issue'[q] = "admitted" => count'[q] <= MaxIssues
  BY DEF CodeIInv, CountCovers, Code!TypeOK
<1> QED
  BY <1>2, <1>3, <1>4 DEF CodeIInv, CountCovers

-----------------------------------------------------------------------------
(* Types.                                                                   *)

LEMMA CodeTypes ==
    ASSUME Code!OneTimeCodeConstants, Code!TypeOK, [Code!Next]_(Code!vars)
    PROVE  Code!TypeOK'
<1> USE DEF Code!TypeOK, Code!keys, Code!history, Code!Goto
<1>1. MaxAttempts \in Nat \ {0} /\ MaxIssues \in Nat \ {0}
  BY DEF Code!OneTimeCodeConstants
<1>2. ASSUME NEW r \in Requests, Code!Cooldown(r)
      PROVE  Code!TypeOK'
  BY <1>2 DEF Code!Cooldown
<1>3. ASSUME NEW r \in Requests, Code!CountIssue(r)
      PROVE  Code!TypeOK'
  BY <1>1, <1>3 DEF Code!CountIssue
<1>4. ASSUME NEW r \in Requests, Code!Admit(r)
      PROVE  Code!TypeOK'
  <2>1. issue' \in [Requests -> {"idle", "cooled", "counted", "admitted"}]
    BY <1>4 DEF Code!Admit
  <2>2. lapses' \in BOOLEAN /\ (lapses' => daily > 0)
    <3>1. CASE count[r] = 1
      <4>1. lapses' = (daily > 0)
        BY <1>4, <3>1, Zenon DEF Code!Admit, Code!FirstExpires
      <4>2. (daily > 0) = TRUE \/ (daily > 0) = FALSE
        OBVIOUS
      <4>3. lapses' = TRUE \/ lapses' = FALSE
        BY <4>1, <4>2, Zenon
      <4>4. lapses' = TRUE => daily > 0
        BY <4>1, Zenon
      <4> QED
        BY <4>3, <4>4, Zenon
    <3>2. CASE count[r] # 1
      <4>1. lapses' = lapses
        BY <1>4, <3>2, Zenon DEF Code!Admit, Code!FirstExpires
      <4> QED
        BY <4>1, Zenon
    <3> QED
      BY <3>1, <3>2
  <2> QED
    BY <1>4, <2>1, <2>2 DEF Code!Admit
<1>5. ASSUME NEW r \in Requests, Code!StoreCode(r)
      PROVE  Code!TypeOK'
  BY <1>1, <1>5 DEF Code!StoreCode, Code!ResetAttempts
<1>6. ASSUME NEW r \in Requests, Code!Fails(r) \/ Code!ExpireFails(r)
      PROVE  Code!TypeOK'
  BY <1>6 DEF Code!Fails, Code!ExpireFails
<1>7. ASSUME NEW g \in Codes \cup {Code!None}, Code!Verify(g)
      PROVE  Code!TypeOK'
  BY <1>1, <1>7 DEF Code!Verify, Code!Consume, Code!GuessAllowed
<1>8. ASSUME Code!CooldownLapses \/ Code!DayLapses \/ Code!CodeLapses \/ Code!AttemptsLapse
      PROVE  Code!TypeOK'
  <2>1. CASE Code!CooldownLapses
    BY <2>1 DEF Code!CooldownLapses
  <2>2. CASE Code!DayLapses
    <3>1. /\ daily' \in 0 .. MaxIssues + 1 /\ mine' \in [Requests -> BOOLEAN]
          /\ {stored, guessed, compared, accepted}' \subseteq Nat
      BY <1>1, <2>2 DEF Code!DayLapses
    <3>2. lapses' \in BOOLEAN /\ today' \in BOOLEAN /\ (lapses' => daily' > 0)
      BY <2>2, Zenon DEF Code!DayLapses
    <3> QED
      BY <2>2, <3>1, <3>2, Zenon DEF Code!DayLapses
  <2>3. CASE Code!CodeLapses
    BY <2>3 DEF Code!CodeLapses
  <2>4. CASE Code!AttemptsLapse
    BY <1>1, <2>4 DEF Code!AttemptsLapse
  <2> QED
    BY <1>8, <2>1, <2>2, <2>3, <2>4
<1>9. ASSUME UNCHANGED Code!vars
      PROVE  Code!TypeOK'
  BY <1>9 DEF Code!vars
<1> QED
  BY <1>2, <1>3, <1>4, <1>5, <1>6, <1>7, <1>8, <1>9 DEF Code!Next

-----------------------------------------------------------------------------
(* The steps.                                                               *)

\* INCR takes a place of the day while there is one.
LEMMA CoverCountIssue ==
    ASSUME CodeIInv, Code!OneTimeCodeConstants, NEW r \in Requests, Code!CountIssue(r)
    PROVE  CountCovers'
<1> USE DEF Code!Goto
<1>1. /\ IsFiniteSet(Pending) /\ Cardinality(Pending) \in Nat /\ r \notin Pending
      /\ stored \in Int /\ daily \in 0 .. MaxIssues + 1 /\ MaxIssues \in Nat
      /\ stored + Cardinality(Pending) <= daily /\ stored + Cardinality(Pending) <= MaxIssues
  BY FS_CardinalityType
     DEF CodeIInv, CountCovers, Code!TypeOK, Code!OneTimeCodeConstants, Pending,
         Code!CountIssue
<1>2. \A q \in Requests : issue'[q] = "admitted" => count'[q] <= MaxIssues
  BY DEF CodeIInv, CountCovers, Code!TypeOK, Code!CountIssue
<1>3. stored' = stored
  BY DEF Code!CountIssue
<1>4. CASE daily < MaxIssues
  <2>1. daily' = daily + 1
    BY <1>1, <1>4 DEF Code!CountIssue
  <2>2. Pending' = Pending \cup {r}
    BY <1>1, <1>4, <2>1 DEF CodeIInv, Code!TypeOK, Code!CountIssue, Pending
  <2>3. IsFiniteSet(Pending') /\ Cardinality(Pending') = Cardinality(Pending) + 1
    BY <1>1, <2>2, FS_AddElement
  <2> QED
    BY <1>1, <1>2, <1>3, <1>4, <2>1, <2>3 DEF CountCovers
<1>5. CASE daily >= MaxIssues
  <2>1. daily' = MaxIssues + 1
    BY <1>1, <1>5 DEF Code!CountIssue
  <2>2. Pending' = Pending
    BY <1>1, <1>5, <2>1 DEF CodeIInv, Code!TypeOK, Code!CountIssue, Pending
  <2> QED
    BY <1>1, <1>2, <1>3, <2>1, <2>2 DEF CountCovers
<1> QED
  BY <1>1, <1>4, <1>5

\* A request that goes on, within the cap or because EXPIRE failed, keeps its place.
LEMMA CoverAdmit ==
    ASSUME CodeIInv, Code!OneTimeCodeConstants, NEW r \in Requests,
           Code!Admit(r) \/ Code!ExpireFails(r)
    PROVE  CountCovers'
<1> USE DEF Code!Goto
<1>1. CASE issue' = [issue EXCEPT ![r] = "idle"]
  <2>1. UNCHANGED <<stored, daily, count, mine>>
    BY DEF Code!Admit, Code!ExpireFails, Code!history, Code!keys
  <2> QED
    BY <1>1, <2>1, CoverShrinks
<1>2. CASE issue' = [issue EXCEPT ![r] = "admitted"] /\ count[r] <= MaxIssues
  <2>1. UNCHANGED <<stored, daily, count, mine>> /\ issue[r] = "counted"
    BY DEF Code!Admit, Code!ExpireFails, Code!history, Code!keys
  <2>2. Pending' = Pending
    BY <1>2, <2>1 DEF CodeIInv, Code!TypeOK, Pending
  <2> QED
    BY <1>2, <2>1, <2>2 DEF CodeIInv, CountCovers, Code!TypeOK
<1>3. \/ issue' = [issue EXCEPT ![r] = "idle"]
      \/ issue' = [issue EXCEPT ![r] = "admitted"] /\ count[r] <= MaxIssues
  <2>1. CASE Code!Admit(r)
    BY <2>1, Zenon DEF Code!Admit, Code!WithinCap
  <2>2. CASE Code!ExpireFails(r)
    BY <2>2 DEF Code!ExpireFails, Code!OneTimeCodeConstants
  <2> QED
    BY <2>1, <2>2
<1> QED
  BY <1>1, <1>2, <1>3

\* A stored code takes the place of the request that stored it.
LEMMA CoverStoreCode ==
    ASSUME CodeIInv, Code!OneTimeCodeConstants, NEW r \in Requests, Code!StoreCode(r)
    PROVE  CountCovers'
<1> USE DEF Code!Goto
<1>1. issue' = [issue EXCEPT ![r] = "idle"] /\ UNCHANGED <<daily, count, mine>>
      /\ issue[r] = "admitted"
  BY DEF Code!StoreCode
<1>2. CASE ~ mine[r]
  <2>1. stored' = stored
    BY <1>2, Zenon DEF Code!StoreCode
  <2> QED
    BY <1>1, <2>1, CoverShrinks
<1>3. CASE mine[r]
  <2>1. stored' = stored + 1
    BY <1>3, Zenon DEF Code!StoreCode
  <2>2. r \in Pending
    BY <1>1, <1>3 DEF CodeIInv, CountCovers, Pending
  <2>3. Pending' = Pending \ {r}
    BY <1>1 DEF CodeIInv, Code!TypeOK, Pending
  <2>4. /\ IsFiniteSet(Pending') /\ Cardinality(Pending') = Cardinality(Pending) - 1
        /\ Cardinality(Pending) \in Nat
    BY <2>2, <2>3, FS_RemoveElement, FS_CardinalityType DEF CodeIInv, CountCovers
  <2>5. stored \in Int /\ daily \in Int /\ MaxIssues \in Int
    BY DEF CodeIInv, Code!TypeOK, Code!OneTimeCodeConstants
  <2>6. \A q \in Requests : issue'[q] = "admitted" => count'[q] <= MaxIssues
    BY <1>1 DEF CodeIInv, CountCovers, Code!TypeOK
  <2> QED
    BY <1>1, <2>1, <2>4, <2>5, <2>6 DEF CodeIInv, CountCovers
<1> QED
  BY <1>2, <1>3

\* A new day starts with nothing on its account.
LEMMA CoverDayLapses ==
    ASSUME CodeIInv, Code!OneTimeCodeConstants, Code!DayLapses
    PROVE  CountCovers'
<1>1. Pending' = {}
  BY DEF Code!DayLapses, Pending
<1>2. IsFiniteSet({}) /\ Cardinality({}) = 0
  BY FS_EmptySet
<1>3. IsFiniteSet(Pending') /\ Cardinality(Pending') = 0
  BY <1>1, <1>2
<1>4. stored' = 0 /\ daily' = 0 /\ MaxIssues \in Nat /\ UNCHANGED <<issue, count>>
  BY DEF Code!DayLapses, Code!OneTimeCodeConstants
<1> QED
  BY <1>3, <1>4 DEF CodeIInv, CountCovers
\* The guesses at a code, and their account.
Guesses == Code!CodeSpentOnce /\ LiveUnspent /\ GuessesCovered

\* What a step does to the guesses: nothing, while the code and its guesses stand or
\* the code has gone.
LEMMA GuessesKept ==
    ASSUME CodeIInv, UNCHANGED <<stored, guessed, today, compared, accepted>>,
           UNCHANGED <<code, attempts>> \/ code' = Code!None
    PROVE  Guesses'
  BY DEF CodeIInv, Guesses, Code!CodeSpentOnce, LiveUnspent, GuessesCovered

LEMMA GuessesStoreCode ==
    ASSUME CodeIInv, Code!OneTimeCodeConstants, NEW r \in Requests, Code!StoreCode(r)
    PROVE  Guesses'
<1>1. /\ attempts' = 0 /\ compared' = 0 /\ accepted' = 0 /\ guessed' = guessed
      /\ today' = mine[r]
  BY DEF Code!StoreCode, Code!ResetAttempts
<1>2. /\ MaxAttempts \in Nat /\ stored \in Nat /\ guessed \in Nat /\ compared \in Nat
      /\ compared <= MaxAttempts /\ stored * MaxAttempts \in Nat
      /\ guessed <= stored * MaxAttempts
  BY DEF CodeIInv, Code!TypeOK, Code!OneTimeCodeConstants, Code!CodeSpentOnce, GuessesCovered
<1>3. Code!CodeSpentOnce' /\ LiveUnspent'
  BY <1>1, <1>2 DEF Code!CodeSpentOnce, LiveUnspent
<1>4. CASE mine[r]
  <2>1. stored' = stored + 1
    BY <1>4, Zenon DEF Code!StoreCode
  <2>2. stored' * MaxAttempts = stored * MaxAttempts + MaxAttempts
    BY <1>2, <2>1
  <2>3. GuessesCovered'
    BY <1>1, <1>2, <2>2 DEF GuessesCovered
  <2> QED
    BY <1>3, <2>3 DEF Guesses
<1>5. CASE ~ mine[r]
  <2>1. stored' = stored
    BY <1>5, Zenon DEF Code!StoreCode
  <2>2. (IF today' THEN MaxAttempts - compared' ELSE 0) = 0
    BY <1>1, <1>5, Zenon
  <2>3. GuessesCovered'
    BY <1>1, <1>2, <2>1, <2>2 DEF GuessesCovered
  <2> QED
    BY <1>3, <2>3 DEF Guesses
<1> QED
  BY <1>4, <1>5

\* A guess is compared only while one is left, and an accepted one spends the code.
LEMMA GuessesVerify ==
    ASSUME CodeIInv, Code!OneTimeCodeConstants, NEW g, Code!Verify(g)
    PROVE  Guesses'
<1>1. /\ MaxAttempts \in Nat /\ stored \in Nat /\ guessed \in Nat /\ compared \in Nat
      /\ stored * MaxAttempts \in Nat /\ code # Code!None
      /\ UNCHANGED <<stored, today>>
  BY DEF CodeIInv, Code!TypeOK, Code!OneTimeCodeConstants, Code!Verify
<1>2. CASE ~ Code!GuessAllowed
  <2>1. code' = Code!None /\ UNCHANGED <<stored, guessed, today, compared, accepted>>
    BY <1>2, Zenon DEF Code!Verify, Code!Consume
  <2> QED
    BY <2>1, GuessesKept
<1>3. CASE Code!GuessAllowed
  <2>1. /\ attempts = compared /\ accepted = 0 /\ compared + 1 <= MaxAttempts
        /\ compared' = compared + 1
    BY <1>1, <1>3 DEF CodeIInv, LiveUnspent, Code!GuessAllowed, Code!Verify
  <2>2. \/ code' = Code!None /\ accepted' = 1
        \/ attempts' = attempts + 1 /\ accepted' = 0
    BY <1>3, <2>1 DEF Code!Verify, Code!Consume
  <2>3. Code!CodeSpentOnce' /\ LiveUnspent'
    BY <1>1, <2>1, <2>2 DEF Code!CodeSpentOnce, LiveUnspent
  <2>4. CASE today
    <3>1. guessed' = guessed + 1
      BY <1>3, <2>4, Zenon DEF Code!Verify
    <3> QED
      BY <1>1, <2>1, <2>3, <2>4, <3>1 DEF CodeIInv, Guesses, GuessesCovered
  <2>5. CASE ~ today
    <3>1. guessed' = guessed
      BY <1>3, <2>5, Zenon DEF Code!Verify
    <3> QED
      BY <1>1, <2>1, <2>3, <2>5, <3>1 DEF CodeIInv, Guesses, GuessesCovered
  <2> QED
    BY <2>4, <2>5
<1> QED
  BY <1>2, <1>3

LEMMA GuessesDayLapses ==
    ASSUME CodeIInv, Code!OneTimeCodeConstants, Code!DayLapses
    PROVE  Guesses'
<1>1. /\ stored' = 0 /\ guessed' = 0 /\ today' = FALSE
      /\ UNCHANGED <<code, attempts, compared, accepted>>
  BY DEF Code!DayLapses
<1>2. MaxAttempts \in Nat
  BY DEF Code!OneTimeCodeConstants
<1> QED
  BY <1>1, <1>2
     DEF CodeIInv, Guesses, Code!CodeSpentOnce, LiveUnspent, GuessesCovered

LEMMA CodeStep ==
    ASSUME Code!OneTimeCodeConstants, CodeIInv, [Code!Next]_(Code!vars)
    PROVE  CodeIInv'
<1> USE DEF Code!keys, Code!history, Code!Goto
<1>1. Code!TypeOK'
  BY CodeTypes DEF CodeIInv
<1> SUFFICES CountCovers' /\ Guesses'
  BY <1>1 DEF CodeIInv, Guesses
<1>2. ASSUME NEW r \in Requests, Code!Cooldown(r)
      PROVE  CountCovers' /\ Guesses'
  <2>1. /\ issue[r] = "idle" /\ issue' = [issue EXCEPT ![r] = "cooled"]
        /\ UNCHANGED <<code, attempts, stored, guessed, today, compared, accepted>>
        /\ UNCHANGED <<stored, daily, count, mine>>
    BY <1>2 DEF Code!Cooldown
  <2>2. Pending' = Pending
    BY <2>1 DEF CodeIInv, Code!TypeOK, Pending
  <2>3. \A q \in Requests : issue'[q] = "admitted" => count'[q] <= MaxIssues
    BY <2>1 DEF CodeIInv, CountCovers, Code!TypeOK
  <2> QED
    BY <2>1, <2>2, <2>3, GuessesKept DEF CodeIInv, CountCovers
<1>3. ASSUME NEW r \in Requests, Code!CountIssue(r)
      PROVE  CountCovers' /\ Guesses'
  BY <1>3, CoverCountIssue, GuessesKept DEF Code!CountIssue
<1>4. ASSUME NEW r \in Requests, Code!Admit(r) \/ Code!ExpireFails(r)
      PROVE  CountCovers' /\ Guesses'
  BY <1>4, CoverAdmit, GuessesKept DEF Code!Admit, Code!ExpireFails
<1>5. ASSUME NEW r \in Requests, Code!StoreCode(r)
      PROVE  CountCovers' /\ Guesses'
  BY <1>5, CoverStoreCode, GuessesStoreCode
<1>6. ASSUME NEW r \in Requests, Code!Fails(r)
      PROVE  CountCovers' /\ Guesses'
  BY <1>6, CoverShrinks, GuessesKept DEF Code!Fails
<1>7. ASSUME NEW g \in Codes \cup {Code!None}, Code!Verify(g)
      PROVE  CountCovers' /\ Guesses'
  <2>1. UNCHANGED <<stored, daily, issue, count, mine>>
    BY <1>7 DEF Code!Verify
  <2>2. Pending' = Pending
    BY <2>1 DEF Pending
  <2> QED
    BY <1>7, <2>1, <2>2, CoverKept, GuessesVerify DEF CodeIInv
<1>8. ASSUME Code!DayLapses
      PROVE  CountCovers' /\ Guesses'
  BY <1>8, CoverDayLapses, GuessesDayLapses
<1>9. ASSUME \/ Code!CooldownLapses \/ Code!CodeLapses \/ Code!AttemptsLapse
             \/ UNCHANGED Code!vars
      PROVE  CountCovers' /\ Guesses'
  <2>1. /\ UNCHANGED <<stored, daily, issue, count, mine>>
        /\ UNCHANGED <<guessed, today, compared, accepted>>
        /\ UNCHANGED <<code, attempts>> \/ code' = Code!None
    BY <1>9 DEF Code!CooldownLapses, Code!CodeLapses, Code!AttemptsLapse, Code!vars
  <2>2. Pending' = Pending
    BY <2>1 DEF Pending
  <2> QED
    BY <2>1, <2>2, CoverKept, GuessesKept DEF CodeIInv
<1> QED
  BY <1>2, <1>3, <1>4, <1>5, <1>6, <1>7, <1>8, <1>9 DEF Code!Next

\* Issue and verifyScript, for any number of overlapping requests and any caps: the
\* day's count covers the codes stored and those still to be, and the codes stored cover
\* the guesses compared.
THEOREM CodeInvariant ==
    ASSUME Code!OneTimeCodeConstants
    PROVE  Code!Init /\ [][Code!Next]_(Code!vars) => []CodeIInv
<1>1. Code!Init => CodeIInv
  BY CodeInit
<1>2. CodeIInv /\ [Code!Next]_(Code!vars) => CodeIInv'
  BY CodeStep
<1> QED
  BY <1>1, <1>2, PTL

\* OneTimeCode!CodeWithinLimits: whichever key lapses or is lost first, a code is used
\* once and guessed at maxOTPAttempts times at most, and a day has no more codes and
\* guesses than its cap allows.
THEOREM CodesAlwaysWithinLimits ==
    ASSUME Code!OneTimeCodeConstants
    PROVE  Code!Init /\ [][Code!Next]_(Code!vars) => []Code!CodeWithinLimits
<1>1. CodeIInv => Code!CodeWithinLimits
  <2> SUFFICES ASSUME CodeIInv
               PROVE  Code!CodeWithinLimits
    OBVIOUS
  <2>1. /\ MaxAttempts \in Nat /\ MaxIssues \in Nat /\ stored \in Nat /\ guessed \in Nat
        /\ compared \in Nat
    BY DEF CodeIInv, Code!TypeOK, Code!OneTimeCodeConstants
  <2>2. stored <= MaxIssues
    <3>1. Cardinality(Pending) \in Nat
      BY FS_CardinalityType DEF CodeIInv, CountCovers
    <3> QED
      BY <2>1, <3>1 DEF CodeIInv, CountCovers
  <2>3. guessed <= stored * MaxAttempts
    BY <2>1 DEF CodeIInv, GuessesCovered, Code!CodeSpentOnce
  <2>4. stored * MaxAttempts <= MaxIssues * MaxAttempts
    <3>1. (MaxIssues - stored) * MaxAttempts >= 0
      BY <2>1, <2>2
    <3> QED
      BY <2>1, <3>1
  <2>5. MaxIssues * MaxAttempts \in Nat /\ stored * MaxAttempts \in Nat
    BY <2>1
  <2>6. Code!DayBudget
    BY <2>1, <2>2, <2>3, <2>4, <2>5 DEF Code!DayBudget
  <2>7. Code!FreshCodeHasAllGuesses
    BY DEF CodeIInv, LiveUnspent, Code!FreshCodeHasAllGuesses
  <2> QED
    BY <2>6, <2>7 DEF CodeIInv, Code!CodeWithinLimits
<1> QED
  BY <1>1, CodeInvariant, PTL

-----------------------------------------------------------------------------
(* A company's policies and a worker's protected payday.                    *)

PolicyTxns == [kind : {"policy"}, update : Policy!Updates, read : Policy!Policies]
FloorTxns == [kind : {"floor"}, amount : Amounts, at : 0 .. MaxTime]

PolicyTypes ==
    /\ settings \in Policy!Policies \cup {Policy!NoRow}
    /\ floor \in Policy!Preferences
    /\ hour \in 0 .. MaxTime
    /\ txn \in [Txns -> {Policy!Idle} \cup PolicyTxns \cup FloorTxns]
    /\ audit \in [before : Policy!Policies, after : Policy!Policies]
    /\ overtaken \subseteq {t \in Txns : txn[t] # Policy!Idle}

\* What a transaction asks for has been checked.
AskedIsChecked ==
    \A t \in Txns : /\ txn[t].kind = "policy" => Policy!Accepts(txn[t].update)
                    /\ txn[t].kind = "floor" => txn[t].at <= hour

\* What a transaction read is so, and what it found allowed stays so, until it commits
\* or another one overtakes it.
ReadsStand ==
    \A t \in Txns \ overtaken :
        /\ txn[t].kind = "policy" => txn[t].read = Policy!PolicyTx
        /\ txn[t].kind = "floor" => Policy!MayLower(txn[t].amount)

PolicyIInv == PolicyTypes /\ AskedIsChecked /\ ReadsStand /\ audit.after = Policy!PolicyTx

\* The policy in force is one.
LEMMA PolicyInForce ==
    ASSUME Policy!PolicySettingsConstants, PolicyTypes
    PROVE  Policy!PolicyTx \in Policy!Policies
  BY DEF Policy!PolicySettingsConstants, PolicyTypes, Policy!PolicyTx

\* An update whose values are accepted makes a policy of a policy.
LEMMA AppliedIsPolicy ==
    ASSUME Policy!PolicySettingsConstants, NEW u \in Policy!Updates, NEW p \in Policy!Policies, Policy!Accepts(u)
    PROVE  /\ Policy!Apply(u, p) \in Policy!Policies
           /\ Policy!Apply(u, p) # Policy!NoRow
<1>1. PICK F \in SUBSET Fields : u \in [F -> Offered]
  BY DEF Policy!Updates
<1>2. /\ p \in [Fields -> Offered] /\ DOMAIN u = F
      /\ \A f \in Fields : p[f] \in Valid[f]
      /\ \A f \in F : u[f] \in Offered /\ u[f] \in Valid[f]
  BY <1>1 DEF Policy!Policies, Policy!Accepts
<1>3. Policy!Apply(u, p) \in Policy!Policies
  BY <1>2 DEF Policy!Policies, Policy!Apply
<1> QED
  BY <1>3 DEF Policy!PolicySettingsConstants

\* The amounts compared are numbers.
LEMMA AmountsAreInts ==
    ASSUME Policy!PolicySettingsConstants, PolicyTypes
    PROVE  floor.amount \in Int /\ \A a \in Amounts : a \in Int
<1>1. \A a \in Amounts : a \in Int
  BY DEF Policy!PolicySettingsConstants
<1>2. floor.amount \in Amounts \cup {0}
  BY DEF PolicyTypes, Policy!Preferences
<1> QED
  BY <1>1, <1>2

LEMMA PolicyInit ==
    ASSUME Policy!PolicySettingsConstants, Policy!Init
    PROVE  PolicyIInv
<1>1. /\ Default \in Policy!Policies /\ MaxTime \in Nat
      /\ settings = Policy!NoRow /\ audit = [before |-> Default, after |-> Default]
      /\ txn = [t \in Txns |-> Policy!Idle] /\ overtaken = {}
  BY DEF Policy!PolicySettingsConstants, Policy!Init
<1>2. PolicyTypes
  BY <1>1 DEF Policy!Init, PolicyTypes, Policy!Preferences
<1>3. AskedIsChecked /\ ReadsStand
  BY <1>1 DEF AskedIsChecked, ReadsStand, Policy!Idle
<1> QED
  BY <1>1, <1>2, <1>3 DEF PolicyIInv, Policy!PolicyTx

\* What is under way is idle or one of the two kinds of transaction.
LEMMA TxnKinds ==
    ASSUME PolicyTypes, NEW t \in Txns
    PROVE  /\ txn[t].kind = "policy" => txn[t] \in PolicyTxns
           /\ txn[t].kind = "floor" => txn[t] \in FloorTxns
           /\ txn[t].kind \in {"policy", "floor"} <=> txn[t] # Policy!Idle
<1>1. txn[t] \in {Policy!Idle} \cup PolicyTxns \cup FloorTxns
  BY DEF PolicyTypes
<1>2. Policy!Idle.kind = "idle"
  BY DEF Policy!Idle
<1> QED
  BY <1>1, <1>2 DEF PolicyTxns, FloorTxns

\* A transaction that begins has read what is in force.
LEMMA PolicyBegins ==
    ASSUME Policy!PolicySettingsConstants, PolicyIInv, NEW t \in Txns,
           \/ \E u \in Policy!Updates : Policy!ReadPolicy(t, u)
           \/ \E a \in Amounts : Policy!ReadFloor(t, a)
    PROVE  PolicyIInv'
<1> USE DEF Policy!Becomes
<1>1. UNCHANGED <<settings, floor, hour, audit, overtaken>> /\ txn[t] = Policy!Idle
  BY DEF Policy!ReadPolicy, Policy!ReadFloor
<1>2. Policy!PolicyTx \in Policy!Policies /\ hour \in Nat /\ hour \in 0 .. MaxTime
  BY PolicyInForce DEF PolicyIInv, PolicyTypes, Policy!PolicySettingsConstants
<1>3. \E x \in PolicyTxns \cup FloorTxns :
          /\ txn' = [txn EXCEPT ![t] = x]
          /\ x.kind = "policy" => Policy!Accepts(x.update) /\ x.read = Policy!PolicyTx
          /\ x.kind = "floor" => x.at <= hour /\ Policy!MayLower(x.amount)
  <2>1. ASSUME NEW u \in Policy!Updates, Policy!ReadPolicy(t, u)
        PROVE  <1>3
    <3> DEFINE x == [kind |-> "policy", update |-> u, read |-> Policy!PolicyTx]
    <3>1. x \in PolicyTxns /\ txn' = [txn EXCEPT ![t] = x] /\ Policy!Accepts(u)
      BY <1>2, <2>1 DEF Policy!ReadPolicy, PolicyTxns
    <3>2. x.kind = "policy" /\ x.update = u /\ x.read = Policy!PolicyTx
      OBVIOUS
    <3> HIDE DEF x
    <3>3. x \in PolicyTxns \cup FloorTxns /\ x.kind # "floor"
      BY <3>1, <3>2
    <3> QED
      BY <3>1, <3>2, <3>3
  <2>2. ASSUME NEW a \in Amounts, Policy!ReadFloor(t, a)
        PROVE  <1>3
    <3> DEFINE x == [kind |-> "floor", amount |-> a, at |-> hour]
    <3>1. x \in FloorTxns /\ txn' = [txn EXCEPT ![t] = x] /\ Policy!MayLower(a)
      BY <1>2, <2>2 DEF Policy!ReadFloor, FloorTxns
    <3>2. x.kind = "floor" /\ x.amount = a /\ x.at = hour /\ hour <= hour
      BY <1>2
    <3> HIDE DEF x
    <3>3. x \in PolicyTxns \cup FloorTxns /\ x.kind # "policy"
      BY <3>1, <3>2
    <3> QED
      BY <3>1, <3>2, <3>3
  <2> QED
    BY <2>1, <2>2
<1>4. PICK x \in PolicyTxns \cup FloorTxns :
          /\ txn' = [txn EXCEPT ![t] = x]
          /\ x.kind = "policy" => Policy!Accepts(x.update) /\ x.read = Policy!PolicyTx
          /\ x.kind = "floor" => x.at <= hour /\ Policy!MayLower(x.amount)
  BY <1>3
<1>5. txn'[t] = x /\ \A u \in Txns \ {t} : txn'[u] = txn[u]
  BY <1>4 DEF PolicyIInv, PolicyTypes
<1>6. Policy!PolicyTx' = Policy!PolicyTx
  BY <1>1 DEF Policy!PolicyTx
<1>7. PolicyTypes'
  <2>1. overtaken' \subseteq {u \in Txns : txn'[u] # Policy!Idle}
    BY <1>1, <1>5 DEF PolicyIInv, PolicyTypes
  <2> QED
    BY <1>1, <1>4, <2>1 DEF PolicyIInv, PolicyTypes
<1>8. AskedIsChecked'
  <2> SUFFICES ASSUME NEW u \in Txns
               PROVE  /\ txn'[u].kind = "policy" => Policy!Accepts(txn'[u].update)
                      /\ txn'[u].kind = "floor" => txn'[u].at <= hour
    BY <1>1 DEF AskedIsChecked, Policy!Accepts
  <2> QED
    BY <1>4, <1>5 DEF PolicyIInv, AskedIsChecked
<1>9. ReadsStand'
  <2> SUFFICES ASSUME NEW u \in Txns, u \notin overtaken
               PROVE  /\ txn'[u].kind = "policy" => txn'[u].read = Policy!PolicyTx
                      /\ txn'[u].kind = "floor" => Policy!MayLower(txn'[u].amount)
    BY <1>1, <1>6 DEF ReadsStand, Policy!MayLower
  <2> QED
    BY <1>4, <1>5 DEF PolicyIInv, ReadsStand
<1> QED
  BY <1>1, <1>6, <1>7, <1>8, <1>9 DEF PolicyIInv

\* A transaction that commits overtakes those that read what it writes.
LEMMA PolicyCommits ==
    ASSUME Policy!PolicySettingsConstants, PolicyIInv, NEW t \in Txns,
           Policy!UpdatePolicy(t) \/ Policy!SetProtectedPayday(t)
    PROVE  PolicyIInv'
<1> USE DEF Policy!Becomes, Policy!Commits
<1>1. /\ txn' = [txn EXCEPT ![t] = Policy!Idle] /\ hour' = hour
      /\ txn \in [Txns -> {Policy!Idle} \cup PolicyTxns \cup FloorTxns]
  BY DEF PolicyIInv, PolicyTypes, Policy!UpdatePolicy, Policy!SetProtectedPayday
<1>2. txn'[t] = Policy!Idle /\ \A u \in Txns \ {t} : txn'[u] = txn[u]
  BY <1>1
<1>3. overtaken' \subseteq {u \in Txns : txn'[u] # Policy!Idle}
  <2>1. \A u \in Txns : txn[u].kind \in {"policy", "floor"} => txn[u] # Policy!Idle
    BY TxnKinds DEF PolicyIInv
  <2>2. overtaken' \subseteq
            (overtaken \cup {u \in Txns : txn[u].kind \in {"policy", "floor"}}) \ {t}
    BY DEF Policy!UpdatePolicy, Policy!SetProtectedPayday
  <2> QED
    BY <1>2, <2>1, <2>2 DEF PolicyIInv, PolicyTypes
<1>4. AskedIsChecked'
  <2> SUFFICES ASSUME NEW u \in Txns
               PROVE  /\ txn'[u].kind = "policy" => Policy!Accepts(txn'[u].update)
                      /\ txn'[u].kind = "floor" => txn'[u].at <= hour
    BY <1>1 DEF AskedIsChecked, Policy!Accepts
  <2>1. Policy!Idle.kind \notin {"policy", "floor"}
    BY DEF Policy!Idle
  <2> QED
    BY <1>2, <2>1 DEF PolicyIInv, AskedIsChecked
<1>5. CASE Policy!UpdatePolicy(t)
  <2>1. txn[t] \in PolicyTxns
    BY <1>5, TxnKinds DEF PolicyIInv, Policy!UpdatePolicy
  <2>2. /\ settings' \in Policy!Policies /\ settings' # Policy!NoRow /\ floor' = floor
        /\ audit' = [before |-> txn[t].read, after |-> settings']
    <3>1. /\ txn[t].update \in Policy!Updates /\ txn[t].read \in Policy!Policies
          /\ Policy!Accepts(txn[t].update)
      BY <2>1 DEF PolicyTxns, PolicyIInv, AskedIsChecked
    <3> QED
      BY <1>5, <3>1, AppliedIsPolicy DEF Policy!UpdatePolicy, Policy!Before
  <2>3. PolicyTypes'
    BY <1>1, <1>3, <2>1, <2>2 DEF PolicyIInv, PolicyTypes, PolicyTxns
  <2>4. ReadsStand'
    <3> SUFFICES ASSUME NEW u \in Txns, u \notin overtaken'
                 PROVE  txn'[u].kind \notin {"policy", "floor"}
      BY DEF ReadsStand
    <3>1. overtaken' = (overtaken \cup {v \in Txns : txn[v].kind \in {"policy", "floor"}}) \ {t}
      BY <1>5 DEF Policy!UpdatePolicy
    <3> QED
      BY <1>2, <3>1 DEF Policy!Idle
  <2> QED
    BY <1>4, <2>2, <2>3, <2>4 DEF PolicyIInv, Policy!PolicyTx
<1>6. CASE Policy!SetProtectedPayday(t)
  <2>1. txn[t] \in FloorTxns
    BY <1>6, TxnKinds DEF PolicyIInv, Policy!SetProtectedPayday
  <2>2. /\ UNCHANGED <<settings, audit>>
        /\ floor' = [amount |-> txn[t].amount, changed |-> txn[t].at]
        /\ overtaken' = (overtaken \cup {v \in Txns : txn[v].kind \in {"floor"}}) \ {t}
    BY <1>6 DEF Policy!SetProtectedPayday
  <2>3. PolicyTypes'
    BY <1>1, <1>3, <2>1, <2>2 DEF PolicyIInv, PolicyTypes, FloorTxns, Policy!Preferences
  <2>4. Policy!PolicyTx' = Policy!PolicyTx
    BY <2>2 DEF Policy!PolicyTx
  <2>5. ReadsStand'
    <3> SUFFICES ASSUME NEW u \in Txns, u \notin overtaken'
                 PROVE  /\ txn'[u].kind = "policy" => txn'[u].read = Policy!PolicyTx
                        /\ txn'[u].kind # "floor"
      BY <2>4 DEF ReadsStand
    <3>1. CASE u = t
      BY <1>2, <3>1 DEF Policy!Idle
    <3>2. CASE u # t
      BY <1>2, <2>2, <3>2 DEF PolicyIInv, ReadsStand
    <3> QED
      BY <3>1, <3>2
  <2> QED
    BY <1>4, <2>2, <2>3, <2>4, <2>5 DEF PolicyIInv
<1> QED
  BY <1>5, <1>6

\* Time only makes lowering more acceptable.
LEMMA PolicyTicks ==
    ASSUME Policy!PolicySettingsConstants, PolicyIInv, Policy!Tick
    PROVE  PolicyIInv'
<1>1. /\ UNCHANGED <<settings, floor, txn, audit, overtaken>> /\ hour' = hour + 1
      /\ hour' \in 0 .. MaxTime /\ hour \in Nat
  BY DEF Policy!Tick, PolicyIInv, PolicyTypes, Policy!PolicySettingsConstants
<1>2. PolicyTypes' /\ Policy!PolicyTx' = Policy!PolicyTx
  BY <1>1 DEF PolicyIInv, PolicyTypes, Policy!PolicyTx
<1>3. Policy!PolicyTx[Cooling] \in Nat /\ floor.changed \in Int
  <2>1. Policy!PolicyTx \in Policy!Policies
    BY PolicyInForce DEF PolicyIInv
  <2>2. Cooling \in Fields /\ Valid[Cooling] \subseteq Nat
    BY DEF Policy!PolicySettingsConstants
  <2>3. Policy!PolicyTx[Cooling] \in Nat
    BY <2>1, <2>2 DEF Policy!Policies
  <2>4. floor.changed \in Int
    BY DEF PolicyIInv, PolicyTypes, Policy!Preferences, Policy!Never
  <2> QED
    BY <2>3, <2>4
<1>4. AskedIsChecked'
  <2> SUFFICES ASSUME NEW t \in Txns
               PROVE  /\ txn[t].kind = "policy" => Policy!Accepts(txn[t].update)
                      /\ txn[t].kind = "floor" => txn[t].at <= hour'
    BY <1>1 DEF AskedIsChecked, Policy!Accepts
  <2>1. txn[t].kind = "floor" => txn[t].at \in Int
    BY TxnKinds DEF PolicyIInv, FloorTxns
  <2> QED
    BY <1>1, <2>1 DEF PolicyIInv, AskedIsChecked
<1>5. ReadsStand'
  <2> SUFFICES ASSUME NEW t \in Txns, t \notin overtaken
               PROVE  /\ txn[t].kind = "policy" => txn[t].read = Policy!PolicyTx
                      /\ txn[t].kind = "floor" => Policy!MayLower(txn[t].amount)'
    BY <1>1, <1>2 DEF ReadsStand, Policy!MayLower
  <2>1. txn[t].kind = "floor" => Policy!MayLower(txn[t].amount)
    BY DEF PolicyIInv, ReadsStand
  <2>2. txn[t].kind = "floor" => Policy!MayLower(txn[t].amount)'
    BY <1>1, <1>2, <1>3, <2>1 DEF Policy!MayLower
  <2> QED
    BY <2>2 DEF PolicyIInv, ReadsStand
<1> QED
  BY <1>1, <1>2, <1>4, <1>5 DEF PolicyIInv

LEMMA PolicyStep ==
    ASSUME Policy!PolicySettingsConstants, PolicyIInv, [Policy!Next]_(Policy!vars)
    PROVE  PolicyIInv'
<1>1. CASE UNCHANGED Policy!vars
  BY <1>1 DEF Policy!vars, PolicyIInv, PolicyTypes, AskedIsChecked, ReadsStand,
              Policy!PolicyTx, Policy!MayLower, Policy!Accepts
<1> QED
  BY <1>1, PolicyBegins, PolicyCommits, PolicyTicks DEF Policy!Next

\* policyTx and the upserts, for any columns, values and clock and any number of
\* transactions at once: what a transaction read is in force when it commits, unless
\* another one overtook it.
THEOREM PolicyInvariant ==
    ASSUME Policy!PolicySettingsConstants PROVE Policy!Spec => []PolicyIInv
<1>1. Policy!Init => PolicyIInv
  BY PolicyInit
<1>2. PolicyIInv /\ [Policy!Next]_(Policy!vars) => PolicyIInv'
  BY PolicyStep
<1> QED
  BY <1>1, <1>2, PTL DEF Policy!Spec

LEMMA PolicyAlwaysTyped ==
    ASSUME Policy!PolicySettingsConstants PROVE Policy!Spec => []Policy!TypeOK
<1>1. ASSUME PolicyIInv
      PROVE  Policy!TypeOK
  <2> SUFFICES ASSUME NEW t \in Txns
               PROVE  \/ txn[t] = Policy!Idle
                      \/ /\ txn[t].kind = "policy"
                         /\ txn[t].update \in Policy!Updates
                         /\ txn[t].read \in Policy!Policies
                      \/ /\ txn[t].kind = "floor"
                         /\ txn[t].amount \in Amounts /\ txn[t].at \in 0 .. hour
    BY <1>1 DEF PolicyIInv, PolicyTypes, Policy!TypeOK
  <2>1. txn[t] \in {Policy!Idle} \cup PolicyTxns \cup FloorTxns
    BY <1>1 DEF PolicyIInv, PolicyTypes
  <2>2. hour \in Nat /\ (txn[t].kind = "floor" => txn[t].at <= hour)
    BY <1>1, Policy!PolicySettingsConstants
       DEF PolicyIInv, PolicyTypes, AskedIsChecked, Policy!PolicySettingsConstants
  <2>3. CASE txn[t] \in FloorTxns
    <3>1. txn[t].at \in 0 .. MaxTime /\ txn[t].kind = "floor" /\ txn[t].amount \in Amounts
      BY <2>3 DEF FloorTxns
    <3> QED
      BY <2>2, <3>1
  <2> QED
    BY <2>1, <2>3 DEF PolicyTxns
<1> QED
  BY <1>1, PolicyInvariant, PTL

\* A step that writes neither setting keeps to the rules.
LEMMA SettingsUntouched ==
    ASSUME Policy!PolicySettingsConstants, PolicyIInv, UNCHANGED <<settings, floor, audit>>
    PROVE  /\ Policy!NilStays /\ Policy!AuditContinues /\ Policy!FloorStays
           /\ Policy!SeamShows
<1>1. Policy!PolicyTx' = Policy!PolicyTx
  BY DEF Policy!PolicyTx
<1>2. floor.amount \in Int
  BY AmountsAreInts DEF PolicyIInv
<1> QED
  BY <1>1, <1>2
     DEF PolicyIInv, Policy!NilStays, Policy!AuditContinues, Policy!FloorStays,
         Policy!SeamShows

\* An update that nothing overtook continues from the policy in force; one that was
\* overtaken leaves a seam in the trail wherever it undoes anything.
LEMMA UpdateStands ==
    ASSUME Policy!PolicySettingsConstants, PolicyIInv, NEW t \in Txns, Policy!UpdatePolicy(t)
    PROVE  /\ Policy!InTime => Policy!NilStays /\ Policy!AuditContinues /\ Policy!FloorStays
           /\ Policy!SeamShows
<1> USE DEF Policy!Becomes, Policy!Commits
<1>1. /\ txn[t] \in PolicyTxns /\ txn[t].kind = "policy"
      /\ txn'[t] = Policy!Idle /\ txn[t] # Policy!Idle
  BY TxnKinds DEF PolicyIInv, PolicyTypes, Policy!UpdatePolicy
<1>2. /\ txn[t].update \in Policy!Updates /\ txn[t].read \in Policy!Policies
      /\ Policy!Accepts(txn[t].update) /\ audit.after = Policy!PolicyTx
  BY <1>1 DEF PolicyIInv, AskedIsChecked, PolicyTxns
<1>3. /\ Policy!PolicyTx' = Policy!Apply(txn[t].update, txn[t].read)
      /\ audit' = [before |-> txn[t].read, after |-> Policy!PolicyTx']
      /\ floor' = floor
  BY <1>2, AppliedIsPolicy DEF Policy!UpdatePolicy, Policy!PolicyTx, Policy!Before
<1>4. ASSUME txn[t].read = Policy!PolicyTx
      PROVE  Policy!NilStays /\ Policy!AuditContinues
  <2>1. Policy!NilStays
    <3> SUFFICES ASSUME NEW f \in Fields, f \notin DOMAIN txn[t].update
                 PROVE  Policy!PolicyTx'[f] = Policy!PolicyTx[f]
      BY <1>1 DEF Policy!NilStays
    <3> QED
      BY <1>3, <1>4 DEF Policy!Apply
  <2> QED
    BY <1>2, <1>3, <1>4, <2>1 DEF Policy!AuditContinues
<1>5. Policy!FloorStays
  <2>1. floor.amount \in Int
    BY AmountsAreInts DEF PolicyIInv
  <2> QED
    BY <1>3, <2>1 DEF Policy!FloorStays
<1>6. Policy!InTime => txn[t].read = Policy!PolicyTx
  BY <1>1 DEF Policy!InTime, PolicyIInv, ReadsStand
<1>7. Policy!SeamShows
  <2>1. CASE txn[t].read = Policy!PolicyTx
    BY <1>3, <1>4, <2>1 DEF Policy!SeamShows
  <2>2. CASE txn[t].read # Policy!PolicyTx
    <3>1. audit'.before # audit.after /\ audit'.after = Policy!PolicyTx'
      BY <1>2, <1>3, <2>2
    <3>2. CASE audit' # audit
      BY <3>1, <3>2 DEF Policy!SeamShows, Policy!AuditContinues
    <3>3. CASE audit' = audit
      <4>1. Policy!PolicyTx' = Policy!PolicyTx
        BY <1>2, <3>1, <3>3
      <4> QED
        BY <3>1, <4>1 DEF Policy!SeamShows, Policy!NilStays
    <3> QED
      BY <3>2, <3>3
  <2> QED
    BY <2>1, <2>2
<1> QED
  BY <1>4, <1>5, <1>6, <1>7

\* A preference that nothing overtook is lowered in its time only.
LEMMA PreferenceStands ==
    ASSUME Policy!PolicySettingsConstants, PolicyIInv, NEW t \in Txns,
           Policy!SetProtectedPayday(t)
    PROVE  /\ Policy!InTime => Policy!NilStays /\ Policy!AuditContinues /\ Policy!FloorStays
           /\ Policy!SeamShows
<1> USE DEF Policy!Becomes, Policy!Commits
<1>1. /\ txn[t] \in FloorTxns /\ txn[t].kind = "floor"
      /\ txn'[t] = Policy!Idle /\ txn[t] # Policy!Idle
  BY TxnKinds DEF PolicyIInv, PolicyTypes, Policy!SetProtectedPayday
<1>2. UNCHANGED <<settings, audit>> /\ floor'.amount = txn[t].amount
  BY DEF Policy!SetProtectedPayday
<1>3. Policy!PolicyTx' = Policy!PolicyTx /\ audit.after = Policy!PolicyTx
  BY <1>2 DEF Policy!PolicyTx, PolicyIInv
<1>4. Policy!InTime => Policy!MayLower(txn[t].amount)
  BY <1>1 DEF Policy!InTime, PolicyIInv, ReadsStand
<1>5. floor.amount \in Int /\ txn[t].amount \in Int
  BY <1>1, AmountsAreInts DEF FloorTxns, PolicyIInv
<1>6. Policy!NilStays /\ Policy!AuditContinues /\ Policy!SeamShows
  BY <1>2, <1>3 DEF Policy!NilStays, Policy!AuditContinues, Policy!SeamShows
<1>7. Policy!InTime => Policy!FloorStays
  BY <1>2, <1>4, <1>5 DEF Policy!FloorStays, Policy!MayLower
<1> QED
  BY <1>6, <1>7

\* Whatever transactions overlap: the first to commit alters the columns it carries and
\* no other, its audit entry begins with what the previous one ended with, and it lowers
\* a protected payday only after its cooling-off period; and wherever a later one undoes
\* a column it does not carry, two entries of the trail do not meet.
THEOREM PolicyChangesAlwaysStand ==
    ASSUME Policy!PolicySettingsConstants
    PROVE  Policy!Spec => Policy!ChangesInTimeStand /\ Policy!UndoingShows
<1>1. ASSUME PolicyIInv, [Policy!Next]_(Policy!vars)
      PROVE  /\ Policy!InTime =>
                    Policy!NilStays /\ Policy!AuditContinues /\ Policy!FloorStays
             /\ Policy!SeamShows
  <2>1. ASSUME UNCHANGED <<settings, floor, audit>>
        PROVE  /\ Policy!InTime =>
                      Policy!NilStays /\ Policy!AuditContinues /\ Policy!FloorStays
               /\ Policy!SeamShows
    BY <1>1, <2>1, SettingsUntouched
  <2> QED
    BY <1>1, <2>1, UpdateStands, PreferenceStands
       DEF Policy!Next, Policy!ReadPolicy, Policy!ReadFloor, Policy!Tick, Policy!vars
<1>2. PolicyIInv /\ [Policy!Next]_(Policy!vars) =>
          /\ [Policy!InTime =>
                  Policy!NilStays /\ Policy!AuditContinues /\ Policy!FloorStays]_(Policy!vars)
          /\ [Policy!SeamShows]_(Policy!vars)
  BY <1>1
<1> QED
  BY <1>2, PolicyInvariant, PTL
     DEF Policy!Spec, Policy!ChangesInTimeStand, Policy!UndoingShows
-----------------------------------------------------------------------------
(* The reconciliation job.                                                 *)

ReconConstants == Recon!ReconciliationConstants /\ IsFiniteSet(Orgs)

BooksTyped ==
    /\ wallet \in Int /\ cash \in [Orgs -> Int]
    /\ inflight \in [Orgs -> Nat] /\ arrived \in [Orgs -> Nat]
    /\ moved \in 0 .. MaxMovements

Runs == [wallet: Int, total: Int, drift: Int, alerted: BOOLEAN, first: BOOLEAN]
Jobs == [pc: {"idle", "reading"}, wallet: Int, left: SUBSET Orgs, total: Int]

\* A pass begins only while there is room for the run it records.
RunsTyped ==
    /\ runs \in 0 .. MaxRuns
    /\ prev \in Runs /\ (prev.first => ~ prev.alerted)
    /\ job \in Jobs /\ (job.pc = "reading" => runs < MaxRuns)

HistoryTyped ==
    /\ still \in BOOLEAN /\ drifts \in Int /\ strays \in Int
    /\ known \in [made : BOOLEAN, drift : Int, stray : Int]

ReconTypes == BooksTyped /\ RunsTyped /\ HistoryTyped

\* The wallet and the ledger together, less what has reached only one of them: nothing
\* but an untracked movement changes it.
Tracked == wallet + SumOf(cash, Orgs) - SumOf(inflight, Orgs) - SumOf(arrived, Orgs)

\* A pass that found everything at rest, and has seen it so since, has the balances
\* as they are.
StillPassReads ==
    job.pc = "reading" /\ still =>
        /\ Recon!AtRest
        /\ job.wallet = wallet
        /\ job.total = SumOf(cash, Orgs \ job.left)

\* Since the last pass at rest, what the reports add up to and what moved untracked
\* both lead from its balances: the one to the last pass, the other to the present.
ReportsFollow ==
    known.made => /\ runs > 0
                  /\ (prev.wallet + prev.total) - drifts = Tracked - strays

ReconIInv ==
    ReconTypes /\ StillPassReads /\ ReportsFollow /\ Recon!DriftsAddUp

LEMMA ReconBounds ==
    ASSUME ReconConstants
    PROVE  Threshold \in Nat /\ MaxMovements \in Nat /\ MaxRuns \in Nat
  BY DEF ReconConstants, Recon!ReconciliationConstants

LEMMA ReconTypesImply == ASSUME ReconTypes PROVE Recon!TypeOK
<1>1. /\ known.made \in BOOLEAN /\ known.drift \in Int /\ known.stray \in Int
  BY DEF ReconTypes, HistoryTyped
<1>2. {drifts, strays, known.drift, known.stray} \subseteq Int
  BY <1>1 DEF ReconTypes, HistoryTyped
<1> QED
  BY <1>1, <1>2, Zenon
     DEF ReconTypes, BooksTyped, RunsTyped, HistoryTyped, Runs, Jobs, Recon!TypeOK

\* The sums of the books are numbers.
LEMMA BooksAreInts ==
    ASSUME ReconConstants, ReconTypes
    PROVE  /\ Whole(cash, Orgs) /\ Whole(inflight, Orgs) /\ Whole(arrived, Orgs)
           /\ SumOf(cash, Orgs) \in Int /\ SumOf(inflight, Orgs) \in Int
           /\ SumOf(arrived, Orgs) \in Int /\ wallet \in Int
           /\ Tracked \in Int
<1>1. Whole(cash, Orgs) /\ Whole(inflight, Orgs) /\ Whole(arrived, Orgs) /\ wallet \in Int
  BY DEF ReconTypes, BooksTyped, Whole
<1>2. /\ SumOf(cash, Orgs) \in Int /\ SumOf(inflight, Orgs) \in Int
      /\ SumOf(arrived, Orgs) \in Int
  BY <1>1, SumType DEF ReconConstants
<1> QED
  BY <1>1, <1>2 DEF Tracked

LEMMA ReconInit ==
    ASSUME ReconConstants, Recon!Init
    PROVE  ReconIInv
<1>1. ReconTypes
  <2>1. BooksTyped
    BY ReconBounds DEF Recon!Init, BooksTyped
  <2>2. prev \in Runs /\ ~ prev.alerted
    BY DEF Recon!Init, Recon!NoRun, Runs
  <2>3. job \in Jobs /\ job.pc = "idle"
    BY DEF Recon!Init, Recon!NoJob, Jobs
  <2>4. runs \in 0 .. MaxRuns
    BY ReconBounds DEF Recon!Init
  <2>5. HistoryTyped
    <3>1. 0 \in Int
      OBVIOUS
    <3> QED
      BY <3>1, Zenon DEF Recon!Init, HistoryTyped
  <2> QED
    BY <2>1, <2>2, <2>3, <2>4, <2>5 DEF ReconTypes, RunsTyped
<1> QED
  BY <1>1 DEF Recon!Init, ReconIInv, StillPassReads, ReportsFollow, Recon!DriftsAddUp

\* A movement that is tracked keeps what is tracked, and leaves no pass believing that
\* everything is at rest.
LEMMA ReconMoves ==
    ASSUME ReconConstants, ReconIInv, Recon!Movement
    PROVE  ReconIInv'
<1> PICK o \in Orgs : \/ Recon!Approve(o) \/ Recon!PayOut(o) \/ Recon!Reverse(o)
                      \/ Recon!Deposit(o) \/ Recon!BookDeposit(o)
  BY DEF Recon!Movement
<1>1. UNCHANGED <<runs, prev, job, drifts, strays, known>> /\ still' = FALSE
  BY DEF Recon!Movement
<1>2. /\ wallet \in Int /\ cash \in [Orgs -> Int]
      /\ inflight \in [Orgs -> Nat] /\ arrived \in [Orgs -> Nat]
      /\ moved \in 0 .. MaxMovements /\ MaxMovements \in Nat
  BY ReconBounds DEF ReconIInv, ReconTypes, BooksTyped
<1> USE DEF Recon!Approve, Recon!PayOut, Recon!Reverse, Recon!Deposit, Recon!BookDeposit,
            Recon!Move
<1>3. /\ wallet' \in Int /\ cash' \in [Orgs -> Int]
      /\ inflight' \in [Orgs -> Nat] /\ arrived' \in [Orgs -> Nat]
      /\ moved' \in 0 .. MaxMovements
  BY <1>2
<1>4. /\ \A q \in Orgs \ {o} : /\ cash'[q] = cash[q] /\ inflight'[q] = inflight[q]
                               /\ arrived'[q] = arrived[q]
      /\ wallet' + cash'[o] - inflight'[o] - arrived'[o]
            = wallet + cash[o] - inflight[o] - arrived[o]
  BY <1>2
<1> USE DEF ReconConstants
<1>5. /\ SumOf(cash', Orgs) = SumOf(cash, Orgs) - cash[o] + cash'[o]
      /\ SumOf(inflight', Orgs) = SumOf(inflight, Orgs) - inflight[o] + inflight'[o]
      /\ SumOf(arrived', Orgs) = SumOf(arrived, Orgs) - arrived[o] + arrived'[o]
  <2> HIDE DEF Recon!Approve, Recon!PayOut, Recon!Reverse, Recon!Deposit, Recon!BookDeposit,
               Recon!Move
  <2>1. Whole(cash, Orgs) /\ Whole(inflight, Orgs) /\ Whole(arrived, Orgs)
    BY <1>2 DEF Whole
  <2>2. cash'[o] \in Int /\ inflight'[o] \in Int /\ arrived'[o] \in Int
    BY <1>3
  <2>3. SumOf(cash', Orgs) = SumOf(cash, Orgs) - cash[o] + cash'[o]
    BY <1>4, <2>1, <2>2, SumChange
  <2>4. SumOf(inflight', Orgs) = SumOf(inflight, Orgs) - inflight[o] + inflight'[o]
    BY <1>4, <2>1, <2>2, SumChange
  <2>5. SumOf(arrived', Orgs) = SumOf(arrived, Orgs) - arrived[o] + arrived'[o]
    BY <1>4, <2>1, <2>2, SumChange
  <2> QED
    BY <2>3, <2>4, <2>5
<1> HIDE DEF Recon!Approve, Recon!PayOut, Recon!Reverse, Recon!Deposit, Recon!BookDeposit,
             Recon!Move
<1>6. Tracked' = Tracked
  <2>1. /\ SumOf(cash, Orgs) \in Int /\ SumOf(inflight, Orgs) \in Int
        /\ SumOf(arrived, Orgs) \in Int
    BY BooksAreInts DEF ReconIInv
  <2>2. /\ cash[o] \in Int /\ inflight[o] \in Int /\ arrived[o] \in Int
        /\ cash'[o] \in Int /\ inflight'[o] \in Int /\ arrived'[o] \in Int
    BY <1>2, <1>3
  <2> QED
    BY <1>2, <1>3, <1>4, <1>5, <2>1, <2>2 DEF Tracked
<1>7. ReconTypes'
  <2>1. HistoryTyped'
    <3>1. drifts' = drifts /\ strays' = strays /\ known' = known /\ still' \in BOOLEAN
      BY <1>1
    <3> QED
      BY <3>1, Zenon DEF ReconIInv, ReconTypes, HistoryTyped
  <2> QED
    BY <1>1, <1>3, <2>1 DEF ReconIInv, ReconTypes, BooksTyped, RunsTyped
<1> QED
  BY <1>1, <1>6, <1>7 DEF ReconIInv, StillPassReads, ReportsFollow, Recon!DriftsAddUp

\* An untracked movement changes what is tracked by as much as it adds to the strays.
LEMMA ReconStrays ==
    ASSUME ReconConstants, ReconIInv, NEW x \in {-1, 1}, Recon!Untracked(x)
    PROVE  ReconIInv'
<1>1. /\ UNCHANGED <<cash, inflight, arrived, runs, prev, job, drifts, known>> /\ still' = FALSE
      /\ wallet' = wallet + x /\ strays' = strays + x /\ x \in Int
  BY DEF Recon!Untracked
<1>2. ReconTypes'
  <2>1. BooksTyped'
    BY <1>1, ReconBounds DEF Recon!Untracked, Recon!Move, ReconIInv, ReconTypes, BooksTyped
  <2>2. RunsTyped'
    BY <1>1 DEF ReconIInv, ReconTypes, RunsTyped
  <2>3. strays' \in Int
    BY <1>1 DEF ReconIInv, ReconTypes, HistoryTyped
  <2>4. still' \in BOOLEAN
    BY <1>1
  <2>5. drifts' = drifts /\ known' = known
    BY <1>1
  <2>6. HistoryTyped'
    BY <2>3, <2>4, <2>5, Zenon DEF ReconIInv, ReconTypes, HistoryTyped
  <2> QED
    BY <2>1, <2>2, <2>6 DEF ReconTypes
<1>3. /\ SumOf(cash, Orgs) \in Int /\ SumOf(inflight, Orgs) \in Int
      /\ SumOf(arrived, Orgs) \in Int /\ wallet \in Int /\ Tracked \in Int
  BY BooksAreInts DEF ReconIInv
<1>4. strays \in Int /\ drifts \in Int
  BY DEF ReconIInv, ReconTypes, HistoryTyped
<1>5. Tracked' - strays' = Tracked - strays
  BY <1>1, <1>3, <1>4 DEF Tracked
<1> QED
  BY <1>1, <1>2, <1>5 DEF ReconIInv, StillPassReads, ReportsFollow, Recon!DriftsAddUp

\* A pass reads: the wallet, then each organization once.
LEMMA ReconReads ==
    ASSUME ReconConstants, ReconIInv,
           Recon!ReadWallet \/ \E o \in Orgs : Recon!ReadOrg(o) \/ Recon!OrgFails(o)
    PROVE  ReconIInv'
<1>1. UNCHANGED <<wallet, cash, inflight, arrived, moved, runs, prev, drifts, strays, known>>
  BY DEF Recon!ReadWallet, Recon!ReadOrg, Recon!OrgFails, Recon!books, Recon!history
<1>2. Tracked' = Tracked
  BY <1>1 DEF Tracked
<1>3. ReconTypes
  BY DEF ReconIInv
<1>4. /\ wallet \in Int /\ cash \in [Orgs -> Int] /\ job \in Jobs
      /\ still \in BOOLEAN /\ Recon!AtRest \in BOOLEAN
  BY <1>3 DEF ReconTypes, BooksTyped, RunsTyped, HistoryTyped, Recon!AtRest
<1>5. /\ job' \in Jobs /\ (job'.pc = "reading" => runs < MaxRuns)
      /\ still' \in BOOLEAN
  <2>1. CASE Recon!ReadWallet
    BY <1>4, <2>1 DEF Recon!ReadWallet, Jobs
  <2>2. ASSUME NEW o \in Orgs, Recon!ReadOrg(o) PROVE <1>5
    <3>1. job.pc = "reading" => runs < MaxRuns
      BY <1>3 DEF ReconTypes, RunsTyped
    <3>2. /\ job' \in Jobs /\ job'.pc = job.pc
      <4>1. /\ job.left \ {o} \in SUBSET Orgs /\ job.total + cash[o] \in Int
            /\ job' = [job EXCEPT !.left = job.left \ {o}, !.total = job.total + cash[o]]
        <5>1. job.left \in SUBSET Orgs /\ job.total \in Int /\ cash[o] \in Int
          BY <1>4 DEF Jobs
        <5>2. job' = [job EXCEPT !.left = job.left \ {o}, !.total = job.total + cash[o]]
          BY <2>2, Zenon DEF Recon!ReadOrg
        <5> QED
          BY <5>1, <5>2
      <4> DEFINE L == job.left \ {o}
                 T == job.total + cash[o]
      <4> HIDE DEF L, T
      <4>2. L \in SUBSET Orgs /\ T \in Int /\ job' = [job EXCEPT !.left = L, !.total = T]
        BY <4>1 DEF L, T
      <4> QED
        BY <1>4, <4>2 DEF Jobs
    <3>3. still' = still
      BY <2>2 DEF Recon!ReadOrg, Recon!history
    <3> QED
      BY <1>4, <3>1, <3>2, <3>3
  <2>3. ASSUME NEW o \in Orgs, Recon!OrgFails(o) PROVE <1>5
    <3>1. job' \in Jobs /\ job'.pc = "idle"
      BY <2>3 DEF Recon!OrgFails, Recon!NoJob, Jobs
    <3>2. still' = FALSE
      BY <2>3 DEF Recon!OrgFails
    <3> QED
      BY <3>1, <3>2
  <2> QED
    BY <2>1, <2>2, <2>3
<1>6. ReconTypes'
  <2>1. HistoryTyped'
    BY <1>1, <1>3, <1>5 DEF ReconTypes, HistoryTyped
  <2> QED
    BY <1>1, <1>3, <1>5, <2>1 DEF ReconTypes, BooksTyped, RunsTyped
<1>7. StillPassReads'
  <2>1. CASE Recon!ReadWallet
    <3>1. /\ job'.wallet = wallet /\ job'.left = Orgs /\ job'.total = 0
          /\ still' = Recon!AtRest
      BY <2>1 DEF Recon!ReadWallet
    <3>2. SumOf(cash, Orgs \ Orgs) = 0
      <4>1. Orgs \ Orgs = {}
        OBVIOUS
      <4> QED
        BY <4>1, SumEmpty
    <3> QED
      BY <1>1, <3>1, <3>2 DEF StillPassReads, Recon!AtRest
  <2>2. ASSUME NEW o \in Orgs, Recon!ReadOrg(o) PROVE StillPassReads'
    <3>1. /\ o \in job.left /\ job'.left = job.left \ {o} /\ job'.total = job.total + cash[o]
          /\ job'.wallet = job.wallet /\ job'.pc = job.pc /\ still' = still
          /\ job.total \in Int
      BY <1>4, <2>2 DEF Recon!ReadOrg, Recon!history, Jobs
    <3> DEFINE S == Orgs \ job.left
    <3>2. Orgs \ (job.left \ {o}) = S \cup {o} /\ o \notin S
      BY <3>1
    <3>3. SumOf(cash, S \cup {o}) = cash[o] + SumOf(cash, S)
      <4>1. IsFiniteSet(S)
        BY FS_Subset DEF ReconConstants
      <4>2. Whole(cash, S \cup {o})
        BY <1>4 DEF Whole
      <4> QED
        BY <3>2, <4>1, <4>2, SumAdd
    <3>4. cash[o] \in Int
      BY <1>4
    <3> HIDE DEF S
    <3>5. SUFFICES ASSUME job.pc = "reading", still
                   PROVE  job.total + cash[o] = cash[o] + SumOf(cash, S)
                          /\ job.wallet = wallet /\ Recon!AtRest
      BY <1>1, <3>1, <3>2, <3>3 DEF StillPassReads, Recon!AtRest
    <3>6. job.total = SumOf(cash, S) /\ job.wallet = wallet /\ Recon!AtRest
      BY <3>5 DEF ReconIInv, StillPassReads, S
    <3> QED
      BY <3>1, <3>4, <3>6
  <2>3. ASSUME NEW o \in Orgs, Recon!OrgFails(o) PROVE StillPassReads'
    BY <2>3 DEF Recon!OrgFails, StillPassReads
  <2> QED
    BY <2>1, <2>2, <2>3
<1> QED
  BY <1>1, <1>2, <1>6, <1>7 DEF ReconIInv, ReportsFollow, Recon!DriftsAddUp

\* What a pass that saw everything at rest has read is what is tracked.
LEMMA StillPassIsTracked ==
    ASSUME ReconConstants, ReconIInv, job.pc = "reading", job.left = {}, still
    PROVE  job.wallet + job.total = Tracked
<1>1. Recon!AtRest /\ job.wallet = wallet /\ job.total = SumOf(cash, Orgs \ {})
  BY DEF ReconIInv, StillPassReads
<1>2. Orgs \ {} = Orgs
  OBVIOUS
<1>3. SumOf(inflight, Orgs) = 0
  BY <1>1, SumZero DEF Recon!AtRest, ReconConstants
<1>4. SumOf(arrived, Orgs) = 0
  BY <1>1, SumZero DEF Recon!AtRest, ReconConstants
<1>5. SumOf(cash, Orgs) \in Int /\ wallet \in Int
  BY BooksAreInts DEF ReconIInv
<1> QED
  BY <1>1, <1>2, <1>3, <1>4, <1>5 DEF Tracked

\* What a run records, and the drift it reports.
LEMMA ReconRecorded ==
    ASSUME ReconConstants, ReconTypes
    PROVE  /\ Recon!Recorded \in Runs
           /\ Recon!Recorded.wallet = job.wallet /\ Recon!Recorded.total = job.total
           /\ Recon!Recorded.first => ~ Recon!Recorded.alerted
           /\ runs > 0 => /\ Recon!Recorded.alerted = Recon!Alerts(Recon!Drift)
                          /\ Recon!Recorded.drift
                                = (job.wallet + job.total) - (prev.wallet + prev.total)
           /\ {job.wallet, job.total, prev.wallet, prev.total} \subseteq Int
           /\ Recon!Drift = (job.wallet + job.total) - (prev.wallet + prev.total)
<1>1. job.wallet \in Int /\ job.total \in Int /\ prev.wallet \in Int /\ prev.total \in Int
      /\ runs \in Nat
  BY ReconBounds DEF ReconTypes, RunsTyped, Runs, Jobs
<1>2. /\ Recon!Drift \in Int
      /\ Recon!Drift = (job.wallet + job.total) - (prev.wallet + prev.total)
  BY <1>1 DEF Recon!Drift
<1> DEFINE d == IF runs = 0 THEN 0 ELSE Recon!Drift
<1> DEFINE w == runs > 0 /\ Recon!Alerts(d)
           f == runs = 0
<1>3. /\ d \in Int /\ (runs > 0 => d = Recon!Drift)
  BY <1>1, <1>2
<1>4. w \in BOOLEAN /\ f \in BOOLEAN /\ (f => ~ w)
  BY <1>1
<1>5. Recon!Recorded = [wallet |-> job.wallet, total |-> job.total, drift |-> d,
                        alerted |-> w, first |-> f]
  BY DEF Recon!Recorded
<1>6. ASSUME runs > 0 PROVE w = Recon!Alerts(Recon!Drift)
  <2>1. d = Recon!Drift
    BY <1>3, <1>6
  <2>2. Recon!Alerts(Recon!Drift) \in BOOLEAN
    BY DEF Recon!Alerts
  <2> HIDE DEF d
  <2> QED
    BY <1>6, <2>1, <2>2, Zenon
<1> HIDE DEF d, w, f
<1>7. /\ Recon!Recorded.wallet = job.wallet /\ Recon!Recorded.total = job.total
      /\ Recon!Recorded.drift = d /\ Recon!Recorded.alerted = w
      /\ Recon!Recorded.first = f
  BY <1>5, Zenon
<1>8. Recon!Recorded \in Runs
  BY <1>1, <1>3, <1>4, <1>5, Zenon DEF Runs
<1>9. {job.wallet, job.total, prev.wallet, prev.total} \subseteq Int
  BY <1>1
<1> QED
  BY <1>2, <1>3, <1>4, <1>6, <1>7, <1>8, <1>9, Zenon

LEMMA ReconRecords ==
    ASSUME ReconConstants, ReconIInv, Recon!Record
    PROVE  ReconIInv'
<1> DEFINE R == Recon!Recorded
<1>1. /\ UNCHANGED <<wallet, cash, inflight, arrived, moved>> /\ prev' = R
      /\ runs' = runs + 1 /\ job' = Recon!NoJob /\ still' = FALSE
      /\ job.pc = "reading" /\ job.left = {}
  BY DEF Recon!Record, Recon!books
<1>2. Tracked' = Tracked
  BY <1>1 DEF Tracked
<1>3. ReconTypes
  BY DEF ReconIInv
<1>4. Tracked \in Int
  BY <1>3, BooksAreInts
<1>5. /\ R \in Runs
      /\ R.wallet = job.wallet /\ R.total = job.total /\ (R.first => ~ R.alerted)
      /\ runs > 0 => R.drift = (job.wallet + job.total) - (prev.wallet + prev.total)
      /\ {job.wallet, job.total, prev.wallet, prev.total} \subseteq Int
      /\ R.drift \in Int
  <2>1. R \in Runs => R.drift \in Int
    BY DEF Runs
  <2> QED
    BY <1>3, <2>1, ReconRecorded
<1> HIDE DEF R
<1>6. /\ drifts \in Int /\ strays \in Int
      /\ known \in [made : BOOLEAN, drift : Int, stray : Int]
      /\ runs \in Nat
  BY <1>3, ReconBounds DEF ReconTypes, RunsTyped, HistoryTyped
<1>7. /\ drifts' \in Int /\ strays' \in Int
      /\ known' \in [made : BOOLEAN, drift : Int, stray : Int]
      /\ known'.drift = known'.stray
      /\ known'.made => /\ runs' > 0
                        /\ (prev'.wallet + prev'.total) - drifts' = Tracked - strays'
  <2>1. CASE still
    <3>1. job.wallet + job.total = Tracked
      BY <1>1, <2>1, StillPassIsTracked
    <3>2. drifts' = 0 /\ strays' = 0
      BY <2>1 DEF Recon!Record
    <3>3. (prev'.wallet + prev'.total) - drifts' = Tracked - strays' /\ runs' > 0
      BY <1>1, <1>4, <1>5, <1>6, <3>1, <3>2
    <3>4. CASE known.made
      <4>1. known' = [made |-> TRUE, drift |-> drifts + R.drift, stray |-> strays]
        BY <2>1, <3>4 DEF Recon!Record, R
      <4>2. runs > 0 /\ (prev.wallet + prev.total) - drifts = Tracked - strays
        BY <3>4 DEF ReconIInv, ReportsFollow
      <4>3. drifts + R.drift = strays
        <5> DEFINE j == job.wallet + job.total
                   p == prev.wallet + prev.total
        <5>1. j \in Int /\ p \in Int /\ R.drift = j - p
          BY <1>5, <4>2
        <5>2. j = Tracked
          BY <3>1
        <5>3. p - drifts = Tracked - strays
          BY <4>2
        <5> HIDE DEF j, p
        <5> QED
          BY <1>4, <1>6, <5>1, <5>2, <5>3
      <4> QED
        BY <1>5, <1>6, <3>2, <3>3, <4>1, <4>3
    <3>5. CASE ~ known.made
      <4>1. known' = [known EXCEPT !.made = TRUE]
        BY <2>1, <3>5 DEF Recon!Record
      <4>2. known.drift = known.stray
        BY DEF ReconIInv, Recon!DriftsAddUp
      <4>3. known' \in [made : BOOLEAN, drift : Int, stray : Int]
        BY <1>6, <4>1
      <4>4. known'.drift = known.drift /\ known'.stray = known.stray
        BY <1>6, <4>1
      <4> QED
        BY <3>2, <3>3, <4>2, <4>3, <4>4
    <3> QED
      BY <3>4, <3>5
  <2>2. CASE ~ still
    <3>1. drifts' = drifts + R.drift /\ UNCHANGED <<known, strays>>
      BY <2>2 DEF Recon!Record, R
    <3>2. known.drift = known.stray
      BY DEF ReconIInv, Recon!DriftsAddUp
    <3>3. known.made => runs > 0 /\ (prev.wallet + prev.total) - drifts = Tracked - strays
      BY DEF ReconIInv, ReportsFollow
    <3> QED
      BY <1>1, <1>4, <1>5, <1>6, <3>1, <3>2, <3>3
  <2> QED
    BY <2>1, <2>2, <1>3 DEF ReconTypes, HistoryTyped
<1>8. ReconTypes'
  <2>1. runs' \in 0 .. MaxRuns
    BY <1>1, <1>3, ReconBounds DEF ReconTypes, RunsTyped
  <2>2. job' \in Jobs /\ job'.pc = "idle"
    BY <1>1 DEF Recon!NoJob, Jobs
  <2>3. HistoryTyped'
    BY <1>1, <1>7 DEF HistoryTyped
  <2> QED
    BY <1>1, <1>3, <1>5, <2>1, <2>2, <2>3 DEF ReconTypes, BooksTyped, RunsTyped
<1> QED
  BY <1>1, <1>2, <1>7, <1>8 DEF ReconIInv, StillPassReads, ReportsFollow, Recon!DriftsAddUp

LEMMA ReconStep ==
    ASSUME ReconConstants, ReconIInv, [Recon!Next]_(Recon!vars)
    PROVE  ReconIInv'
<1>1. CASE UNCHANGED Recon!vars
  <2>1. UNCHANGED <<wallet, cash, inflight, arrived, moved, runs, prev, job, still, drifts,
                    strays, known>>
    BY <1>1 DEF Recon!vars, Recon!books, Recon!history
  <2> QED
    BY <2>1 DEF ReconIInv, ReconTypes, BooksTyped, RunsTyped, HistoryTyped, StillPassReads,
                ReportsFollow, Tracked, Recon!DriftsAddUp, Recon!AtRest
<1> QED
  BY <1>1, ReconMoves, ReconStrays, ReconReads, ReconRecords DEF Recon!Next

\* The reconciliation job, for any finite set of organizations, any threshold and any
\* number of movements and runs: between two passes at rest the drifts reported add up
\* to what moved untracked, however the passes in between were skewed.
THEOREM DriftsAlwaysAddUp ==
    ASSUME ReconConstants
    PROVE  Recon!Spec => [](Recon!TypeOK /\ Recon!DriftsAddUp)
<1>1. Recon!Init => ReconIInv
  BY ReconInit
<1>2. ReconIInv /\ [Recon!Next]_(Recon!vars) => ReconIInv'
  BY ReconStep
<1>3. ReconIInv => Recon!TypeOK /\ Recon!DriftsAddUp
  BY ReconTypesImply DEF ReconIInv
<1> QED
  BY <1>1, <1>2, <1>3, PTL DEF Recon!Spec

\* A run that saw everything at rest, right after one that had, alerts exactly when more
\* than the threshold moved untracked.
THEOREM AlertsAlwaysRight ==
    ASSUME ReconConstants
    PROVE  Recon!Spec => Recon!AlertTellsStrays
<1>1. Recon!Init => ReconIInv
  BY ReconInit
<1>2. ReconIInv /\ [Recon!Next]_(Recon!vars) => ReconIInv'
  BY ReconStep
<1>3. ASSUME ReconIInv, [Recon!Next]_(Recon!vars)
      PROVE  [Recon!AlertIsRight]_(Recon!vars)
  <2> SUFFICES ASSUME job.pc = "reading", still, runs' > runs, known.made, drifts = 0
               PROVE  prev'.alerted = (strays < -Threshold \/ strays > Threshold)
    BY DEF Recon!AlertIsRight
  <2>1. ReconTypes /\ runs \in Nat /\ Threshold \in Nat /\ strays \in Int /\ Tracked \in Int
    BY <1>3, ReconBounds, BooksAreInts DEF ReconIInv, ReconTypes, RunsTyped, HistoryTyped
  <2>2. Recon!Record
    <3>1. runs' # runs
      BY <2>1
    <3> QED
      BY <1>3, <3>1 DEF Recon!Next, Recon!vars, Recon!Movement, Recon!Untracked,
                        Recon!ReadWallet, Recon!ReadOrg, Recon!OrgFails
  <2>3. prev' = Recon!Recorded /\ job.left = {}
    BY <2>2 DEF Recon!Record
  <2>4. runs > 0 /\ (prev.wallet + prev.total) - drifts = Tracked - strays
    BY <1>3 DEF ReconIInv, ReportsFollow
  <2>5. job.wallet + job.total = Tracked
    BY <1>3, <2>3, StillPassIsTracked
  <2>6. /\ Recon!Recorded.alerted = Recon!Alerts(Recon!Drift)
        /\ {prev.wallet, prev.total} \subseteq Int
        /\ Recon!Drift = (job.wallet + job.total) - (prev.wallet + prev.total)
    BY <2>1, <2>4, ReconRecorded
  <2>7. Recon!Drift = strays
    <3> DEFINE p == prev.wallet + prev.total
    <3>1. p \in Int /\ p - drifts = Tracked - strays /\ Recon!Drift = Tracked - p
      BY <2>4, <2>5, <2>6
    <3> HIDE DEF p
    <3> QED
      BY <2>1, <3>1
  <2>8. Recon!Alerts(strays) = (strays < -Threshold \/ strays > Threshold)
    BY <2>1 DEF Recon!Alerts
  <2> QED
    BY <2>3, <2>6, <2>7, <2>8, Zenon
<1> QED
  BY <1>1, <1>2, <1>3, PTL DEF Recon!Spec, Recon!AlertTellsStrays

-----------------------------------------------------------------------------
(* The composition: what it does to each part is a step of that part or leaves *)
(* it alone, so what holds of a part holds of it there.                     *)

LEMMA AccessIsAPart == AccountSpec => Access!Spec
<1>1. AccountInit => Access!Init
  BY DEF AccountInit
<1>2. [AccountNext]_accountVars => [Access!Next]_(Access!vars)
  BY DEF AccountNext, AdminsStep, SessionsStep, accountVars, accessVars, Access!vars,
         Access!people, Access!history
<1> QED
  BY <1>1, <1>2, PTL DEF AccountSpec, Access!Spec

LEMMA PolicyIsAPart == AccountSpec => Policy!Spec
<1>1. AccountInit => Policy!Init
  BY DEF AccountInit
<1>2. [AccountNext]_accountVars => [Policy!Next]_(Policy!vars)
  BY DEF AccountNext, accountVars, policyVars, Policy!vars
<1> QED
  BY <1>1, <1>2, PTL DEF AccountSpec, Policy!Spec

LEMMA CodeIsAPart == AccountSpec => Code!Init /\ [][Code!Next]_(Code!vars)
<1>1. AccountInit => Code!Init
  BY DEF AccountInit
<1>2. [AccountNext]_accountVars => [Code!Next]_(Code!vars)
  BY DEF AccountNext, accountVars, codeVars, Code!vars, Code!keys, Code!history
<1> QED
  BY <1>1, <1>2, PTL DEF AccountSpec

LEMMA ReconIsAPart == AccountSpec => Recon!Spec
<1>1. AccountInit => Recon!Init
  BY DEF AccountInit
<1>2. [AccountNext]_accountVars => [Recon!Next]_(Recon!vars)
  BY DEF AccountNext, accountVars, reconVars, Recon!vars, Recon!books, Recon!history
<1> QED
  BY <1>1, <1>2, PTL DEF AccountSpec, Recon!Spec

LEMMA EmployeesAreAPart == AccountSpec => Spec
<1>1. AccountInit => Init
  BY DEF AccountInit
<1>2. [AccountNext]_accountVars => [Next]_vars
  BY DEF AccountNext, accountVars
<1> QED
  BY <1>1, <1>2, PTL DEF AccountSpec, Spec

\* EmployerUserService.Update, for any number of people: a ready organization keeps an
\* active admin, whatever demotions and deactivations race.
THEOREM AccountsKeepAnAdmin == AccountSpec => []AdminRemains
  BY AccountsConstants, AccessIsAPart, AdminAlwaysRemains, PTL DEF AdminRemains

\* Authenticate, RefreshToken, ChangePassword and ResetPassword, for any people and any
\* lives of a token and a session: no session outlives or outgrows its password.
THEOREM AccountsEndSessions == AccountSpec => []SessionInv
  BY AccountsConstants, AccessIsAPart, SessionsEnd, PTL DEF SessionInv

\* Issue and verifyScript, for any requests, codes and caps: a code is used once and
\* within its guesses, and no more are stored in a day than the cap.
THEOREM AccountsLimitCodes == AccountSpec => []CodeWithinLimits
  BY AccountsConstants, CodeIsAPart, CodesAlwaysWithinLimits, PTL DEF CodeWithinLimits

\* The policy service, for any columns and values and any number of overlapping updates:
\* the first to commit stands and is audited in turn, and what a later one undoes shows
\* in the audit trail.
THEOREM AccountsKeepPolicies == AccountSpec => PolicyChangesStand
  BY AccountsConstants, PolicyIsAPart, PolicyAlwaysTyped, PolicyChangesAlwaysStand, PTL
     DEF PolicyChangesStand

\* ReconcileWallets, for any finite set of organizations, any threshold and any passes,
\* however skewed: it reports what moved untracked, and alerts on it.
THEOREM AccountsAreReconciled == AccountSpec => ReportsTellStrays
<1>1. ReconConstants
  BY AccountsConstants DEF ReconConstants
<1> QED
  BY <1>1, ReconIsAPart, DriftsAlwaysAddUp, AlertsAlwaysRight, PTL DEF ReportsTellStrays
=============================================================================
