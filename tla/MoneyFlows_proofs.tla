------------------------ MODULE MoneyFlows_proofs ------------------------
(* Proofs about the flows of money: D2CCollection, for any number of        *)
(* advances, sweeps, collections and links, whose variables are those of    *)
(* D2CCollection itself; and, at the end, the composition, which takes what *)
(* is proved of a batch and of the pool from PayrollBatch_proofs and        *)
(* WageAdvance_proofs.                                                      *)
EXTENDS MoneyFlows, FiniteSetTheorems, TLAPS

SweeperRec == {Idle} \cup Listing \cup Reading \cup Creating \cup Submitting

\* What the place a sweep has reached says of the record it keeps.
LEMMA SweeperFields ==
    ASSUME TypeOK, NEW s \in Sweepers
    PROVE  /\ sweeper[s].pc = "list" => sweeper[s].todo \in SUBSET Advances
           /\ sweeper[s].pc = "initiate" =>
                 sweeper[s].todo \in SUBSET Advances /\ sweeper[s].advance \in Advances
           /\ sweeper[s].pc = "create" =>
                 /\ sweeper[s].todo \in SUBSET Advances /\ sweeper[s].advance \in Advances
                 /\ sweeper[s].remaining \in Nat
           /\ sweeper[s].pc \in {"submit", "record", "fail"} =>
                 /\ sweeper[s] \in Submitting
                 /\ sweeper[s].todo \in SUBSET Advances /\ sweeper[s].row \in Rows
           /\ sweeper[s].pc \in {"idle", "list", "initiate", "create", "submit",
                                 "record", "fail"}
           /\ sweeper[s].pc = "idle" => sweeper[s] = Idle
<1>1. sweeper[s] \in {Idle} \cup Listing \cup Reading \cup Creating \cup Submitting
  BY DEF TypeOK
<1>2. CASE sweeper[s] = Idle
  BY <1>2 DEF Idle
<1>3. CASE sweeper[s] \in Listing
  BY <1>3 DEF Listing
<1>4. CASE sweeper[s] \in Reading
  BY <1>4 DEF Reading
<1>5. CASE sweeper[s] \in Creating
  BY <1>5 DEF Creating
<1>6. CASE sweeper[s] \in Submitting
  BY <1>6 DEF Submitting
<1> QED
  BY <1>1, <1>2, <1>3, <1>4, <1>5, <1>6

\* Replacing one sweep's record by a record keeps the type.
LEMMA SweeperStep ==
    ASSUME TypeOK, NEW s \in Sweepers
    PROVE  /\ \A rec \in SweeperRec :
                 [sweeper EXCEPT ![s] = rec] \in [Sweepers -> SweeperRec]
           /\ \A T \in SUBSET Advances : [pc |-> "list", todo |-> T] \in SweeperRec
           /\ \A T \in SUBSET Advances, a \in Advances :
                 [pc |-> "initiate", todo |-> T, advance |-> a] \in SweeperRec
           /\ \A T \in SUBSET Advances, a \in Advances, x \in Nat :
                 [pc |-> "create", todo |-> T, advance |-> a, remaining |-> x]
                    \in SweeperRec
           /\ \A T \in SUBSET Advances, r \in Rows :
                 [pc |-> "submit", todo |-> T, row |-> r] \in SweeperRec
           /\ Idle \in SweeperRec
           /\ sweeper[s].pc = "submit" =>
                 \A pc \in {"record", "fail"} :
                    [sweeper EXCEPT ![s].pc = pc] \in [Sweepers -> SweeperRec]
<1>1. sweeper \in [Sweepers -> SweeperRec]
  BY DEF TypeOK, SweeperRec
<1>2. \A T \in SUBSET Advances : [pc |-> "list", todo |-> T] \in SweeperRec
  BY DEF SweeperRec, Listing
<1>3. \A T \in SUBSET Advances, a \in Advances :
         [pc |-> "initiate", todo |-> T, advance |-> a] \in SweeperRec
  BY DEF SweeperRec, Reading
<1>4. \A T \in SUBSET Advances, a \in Advances, x \in Nat :
         [pc |-> "create", todo |-> T, advance |-> a, remaining |-> x] \in SweeperRec
  BY DEF SweeperRec, Creating
<1>5. \A T \in SUBSET Advances, r \in Rows :
         [pc |-> "submit", todo |-> T, row |-> r] \in SweeperRec
  BY DEF SweeperRec, Submitting
<1>6. ASSUME sweeper[s].pc = "submit", NEW pc \in {"record", "fail"}
      PROVE  [sweeper EXCEPT ![s].pc = pc] \in [Sweepers -> SweeperRec]
  <2>1. sweeper[s] \in Submitting
    BY <1>6, SweeperFields
  <2>2. [sweeper[s] EXCEPT !.pc = pc] \in Submitting
    BY <2>1 DEF Submitting
  <2> QED
    BY <1>1, <2>2 DEF SweeperRec
<1> QED
  BY <1>1, <1>2, <1>3, <1>4, <1>5, <1>6 DEF SweeperRec

LEMMA RemainingType ==
    ASSUME TypeOK, NEW a \in Advances
    PROVE  RemainingKobo(a) \in Nat
  BY CollectionConstants DEF TypeOK, RemainingKobo

LEMMA InitTypes == Init => TypeOK
<1> SUFFICES ASSUME Init PROVE TypeOK
  OBVIOUS
<1>1. receivable \in [Advances -> Int]
  BY CollectionConstants DEF Init
<1>2. 0 \in 0 .. MaxLinks
  BY CollectionConstants
<1> QED
  BY <1>1, <1>2 DEF Init, TypeOK

\* The columns of the advances and the collections, apart from the processes.
BookTypes ==
    /\ status \in [Advances -> {"disbursed", "settled", "written_off"}]
    /\ recovered \in [Advances -> Nat]
    /\ receivable \in [Advances -> Int]
    /\ collection \in [Rows -> {"none", "pending", "successful", "failed"}]
    /\ debitAmount \in [Rows -> Nat]

LEMMA FailureTypes ==
    ASSUME TypeOK, NEW r \in Rows, ConfirmFailure(r)
    PROVE  BookTypes'
<1>1. r[1] \in Advances /\ Amount[r[1]] \in Nat
  BY CollectionConstants DEF Rows
<1> QED
  BY <1>1 DEF ConfirmFailure, TypeOK, BookTypes

LEMMA LinkTypes ==
    ASSUME TypeOK, Link
    PROVE  TypeOK'
<1>1. CASE CompleteLink
  <2>1. links' \in 0 .. MaxLinks
    BY <1>1, CollectionConstants DEF CompleteLink, TypeOK
  <2> QED
    BY <1>1, <2>1 DEF CompleteLink, TypeOK, bookVars
<1>2. CASE AuthorizeRead
  BY <1>2, CollectionConstants DEF AuthorizeRead, TypeOK, bookVars
<1>3. CASE AuthorizeDebit
  BY <1>3, CollectionConstants DEF AuthorizeDebit, TypeOK, bookVars
<1>4. CASE AuthorizeFails
  BY <1>4, CollectionConstants DEF AuthorizeFails, TypeOK, bookVars
<1>5. CASE RevokeDebitMandate
  BY <1>5 DEF RevokeDebitMandate, TypeOK, bookVars
<1>6. CASE Revoke
  BY <1>6 DEF Revoke, TypeOK, bookVars
<1>7. CASE ConsentExpires
  BY <1>7 DEF ConsentExpires, TypeOK, bookVars
<1> QED
  BY <1>1, <1>2, <1>3, <1>4, <1>5, <1>6, <1>7 DEF Link

LEMMA SweepTypes ==
    ASSUME TypeOK, NEW s \in Sweepers, Sweep(s)
    PROVE  TypeOK'
<1> USE SweeperFields, SweeperStep
<1>1. CASE SweepRead(s)
  BY <1>1 DEF SweepRead, Become, TypeOK, SweeperRec, bookVars, linkVars
<1>2. ASSUME NEW a \in Advances, AttemptDue(s, a) PROVE TypeOK'
  BY <1>2 DEF AttemptDue, At, Become, TypeOK, SweeperRec, bookVars, linkVars
<1>3. ASSUME NEW a \in Advances, AttemptSkipped(s, a) PROVE TypeOK'
  BY <1>3 DEF AttemptSkipped, At, Become, TypeOK, SweeperRec, bookVars, linkVars
<1>4. CASE SweepEnds(s)
  BY <1>4 DEF SweepEnds, Become, TypeOK, SweeperRec, bookVars, linkVars
<1>5. CASE InitiateRead(s)
  <2>1. sweeper[s].advance \in Advances /\ sweeper[s].todo \in SUBSET Advances
    BY <1>5 DEF InitiateRead, At
  <2>2. RemainingKobo(sweeper[s].advance) \in Nat
    BY <2>1, RemainingType
  <2>3. sweeper' \in [Sweepers -> SweeperRec]
    <3> DEFINE rec == [pc |-> "create", todo |-> sweeper[s].todo,
                       advance |-> sweeper[s].advance,
                       remaining |-> RemainingKobo(sweeper[s].advance)]
    <3>1. rec \in SweeperRec
      BY <2>1, <2>2
    <3>2. Rest(s) \in SweeperRec
      BY <2>1 DEF Rest
    <3>3. Become(s, rec) \/ Become(s, Rest(s))
      BY <1>5 DEF InitiateRead
    <3>4. ASSUME NEW x \in SweeperRec, Become(s, x)
          PROVE  sweeper' \in [Sweepers -> SweeperRec]
      BY <3>4 DEF Become
    <3> HIDE DEF rec
    <3> QED
      BY <3>1, <3>2, <3>3, <3>4
  <2> QED
    BY <1>5, <2>3 DEF InitiateRead, TypeOK, SweeperRec, bookVars, linkVars
<1>6. ASSUME NEW r \in Rows, CreateCollection(s, r) PROVE TypeOK'
  <2>1. sweeper[s].todo \in SUBSET Advances /\ sweeper[s].remaining \in Nat
    BY <1>6 DEF CreateCollection, At
  <2>2. sweeper' \in [Sweepers -> SweeperRec]
    BY <1>6, <2>1 DEF CreateCollection, Become
  <2> QED
    BY <1>6, <2>1, <2>2 DEF CreateCollection, TypeOK, SweeperRec, linkVars
<1>7. CASE CreateRefused(s)
  BY <1>7 DEF CreateRefused, At, Become, Rest, TypeOK, SweeperRec, bookVars, linkVars
<1>8. CASE DebitAccepted(s)
  BY <1>8 DEF DebitAccepted, At, Goto, TypeOK, SweeperRec, bookVars, linkVars
<1>9. CASE DebitRejected(s)
  BY <1>9 DEF DebitRejected, At, Goto, TypeOK, SweeperRec, bookVars, linkVars
<1>10. CASE RecordReference(s)
  BY <1>10 DEF RecordReference, At, Become, Rest, TypeOK, SweeperRec, bookVars, linkVars
<1>11. CASE RecordFailure(s)
  <2>1. sweeper[s].row \in Rows /\ sweeper[s].todo \in SUBSET Advances
    BY <1>11 DEF RecordFailure, At
  <2>2. BookTypes'
    BY <1>11, <2>1, FailureTypes DEF RecordFailure
  <2>3. sweeper' \in [Sweepers -> SweeperRec]
    BY <1>11, <2>1 DEF RecordFailure, Become, Rest
  <2> QED
    BY <1>11, <2>2, <2>3 DEF RecordFailure, BookTypes, TypeOK, SweeperRec, linkVars
<1> QED
  BY <1>1, <1>2, <1>3, <1>4, <1>5, <1>6, <1>7, <1>8, <1>9, <1>10, <1>11 DEF Sweep

LEMMA NextTypes == TypeOK /\ [Next]_vars => TypeOK'
<1> SUFFICES ASSUME TypeOK, [Next]_vars PROVE TypeOK'
  OBVIOUS
<1>1. CASE Link
  BY <1>1, LinkTypes
<1>2. ASSUME NEW s \in Sweepers, Sweep(s) PROVE TypeOK'
  BY <1>2, SweepTypes
<1>3. ASSUME NEW s \in Sweepers, SweeperCrash(s) PROVE TypeOK'
  BY <1>3, SweeperStep DEF SweeperCrash, Become, TypeOK, SweeperRec, bookVars, linkVars
<1>4. ASSUME NEW r \in Rows, RailDecides(r) PROVE TypeOK'
  BY <1>4 DEF RailDecides, TypeOK, bookVars, linkVars
<1>5. ASSUME NEW r \in Rows, WebhookSucceeds(r) PROVE TypeOK'
  <2>1. r[1] \in Advances
    BY DEF Rows
  <2>2. debitAmount[r] \in Nat /\ recovered[r[1]] \in Nat
    BY <2>1 DEF TypeOK
  <2> QED
    BY <1>5, <2>1, <2>2 DEF WebhookSucceeds, TypeOK, linkVars
<1>6. ASSUME NEW r \in Rows, WebhookFails(r) PROVE TypeOK'
  BY <1>6, FailureTypes DEF WebhookFails, BookTypes, TypeOK, linkVars
<1>7. CASE UNCHANGED vars
  BY <1>7 DEF vars, TypeOK
<1> QED
  BY <1>1, <1>2, <1>3, <1>4, <1>5, <1>6, <1>7 DEF Next

\* Every reachable state is well typed, whatever overlaps and gets lost.
THEOREM TypeCorrect == Spec => []TypeOK
  BY InitTypes, NextTypes, PTL DEF Spec

-----------------------------------------------------------------------------
(* The books.                                                              *)

\* What a failed attempt does to the books of its advance.
LEMMA FailureBooks ==
    ASSUME TypeOK, DebitBooksMatch, NEW r \in Rows, ConfirmFailure(r)
    PROVE  DebitBooksMatch'
<1> DEFINE a == r[1]
<1>1. a \in Advances /\ \A b \in Advances : Amount[b] \in Nat
  BY CollectionConstants DEF Rows
<1> SUFFICES ASSUME NEW b \in Advances
             PROVE  /\ recovered'[b] <= Amount[b]
                    /\ receivable'[b] = Amount[b] - recovered'[b]
                          - (IF status'[b] = "written_off" THEN Amount[b] ELSE 0)
                    /\ status'[b] = "settled" => recovered'[b] = Amount[b]
                    /\ status'[b] = "disbursed" => recovered'[b] < Amount[b]
  BY DEF DebitBooksMatch
<1>2. CASE Lost(r) /\ b = a
  <2>1. status[a] = "disbursed"
    BY <1>2 DEF Lost
  <2>2. status'[a] = "written_off" /\ receivable'[a] = receivable[a] - Amount[a]
    BY <1>1, <1>2 DEF ConfirmFailure, TypeOK
  <2>3. recovered' = recovered
    BY DEF ConfirmFailure
  <2> QED
    BY <1>1, <1>2, <2>1, <2>2, <2>3 DEF DebitBooksMatch, TypeOK
<1>3. CASE ~ (Lost(r) /\ b = a)
  <2>1. status'[b] = status[b] /\ receivable'[b] = receivable[b]
    BY <1>1, <1>3 DEF ConfirmFailure, TypeOK
  <2>2. recovered' = recovered
    BY DEF ConfirmFailure
  <2> QED
    BY <2>1, <2>2 DEF DebitBooksMatch
<1> QED
  BY <1>2, <1>3

\* What a successful one does: the CHECK keeps the total within the amount.
LEMMA SuccessBooks ==
    ASSUME TypeOK, DebitBooksMatch, NEW r \in Rows, WebhookSucceeds(r)
    PROVE  DebitBooksMatch'
<1> DEFINE a == r[1]
           total == recovered[a] + debitAmount[r]
<1>1. a \in Advances /\ \A b \in Advances : Amount[b] \in Nat
  BY CollectionConstants DEF Rows
<1>2. debitAmount[r] \in Nat /\ recovered[a] \in Nat /\ total <= Amount[a]
  BY <1>1 DEF TypeOK, WebhookSucceeds, WithinBounds
<1> SUFFICES ASSUME NEW b \in Advances
             PROVE  /\ recovered'[b] <= Amount[b]
                    /\ receivable'[b] = Amount[b] - recovered'[b]
                          - (IF status'[b] = "written_off" THEN Amount[b] ELSE 0)
                    /\ status'[b] = "settled" => recovered'[b] = Amount[b]
                    /\ status'[b] = "disbursed" => recovered'[b] < Amount[b]
  BY DEF DebitBooksMatch
<1>3. CASE b = a
  <2>1. recovered'[a] = total /\ receivable'[a] = receivable[a] - debitAmount[r]
    BY <1>1 DEF WebhookSucceeds, TypeOK
  <2>2. status'[a] = IF status[a] = "disbursed" /\ total >= Amount[a]
                     THEN "settled" ELSE status[a]
    BY <1>1 DEF WebhookSucceeds, TypeOK
  <2>3. receivable[a] \in Int /\ receivable[a] = Amount[a] - recovered[a]
          - (IF status[a] = "written_off" THEN Amount[a] ELSE 0)
    BY <1>1 DEF DebitBooksMatch, TypeOK
  <2>4. status[a] = "settled" => recovered[a] = Amount[a]
    BY <1>1 DEF DebitBooksMatch
  <2> QED
    BY <1>1, <1>2, <1>3, <2>1, <2>2, <2>3, <2>4
<1>4. CASE b # a
  <2>1. /\ recovered'[b] = recovered[b] /\ receivable'[b] = receivable[b]
        /\ status'[b] = status[b]
    BY <1>4 DEF WebhookSucceeds, TypeOK
  <2> QED
    BY <2>1 DEF DebitBooksMatch
<1> QED
  BY <1>3, <1>4

\* Every step but the two outcomes leaves the advances alone.
LEMMA AdvancesKept ==
    ASSUME Next
    PROVE  \/ UNCHANGED <<status, recovered, receivable>>
           \/ \E s \in Sweepers : RecordFailure(s)
           \/ \E r \in Rows : WebhookSucceeds(r)
           \/ \E r \in Rows : WebhookFails(r)
<1>1. CASE Link
  BY <1>1 DEF Link, CompleteLink, AuthorizeRead, AuthorizeDebit, AuthorizeFails,
              RevokeDebitMandate, Revoke, ConsentExpires, bookVars
<1>2. ASSUME NEW s \in Sweepers, Sweep(s)
      PROVE  UNCHANGED <<status, recovered, receivable>> \/ RecordFailure(s)
  BY <1>2 DEF Sweep, SweepRead, AttemptDue, AttemptSkipped, SweepEnds, InitiateRead,
              CreateCollection, CreateRefused, DebitAccepted, DebitRejected,
              RecordReference, bookVars
<1> QED
  BY <1>1, <1>2 DEF Next, SweeperCrash, RailDecides, bookVars

LEMMA NextBooks == TypeOK /\ DebitBooksMatch /\ [Next]_vars => DebitBooksMatch'
<1> SUFFICES ASSUME TypeOK, DebitBooksMatch, [Next]_vars PROVE DebitBooksMatch'
  OBVIOUS
<1>1. CASE UNCHANGED <<status, recovered, receivable>>
  BY <1>1 DEF DebitBooksMatch
<1>2. ASSUME NEW s \in Sweepers, RecordFailure(s) PROVE DebitBooksMatch'
  BY <1>2, SweeperFields, FailureBooks DEF RecordFailure, At
<1>3. ASSUME NEW r \in Rows, WebhookSucceeds(r) PROVE DebitBooksMatch'
  BY <1>3, SuccessBooks
<1>4. ASSUME NEW r \in Rows, WebhookFails(r) PROVE DebitBooksMatch'
  BY <1>4, FailureBooks DEF WebhookFails
<1> QED
  BY <1>1, <1>2, <1>3, <1>4, AdvancesKept DEF vars

LEMMA InitBooks == Init => DebitBooksMatch
<1> SUFFICES ASSUME Init, NEW a \in Advances
             PROVE  /\ recovered[a] = 0 /\ receivable[a] = Amount[a]
                    /\ status[a] = "disbursed" /\ Amount[a] \in Nat /\ Amount[a] > 0
  BY DEF DebitBooksMatch
<1> QED
  BY CollectionConstants DEF Init

\* The books match however many sweeps overlap and whatever answers are lost.
THEOREM BooksAlwaysMatch == Spec => []DebitBooksMatch
<1>1. Spec => []TypeOK
  BY TypeCorrect
<1> QED
  BY <1>1, InitBooks, NextBooks, PTL DEF Spec

\* A resolved collection, a settled and a written-off advance are final.
THEOREM ResolvedStays == Spec => ResolvedIsFinal
<1> DEFINE Final ==
      /\ \A r \in Rows : collection[r] \in {"successful", "failed"}
                            => collection'[r] = collection[r]
      /\ \A a \in Advances : status[a] # "disbursed" => status'[a] = status[a]
<1>1. ASSUME TypeOK, NEW r \in Rows, ConfirmFailure(r) PROVE Final
  BY <1>1 DEF ConfirmFailure, Lost, TypeOK, Rows
<1>2. ASSUME TypeOK, NEW r \in Rows, WebhookSucceeds(r) PROVE Final
  BY <1>2 DEF WebhookSucceeds, Collected, Found, TypeOK, Rows
<1>3. ASSUME TypeOK, NEW s \in Sweepers, Sweep(s) PROVE Final
  <2>1. CASE RecordFailure(s)
    BY <1>1, <1>3, <2>1, SweeperFields DEF RecordFailure, At
  <2>2. ASSUME NEW r \in Rows, CreateCollection(s, r) PROVE Final
    BY <1>3, <2>2 DEF CreateCollection, TypeOK
  <2> QED
    BY <1>3, <2>1, <2>2
    DEF Sweep, SweepRead, AttemptDue, AttemptSkipped, SweepEnds, InitiateRead,
        CreateRefused, DebitAccepted, DebitRejected, RecordReference, bookVars
<1>4. ASSUME Link PROVE Final
  BY <1>4 DEF Link, CompleteLink, AuthorizeRead, AuthorizeDebit, AuthorizeFails,
              RevokeDebitMandate, Revoke, ConsentExpires, bookVars
<1>5. TypeOK /\ [Next]_vars => [Final]_vars
  BY <1>1, <1>2, <1>3, <1>4 DEF Next, SweeperCrash, RailDecides, WebhookFails, bookVars, vars
<1> QED
  BY <1>5, TypeCorrect, PTL DEF Spec, ResolvedIsFinal

-----------------------------------------------------------------------------
(* The mandate.                                                            *)

\* An authorization under way for the current link began after the last
\* withdrawal of one; one begun earlier is for a link that is gone.
AuthorizationInv ==
    /\ authorizing <= links
    /\ linked /\ authorizing # 0 /\ authorizing = links => ~ withdrawn
    /\ MandateIsAuthorized

LEMMA NextAuthorization == TypeOK /\ AuthorizationInv /\ [Next]_vars => AuthorizationInv'
<1> SUFFICES ASSUME TypeOK, AuthorizationInv, [Next]_vars PROVE AuthorizationInv'
  OBVIOUS
<1> USE CollectionConstants DEF AuthorizationInv, MandateIsAuthorized
<1>1. CASE UNCHANGED linkVars
  BY <1>1 DEF linkVars
<1>2. CASE Link
  <2>1. CASE CompleteLink
    BY <2>1 DEF CompleteLink, TypeOK
  <2>2. CASE AuthorizeRead
    BY <2>2 DEF AuthorizeRead, TypeOK
  <2>3. CASE AuthorizeDebit
    BY <2>3 DEF AuthorizeDebit, TypeOK
  <2>4. CASE AuthorizeFails
    BY <2>4 DEF AuthorizeFails, TypeOK
  <2>5. CASE RevokeDebitMandate
    BY <2>5 DEF RevokeDebitMandate, TypeOK
  <2>6. CASE Revoke
    BY <2>6 DEF Revoke, TypeOK
  <2>7. CASE ConsentExpires
    BY <2>7 DEF ConsentExpires, TypeOK
  <2> QED
    BY <1>2, <2>1, <2>2, <2>3, <2>4, <2>5, <2>6, <2>7 DEF Link
<1>3. ASSUME NEW s \in Sweepers, Sweep(s) PROVE UNCHANGED linkVars
  BY <1>3 DEF Sweep, SweepRead, AttemptDue, AttemptSkipped, SweepEnds, InitiateRead,
              CreateCollection, CreateRefused, DebitAccepted, DebitRejected,
              RecordReference, RecordFailure, linkVars
<1>4. CASE UNCHANGED vars
  BY <1>1, <1>4 DEF vars, linkVars
<1> QED
  BY <1>1, <1>2, <1>3, <1>4
  DEF Next, SweeperCrash, RailDecides, WebhookSucceeds, WebhookFails

\* No account is debited after a withdrawal until the worker asks again.
THEOREM MandateAlwaysAuthorized == Spec => []MandateIsAuthorized
<1>1. Init => AuthorizationInv
  BY DEF Init, AuthorizationInv, MandateIsAuthorized
<1>2. AuthorizationInv => MandateIsAuthorized
  BY DEF AuthorizationInv
<1>3. Spec => []TypeOK
  BY TypeCorrect
<1> QED
  BY <1>1, <1>2, <1>3, NextAuthorization, PTL DEF Spec

-----------------------------------------------------------------------------
(* The attempts.                                                           *)

LEMMA RowsFinite ==
    ASSUME NEW S \in SUBSET Rows
    PROVE  IsFiniteSet(S) /\ Cardinality(S) \in Nat
<1>1. IsFiniteSet(1 .. MaxRows)
  BY CollectionConstants, FS_Interval
<1>2. IsFiniteSet(Rows)
  BY <1>1, CollectionConstants, FS_Product DEF Rows
<1> QED
  BY <1>2, FS_Subset, FS_CardinalityType

\* A step that leaves the failed collections and opens no advance.
LEMMA AttemptsKept ==
    ASSUME OpenHasAttemptsLeft,
           \A r \in Rows : collection'[r] = "failed" <=> collection[r] = "failed",
           \A a \in Advances : status'[a] = "disbursed" => status[a] = "disbursed"
    PROVE  OpenHasAttemptsLeft'
<1>1. \A a \in Advances : RowsIn(a, "failed")' = RowsIn(a, "failed")
  BY DEF RowsIn, RowsOf
<1> QED
  BY <1>1 DEF OpenHasAttemptsLeft

LEMMA FailureAttempts ==
    ASSUME TypeOK, OpenHasAttemptsLeft, NEW r \in Rows, ConfirmFailure(r)
    PROVE  OpenHasAttemptsLeft'
<1>1. r[1] \in Advances /\ MaxAttempts \in Nat
  BY CollectionConstants DEF Rows
<1>2. /\ \A q \in Rows : collection'[q] = IF q = r THEN "failed" ELSE collection[q]
      /\ \A a \in Advances : a # r[1] => status'[a] = status[a]
      /\ status'[r[1]] = IF Lost(r) THEN "written_off" ELSE status[r[1]]
  BY <1>1 DEF ConfirmFailure, TypeOK
<1> SUFFICES ASSUME NEW a \in Advances, status'[a] = "disbursed"
             PROVE  Cardinality(RowsIn(a, "failed")') < MaxAttempts
  BY DEF OpenHasAttemptsLeft
<1>3. CASE a = r[1]
  <2>1. RowsIn(a, "failed")' = RowsIn(a, "failed") \cup {r}
    BY <1>2, <1>3 DEF RowsIn, RowsOf
  <2>2. RowsIn(a, "failed") \cup {r} \in SUBSET Rows
    BY DEF RowsIn, RowsOf
  <2>3. Cardinality(RowsIn(a, "failed") \cup {r}) \in Nat
    BY <2>2, RowsFinite
  <2>4. ~ Exhausted(r)
    BY <1>2, <1>3 DEF Lost
  <2> QED
    BY <1>1, <1>3, <2>1, <2>3, <2>4 DEF Exhausted
<1>4. CASE a # r[1]
  <2>1. RowsIn(a, "failed")' = RowsIn(a, "failed") /\ status[a] = "disbursed"
    BY <1>2, <1>4 DEF RowsIn, RowsOf
  <2> QED
    BY <2>1 DEF OpenHasAttemptsLeft
<1> QED
  BY <1>3, <1>4

LEMMA NextAttempts == TypeOK /\ OpenHasAttemptsLeft /\ [Next]_vars => OpenHasAttemptsLeft'
<1> SUFFICES ASSUME TypeOK, OpenHasAttemptsLeft, [Next]_vars PROVE OpenHasAttemptsLeft'
  OBVIOUS
<1>u. ASSUME UNCHANGED <<status, collection>> PROVE OpenHasAttemptsLeft'
  BY <1>u, AttemptsKept
<1>1. CASE Link
  BY <1>1, <1>u DEF Link, CompleteLink, AuthorizeRead, AuthorizeDebit, AuthorizeFails,
                    RevokeDebitMandate, Revoke, ConsentExpires, bookVars
<1>2. ASSUME NEW s \in Sweepers, Sweep(s) PROVE OpenHasAttemptsLeft'
  <2>1. ASSUME NEW r \in Rows, CreateCollection(s, r) PROVE OpenHasAttemptsLeft'
    BY <2>1, AttemptsKept DEF CreateCollection, TypeOK
  <2>2. CASE RecordFailure(s)
    BY <2>2, SweeperFields, FailureAttempts DEF RecordFailure, At
  <2> QED
    BY <1>2, <1>u, <2>1, <2>2
    DEF Sweep, SweepRead, AttemptDue, AttemptSkipped, SweepEnds, InitiateRead,
        CreateRefused, DebitAccepted, DebitRejected, RecordReference, bookVars
<1>3. ASSUME NEW r \in Rows, WebhookSucceeds(r) PROVE OpenHasAttemptsLeft'
  BY <1>3, AttemptsKept DEF WebhookSucceeds, Collected, Found, TypeOK, Rows
<1>4. ASSUME NEW r \in Rows, WebhookFails(r) PROVE OpenHasAttemptsLeft'
  BY <1>4, FailureAttempts DEF WebhookFails
<1> QED
  BY <1>1, <1>2, <1>3, <1>4, <1>u DEF Next, SweeperCrash, RailDecides, bookVars, vars

\* An advance that has used up its attempts is not left open.
THEOREM OpenKeepsAttempts == Spec => []OpenHasAttemptsLeft
<1>1. Init => OpenHasAttemptsLeft
  <2> SUFFICES ASSUME Init, NEW a \in Advances
               PROVE  Cardinality(RowsIn(a, "failed")) < MaxAttempts
    BY DEF OpenHasAttemptsLeft
  <2>1. RowsIn(a, "failed") = {}
    BY DEF Init, RowsIn, RowsOf
  <2> QED
    BY <2>1, FS_EmptySet, CollectionConstants
<1>2. Spec => []TypeOK
  BY TypeCorrect
<1> QED
  BY <1>1, <1>2, NextAttempts, PTL DEF Spec

-----------------------------------------------------------------------------
(* Only money that landed is booked.                                       *)

\* A sweep works on a row of its own, which no callback can find; only what the
\* rail carried out is recorded as successful.
LandedInv ==
    /\ \A s \in Sweepers : Busy(s) =>
          collection[sweeper[s].row] # "none" /\ ~ referenced[sweeper[s].row]
    /\ \A s, t \in Sweepers : s # t /\ Busy(s) /\ Busy(t) => sweeper[s].row # sweeper[t].row
    /\ \A r \in Rows : collection[r] = "none" => ~ referenced[r]
    /\ \A r \in Rows : collection[r] = "successful" => referenced[r] /\ rail[r] = "landed"
    /\ RecoveredMeansLanded

\* Losing the row a sweep works on, keeping it, or staying away from rows.
LEMMA LandedKept ==
    ASSUME TypeOK, LandedInv, NEW s \in Sweepers,
           UNCHANGED <<recovered, collection, referenced>>,
           \A t \in Sweepers : t # s => sweeper'[t] = sweeper[t],
           Busy(s)' => Busy(s) /\ sweeper'[s].row = sweeper[s].row,
           \A r \in Rows : rail'[r] = rail[r] \/ (Busy(s) /\ r = sweeper[s].row)
    PROVE  LandedInv'
<1>1. \A r \in Rows : collection[r] = "successful" => rail'[r] = rail[r]
  BY DEF LandedInv
<1>2. RecoveredMeansLanded'
  BY <1>1 DEF LandedInv, RecoveredMeansLanded, RowsOf
<1>3. \A t \in Sweepers : Busy(t)' => Busy(t) /\ sweeper'[t].row = sweeper[t].row
  BY DEF Busy
<1> QED
  BY <1>1, <1>2, <1>3 DEF LandedInv

LEMMA FailureLanded ==
    ASSUME TypeOK, LandedInv, NEW r \in Rows, ConfirmFailure(r),
           UNCHANGED <<referenced, rail>>,
           \A t \in Sweepers : Busy(t)' => Busy(t) /\ sweeper'[t].row = sweeper[t].row
    PROVE  LandedInv'
<1>1. \A q \in Rows : collection'[q] = IF q = r THEN "failed" ELSE collection[q]
  BY DEF ConfirmFailure, TypeOK
<1>2. recovered' = recovered /\ collection[r] = "pending"
  BY DEF ConfirmFailure
<1>3. RecoveredMeansLanded'
  BY <1>1, <1>2 DEF LandedInv, RecoveredMeansLanded, RowsOf
<1>4. \A t \in Sweepers : Busy(t) => sweeper[t].row \in Rows
  BY SweeperFields DEF Busy
<1> QED
  BY <1>1, <1>2, <1>3, <1>4 DEF LandedInv

LEMMA SweepLanded ==
    ASSUME TypeOK, LandedInv, NEW s \in Sweepers, Sweep(s)
    PROVE  LandedInv'
<1>t. sweeper \in [Sweepers -> SweeperRec]
  BY DEF TypeOK, SweeperRec
<1>b. \A t \in Sweepers : Busy(t) => sweeper[t].row \in Rows
  BY SweeperFields DEF Busy
<1>1. CASE SweepRead(s)
  BY <1>1, <1>t, LandedKept DEF SweepRead, Become, Busy, bookVars
<1>2. ASSUME NEW a \in Advances, AttemptDue(s, a) PROVE LandedInv'
  BY <1>2, <1>t, LandedKept DEF AttemptDue, Become, Busy, bookVars
<1>3. ASSUME NEW a \in Advances, AttemptSkipped(s, a) PROVE LandedInv'
  BY <1>3, <1>t, LandedKept DEF AttemptSkipped, Become, Busy, bookVars
<1>4. CASE SweepEnds(s)
  BY <1>4, <1>t, LandedKept DEF SweepEnds, Become, Busy, Idle, bookVars
<1>5. CASE InitiateRead(s)
  BY <1>5, <1>t, LandedKept DEF InitiateRead, Become, Rest, Busy, bookVars
<1>6. ASSUME NEW r \in Rows, CreateCollection(s, r) PROVE LandedInv'
  <2>1. /\ collection[r] = "none"
        /\ \A q \in Rows : collection'[q] = IF q = r THEN "pending" ELSE collection[q]
        /\ UNCHANGED <<recovered, referenced, rail>>
    BY <1>6 DEF CreateCollection, TypeOK
  <2>2. /\ sweeper'[s].pc = "submit" /\ sweeper'[s].row = r
        /\ \A t \in Sweepers : t # s => sweeper'[t] = sweeper[t]
    BY <1>6, <1>t DEF CreateCollection, Become
  <2>3. RecoveredMeansLanded'
    BY <2>1 DEF LandedInv, RecoveredMeansLanded, RowsOf
  <2>4. \A t \in Sweepers : t # s /\ Busy(t) => sweeper[t].row # r
    BY <2>1 DEF LandedInv
  <2>5. \A t \in Sweepers : Busy(t)' =>
           collection'[sweeper'[t].row] # "none" /\ ~ referenced'[sweeper'[t].row]
    BY <1>b, <2>1, <2>2, <2>4 DEF LandedInv, Busy
  <2>6. \A t, u \in Sweepers : t # u /\ Busy(t)' /\ Busy(u)' =>
           sweeper'[t].row # sweeper'[u].row
    BY <2>2, <2>4 DEF LandedInv, Busy
  <2> QED
    BY <2>1, <2>3, <2>5, <2>6 DEF LandedInv
<1>7. CASE CreateRefused(s)
  BY <1>7, <1>t, LandedKept DEF CreateRefused, Become, Rest, Busy, bookVars
<1>8. CASE DebitAccepted(s) \/ DebitRejected(s)
  <2>1. sweeper[s] \in Submitting /\ sweeper[s].row \in Rows /\ Busy(s)
    BY <1>8, SweeperFields DEF DebitAccepted, DebitRejected, At, Busy
  <2>2. sweeper'[s].row = sweeper[s].row /\ \A t \in Sweepers : t # s => sweeper'[t] = sweeper[t]
    BY <1>8, <1>t, <2>1 DEF DebitAccepted, DebitRejected, Goto, Submitting
  <2>3. \A q \in Rows : q # sweeper[s].row => rail'[q] = rail[q]
    BY <1>8 DEF DebitAccepted, DebitRejected, TypeOK
  <2>4. UNCHANGED <<recovered, collection, referenced>>
    BY <1>8 DEF DebitAccepted, DebitRejected, bookVars
  <2> QED
    BY <2>1, <2>2, <2>3, <2>4, LandedKept
<1>9. CASE RecordReference(s)
  <2> DEFINE row == sweeper[s].row
  <2>1. row \in Rows /\ Busy(s)
    BY <1>9, SweeperFields DEF RecordReference, At, Busy
  <2>2. collection[row] \notin {"none", "successful"}
    BY <2>1 DEF LandedInv
  <2>3. UNCHANGED <<recovered, collection, rail>>
    BY <1>9 DEF RecordReference, bookVars
  <2>4. \A q \in Rows : q # row => referenced'[q] = referenced[q]
    BY <1>9 DEF RecordReference, TypeOK
  <2>5. ~ Busy(s)' /\ \A t \in Sweepers : t # s => sweeper'[t] = sweeper[t]
    BY <1>9, <1>t DEF RecordReference, Become, Rest, Busy
  <2>6. \A t \in Sweepers : Busy(t)' =>
           t # s /\ Busy(t) /\ sweeper'[t].row = sweeper[t].row /\ sweeper[t].row # row
    BY <2>1, <2>5 DEF LandedInv, Busy
  <2>7. RecoveredMeansLanded'
    BY <2>3 DEF LandedInv, RecoveredMeansLanded, RowsOf
  <2> QED
    BY <1>b, <2>2, <2>3, <2>4, <2>6, <2>7 DEF LandedInv
<1>10. CASE RecordFailure(s)
  <2>1. sweeper[s].row \in Rows
    BY <1>10, SweeperFields DEF RecordFailure, At
  <2>2. \A t \in Sweepers : Busy(t)' => Busy(t) /\ sweeper'[t].row = sweeper[t].row
    BY <1>10, <1>t DEF RecordFailure, Become, Rest, Busy
  <2> QED
    BY <1>10, <2>1, <2>2, FailureLanded DEF RecordFailure
<1> QED
  BY <1>1, <1>2, <1>3, <1>4, <1>5, <1>6, <1>7, <1>8, <1>9, <1>10 DEF Sweep

LEMMA NextLanded == TypeOK /\ LandedInv /\ [Next]_vars => LandedInv'
<1> SUFFICES ASSUME TypeOK, LandedInv, [Next]_vars PROVE LandedInv'
  OBVIOUS
<1>u. ASSUME UNCHANGED <<recovered, collection, referenced, rail, sweeper>> PROVE LandedInv'
  BY <1>u DEF LandedInv, RecoveredMeansLanded, Busy, RowsOf
<1>1. CASE Link
  BY <1>1, <1>u DEF Link, CompleteLink, AuthorizeRead, AuthorizeDebit, AuthorizeFails,
                    RevokeDebitMandate, Revoke, ConsentExpires, bookVars
<1>2. ASSUME NEW s \in Sweepers, Sweep(s) PROVE LandedInv'
  BY <1>2, SweepLanded
<1>3. ASSUME NEW s \in Sweepers, SweeperCrash(s) PROVE LandedInv'
  BY <1>3, LandedKept DEF SweeperCrash, Become, Busy, Idle, TypeOK, bookVars
<1>4. ASSUME NEW r \in Rows, RailDecides(r) PROVE LandedInv'
  <2>1. \A q \in Rows : rail[q] = "landed" => rail'[q] = "landed"
    BY <1>4 DEF RailDecides, TypeOK
  <2>2. UNCHANGED <<recovered, collection, referenced, sweeper>>
    BY <1>4 DEF RailDecides, bookVars
  <2>3. RecoveredMeansLanded'
    BY <2>1, <2>2 DEF LandedInv, RecoveredMeansLanded, RowsOf
  <2> QED
    BY <2>1, <2>2, <2>3 DEF LandedInv, Busy
<1>5. ASSUME NEW r \in Rows, WebhookSucceeds(r) PROVE LandedInv'
  <2>1. r[1] \in Advances /\ referenced[r] /\ collection[r] = "pending" /\ rail[r] = "landed"
    BY <1>5 DEF WebhookSucceeds, Collected, Found, Rows
  <2>2. \A q \in Rows : collection'[q] = IF q = r THEN "successful" ELSE collection[q]
    BY <1>5 DEF WebhookSucceeds, TypeOK
  <2>3. /\ UNCHANGED <<referenced, rail, sweeper>>
        /\ \A a \in Advances : a # r[1] => recovered'[a] = recovered[a]
    BY <1>5 DEF WebhookSucceeds, TypeOK
  <2>4. ASSUME NEW a \in Advances, recovered'[a] > 0
        PROVE  \E q \in RowsOf(a) : collection'[q] = "successful" /\ rail'[q] = "landed"
    <3>1. CASE a = r[1]
      BY <2>1, <2>2, <2>3, <3>1 DEF RowsOf
    <3>2. CASE a # r[1]
      BY <2>2, <2>3, <2>4, <3>2 DEF LandedInv, RecoveredMeansLanded, RowsOf
    <3> QED
      BY <3>1, <3>2
  <2>5. RecoveredMeansLanded'
    BY <2>4 DEF RecoveredMeansLanded, RowsOf
  <2>6. \A t \in Sweepers : Busy(t) => sweeper[t].row \in Rows
    BY SweeperFields DEF Busy
  <2> QED
    BY <2>1, <2>2, <2>3, <2>5, <2>6 DEF LandedInv, Busy
<1>6. ASSUME NEW r \in Rows, WebhookFails(r) PROVE LandedInv'
  BY <1>6, FailureLanded DEF WebhookFails, Busy
<1>7. CASE UNCHANGED vars
  BY <1>7, <1>u DEF vars
<1> QED
  BY <1>1, <1>2, <1>3, <1>4, <1>5, <1>6, <1>7 DEF Next

\* Nothing is booked as recovered that the rail did not carry out, although
\* sweeps overlap and answers are lost.
THEOREM OnlyLandedIsRecovered == Spec => []RecoveredMeansLanded
<1>1. Init => LandedInv
  BY DEF Init, LandedInv, RecoveredMeansLanded, Busy, Idle
<1>2. LandedInv => RecoveredMeansLanded
  BY DEF LandedInv
<1>3. Spec => []TypeOK
  BY TypeCorrect
<1> QED
  BY <1>1, <1>2, <1>3, NextLanded, PTL DEF Spec

-----------------------------------------------------------------------------
(* One debit per advance, when one sweep runs at a time and every answer of *)
(* the rail arrives.                                                       *)

\* One sweep at a time, and no answer is lost.
OneSweepWithAnswers == (\A s, t \in Sweepers : s = t) /\ ~ LostAnswers

\* The invariant without the sweep: what the tables and the rail agree on.
TablesInv == RailAgrees /\ OneCollection

LEMMA InitCollection == Init => CollectionInv
<1> SUFFICES ASSUME Init PROVE CollectionInv
  OBVIOUS
<1>1. SweepReadsCurrent
  BY DEF Init, SweepReadsCurrent, At, Idle
<1>2. RailAgrees
  BY DEF Init, RailAgrees, Rows
<1>3. OneCollection
  BY DEF Init, OneCollection, RowsOf
<1> QED
  BY <1>1, <1>2, <1>3 DEF CollectionInv

\* A failed attempt of an open advance with nothing else in flight.
LEMMA FailureTables ==
    ASSUME TypeOK, TablesInv, NEW r \in Rows, ConfirmFailure(r),
           rail[r] \in {"none", "bounced"}, UNCHANGED <<referenced, rail>>
    PROVE  TablesInv'
<1>1. r[1] \in Advances
  BY DEF Rows
<1>2. /\ \A q \in Rows : collection'[q] = IF q = r THEN "failed" ELSE collection[q]
      /\ \A a \in Advances : a # r[1] => status'[a] = status[a]
      /\ status'[r[1]] \in {status[r[1]], "written_off"}
      /\ recovered' = recovered /\ debitAmount' = debitAmount
      /\ collection[r] = "pending" /\ status[r[1]] = "disbursed"
  BY <1>1 DEF ConfirmFailure, TypeOK, TablesInv, OneCollection, RowsOf
<1>3. RailAgrees'
  BY <1>2 DEF TablesInv, RailAgrees
<1>4. OneCollection'
  <2>1. \A q \in RowsOf(r[1]) : collection'[q] \notin {"pending", "successful"}
    BY <1>1, <1>2 DEF TablesInv, OneCollection, RowsOf
  <2> QED
    BY <1>1, <1>2, <2>1 DEF TablesInv, OneCollection, RowsOf
<1> QED
  BY <1>3, <1>4 DEF TablesInv

\* A successful one: the whole amount is recovered and the advance settled.
LEMMA SuccessTables ==
    ASSUME TypeOK, TablesInv, NEW r \in Rows, WebhookSucceeds(r)
    PROVE  TablesInv' /\ status'[r[1]] = "settled"
<1>1. r[1] \in Advances /\ Amount[r[1]] \in Nat \ {0}
  BY CollectionConstants DEF Rows
<1>2. /\ collection[r] = "pending" /\ rail[r] = "landed"
      /\ status[r[1]] = "disbursed"
      /\ debitAmount[r] = Amount[r[1]] /\ recovered[r[1]] = 0
  BY <1>1 DEF WebhookSucceeds, Collected, Found, TablesInv, RailAgrees, OneCollection, RowsOf
<1>3. status'[r[1]] = "settled"
  BY <1>1, <1>2 DEF WebhookSucceeds, TypeOK
<1>4. /\ \A q \in Rows : collection'[q] = IF q = r THEN "successful" ELSE collection[q]
      /\ \A a \in Advances : a # r[1] => status'[a] = status[a]
                                      /\ recovered'[a] = recovered[a]
      /\ UNCHANGED <<debitAmount, referenced, rail>>
  BY <1>1 DEF WebhookSucceeds, TypeOK
<1>5. RailAgrees'
  BY <1>2, <1>4 DEF TablesInv, RailAgrees
<1>6. OneCollection'
  BY <1>1, <1>2, <1>3, <1>4 DEF TablesInv, OneCollection, RowsOf
<1> QED
  BY <1>3, <1>5, <1>6 DEF TablesInv

\* What an outcome the rail reports leaves of what a sweep has read.
LEMMA OutcomeReads ==
    ASSUME TypeOK, CollectionInv, NEW r \in Rows, collection[r] = "pending", referenced[r],
           UNCHANGED <<sweeper, referenced, rail>>,
           \A q \in Rows : q # r => collection'[q] = collection[q],
           collection'[r] # "pending",
           \A a \in Advances : a # r[1] => status'[a] = status[a]
    PROVE  SweepReadsCurrent'
<1> SUFFICES ASSUME NEW s \in Sweepers, ~ At(s, "idle")
             PROVE  ReadsCurrent(s)'
  BY DEF SweepReadsCurrent, At
<1>1. ReadsCurrent(s)
  BY DEF CollectionInv, SweepReadsCurrent
<1>2. sweeper[s].todo \subseteq Advances
  BY SweeperFields DEF At
<1>3. r \in RowsIn(r[1], "pending")
  BY DEF RowsIn, RowsOf
<1>4. \A a \in Advances : RowsIn(a, "pending") = {} =>
         a # r[1] /\ RowsIn(a, "pending")' = {} /\ status'[a] = status[a]
  BY <1>3 DEF RowsIn, RowsOf
<1>5. \A a \in sweeper[s].todo : status'[a] = "disbursed" /\ RowsIn(a, "pending")' = {}
  BY <1>1, <1>2, <1>4 DEF ReadsCurrent
<1>6. CASE At(s, "list")
  BY <1>5, <1>6 DEF ReadsCurrent, Busy, At
<1>7. CASE At(s, "initiate") \/ At(s, "create")
  <2>1. sweeper[s].advance \in Advances
    BY <1>7, SweeperFields DEF At
  <2> QED
    BY <1>1, <1>4, <1>5, <1>7, <2>1 DEF ReadsCurrent, Busy, At
<1>8. CASE Busy(s)
  <2>1. sweeper[s].row \in Rows
    BY <1>8, SweeperFields DEF Busy
  <2>2. sweeper[s].row # r
    BY <1>1, <1>8 DEF ReadsCurrent
  <2> QED
    BY <1>1, <1>5, <1>8, <2>1, <2>2 DEF ReadsCurrent, Busy
<1> QED
  BY <1>6, <1>7, <1>8, SweeperFields DEF At, Busy

\* With one sweep, a step of it need only show its own record current.
LEMMA OnlySweep ==
    ASSUME OneSweepWithAnswers, NEW s \in Sweepers, ReadsCurrent(s)' \/ At(s, "idle")'
    PROVE  SweepReadsCurrent'
  BY DEF OneSweepWithAnswers, SweepReadsCurrent, At

LEMMA SweepCollection ==
    ASSUME OneSweepWithAnswers, TypeOK, CollectionInv, NEW s \in Sweepers, Sweep(s)
    PROVE  CollectionInv'
<1> USE DEF CollectionInv
<1>t. TablesInv /\ sweeper \in [Sweepers -> SweeperRec]
  BY DEF TablesInv, TypeOK, SweeperRec
<1>r. ~ At(s, "idle") => ReadsCurrent(s)
  BY DEF SweepReadsCurrent
<1>k. UNCHANGED <<bookVars, referenced, rail>> => RailAgrees' /\ OneCollection'
  BY DEF bookVars, RailAgrees, OneCollection, RowsOf
<1>1. CASE SweepRead(s)
  <2>1. ReadsCurrent(s)'
    BY <1>1, <1>t DEF SweepRead, Become, ReadsCurrent, Busy, RowsIn, RowsOf, bookVars
  <2> QED
    BY <1>1, <1>k, <2>1, OnlySweep DEF SweepRead
<1>2. ASSUME NEW a \in Advances, AttemptDue(s, a) PROVE CollectionInv'
  <2>1. ReadsCurrent(s)'
    BY <1>2, <1>t, <1>r DEF AttemptDue, At, Become, ReadsCurrent, Busy, RowsIn, RowsOf, bookVars
  <2> QED
    BY <1>2, <1>k, <2>1, OnlySweep DEF AttemptDue
<1>3. ASSUME NEW a \in Advances, AttemptSkipped(s, a) PROVE CollectionInv'
  <2>1. ReadsCurrent(s)'
    BY <1>3, <1>t, <1>r DEF AttemptSkipped, At, Become, ReadsCurrent, Busy, RowsIn, RowsOf, bookVars
  <2> QED
    BY <1>3, <1>k, <2>1, OnlySweep DEF AttemptSkipped
<1>4. CASE SweepEnds(s)
  <2>1. At(s, "idle")'
    BY <1>4, <1>t DEF SweepEnds, Become, At, Idle
  <2> QED
    BY <1>4, <1>k, <2>1, OnlySweep DEF SweepEnds
<1>5. CASE InitiateRead(s)
  <2> DEFINE a == sweeper[s].advance
  <2>1. a \in Advances /\ RemainingKobo(a) = Amount[a]
    <3>1. a \in Advances /\ status[a] = "disbursed" /\ Amount[a] \in Nat
      BY <1>5, <1>r, SweeperFields, CollectionConstants DEF InitiateRead, At, ReadsCurrent
    <3>2. recovered[a] = 0
      BY <3>1 DEF OneCollection
    <3> QED
      BY <3>1, <3>2 DEF RemainingKobo
  <2>2. ASSUME Become(s, Rest(s)) PROVE ReadsCurrent(s)'
    BY <1>5, <1>t, <1>r, <2>2
    DEF InitiateRead, At, Become, Rest, ReadsCurrent, Busy, RowsIn, RowsOf, bookVars
  <2>3. ASSUME Become(s, [pc |-> "create", todo |-> sweeper[s].todo, advance |-> a,
                          remaining |-> RemainingKobo(a)])
        PROVE  ReadsCurrent(s)'
    <3>1. /\ sweeper'[s].pc = "create" /\ sweeper'[s].todo = sweeper[s].todo
          /\ sweeper'[s].advance = a /\ sweeper'[s].remaining = Amount[a]
      BY <1>t, <2>1, <2>3 DEF Become
    <3>2. UNCHANGED <<status, collection, referenced, rail>>
      BY <1>5 DEF InitiateRead, bookVars
    <3> HIDE DEF a
    <3>3. /\ a \notin sweeper[s].todo /\ status[a] = "disbursed"
          /\ RowsIn(a, "pending") = {}
          /\ \A b \in sweeper[s].todo :
                status[b] = "disbursed" /\ RowsIn(b, "pending") = {}
      BY <1>5, <1>r DEF InitiateRead, At, ReadsCurrent, a
    <3> QED
      BY <3>1, <3>2, <3>3 DEF ReadsCurrent, Busy, RowsIn, RowsOf
  <2>4. ReadsCurrent(s)'
    BY <1>5, <2>2, <2>3 DEF InitiateRead
  <2> QED
    BY <1>5, <1>k, <2>4, OnlySweep DEF InitiateRead
<1>6. ASSUME NEW r \in Rows, CreateCollection(s, r) PROVE CollectionInv'
  <2> DEFINE a == sweeper[s].advance
  <2>1. /\ a \in Advances /\ a = r[1] /\ status[a] = "disbursed"
        /\ a \notin sweeper[s].todo /\ RowsIn(a, "pending") = {}
        /\ sweeper[s].remaining = Amount[a] /\ sweeper[s].todo \subseteq Advances
    BY <1>6, <1>r, SweeperFields DEF CreateCollection, At, ReadsCurrent
  <2>2. /\ \A q \in Rows : collection'[q] = IF q = r THEN "pending" ELSE collection[q]
        /\ \A q \in Rows : debitAmount'[q] = IF q = r THEN Amount[a] ELSE debitAmount[q]
        /\ UNCHANGED <<status, recovered, referenced, rail>>
        /\ collection[r] = "none" /\ rail[r] = "none" /\ ~ referenced[r]
    BY <1>6, <2>1 DEF CreateCollection, TypeOK, RailAgrees
  <2>3. /\ sweeper'[s].pc = "submit" /\ sweeper'[s].todo = sweeper[s].todo
        /\ sweeper'[s].row = r
    BY <1>6, <1>t DEF CreateCollection, Become
  <2>4. \A b \in sweeper[s].todo : status[b] = "disbursed" /\ RowsIn(b, "pending") = {}
    BY <1>6, <1>r DEF CreateCollection, At, ReadsCurrent
  <2> HIDE DEF a
  <2>5. \A b \in sweeper[s].todo : RowsIn(b, "pending")' = {}
    BY <2>1, <2>2, <2>4 DEF RowsIn, RowsOf
  <2>6. ReadsCurrent(s)'
    BY <2>1, <2>2, <2>3, <2>4, <2>5 DEF ReadsCurrent, Busy
  <2>7. RailAgrees'
    BY <2>1, <2>2 DEF RailAgrees
  <2>8. \A q \in RowsOf(a) : collection[q] \notin {"pending", "successful"}
    BY <2>1 DEF OneCollection, RowsIn, RowsOf
  <2>9. OneCollection'
    BY <2>1, <2>2, <2>8 DEF OneCollection, RowsOf
  <2> QED
    BY <2>6, <2>7, <2>9, OnlySweep
<1>7. CASE CreateRefused(s)
  <2>1. ReadsCurrent(s)'
    BY <1>7, <1>t, <1>r
    DEF CreateRefused, At, Become, Rest, ReadsCurrent, Busy, RowsIn, RowsOf, bookVars
  <2> QED
    BY <1>7, <1>k, <2>1, OnlySweep DEF CreateRefused
<1>8. CASE DebitAccepted(s) \/ DebitRejected(s)
  <2> DEFINE row == sweeper[s].row
  <2>1. /\ row \in Rows /\ sweeper[s].todo \subseteq Advances
        /\ sweeper[s] \in Submitting /\ ReadsCurrent(s) /\ sweeper[s].pc = "submit"
    BY <1>8, <1>r, SweeperFields DEF DebitAccepted, DebitRejected, At
  <2>2. UNCHANGED <<status, recovered, collection, debitAmount, referenced>>
    BY <1>8 DEF DebitAccepted, DebitRejected, bookVars
  <2>3. /\ sweeper'[s].todo = sweeper[s].todo /\ sweeper'[s].row = row
        /\ \/ sweeper'[s].pc = "record"
           \/ sweeper'[s].pc = "fail" /\ rail' = rail
    BY <1>8, <1>t, <2>1
    DEF DebitAccepted, DebitRejected, Goto, Submitting, OneSweepWithAnswers
  <2>4. \A q \in Rows : q # row => rail'[q] = rail[q]
    BY <1>8 DEF DebitAccepted, DebitRejected, TypeOK
  <2>5. collection[row] = "pending"
    BY <2>1 DEF ReadsCurrent, Busy
  <2>6. ReadsCurrent(s)'
    BY <2>1, <2>2, <2>3 DEF ReadsCurrent, Busy, RowsIn, RowsOf
  <2>7. RailAgrees'
    BY <2>1, <2>2, <2>4, <2>5 DEF RailAgrees
  <2>8. OneCollection'
    BY <2>2 DEF OneCollection, RowsOf
  <2> QED
    BY <2>6, <2>7, <2>8, OnlySweep
<1>9. CASE RecordReference(s)
  <2> DEFINE row == sweeper[s].row
  <2>1. row \in Rows /\ ReadsCurrent(s) /\ sweeper[s].pc = "record"
    BY <1>9, <1>r, SweeperFields DEF RecordReference, At
  <2>2. UNCHANGED <<status, recovered, collection, debitAmount, rail>>
    BY <1>9 DEF RecordReference, bookVars
  <2>3. \A q \in Rows : q # row => referenced'[q] = referenced[q]
    BY <1>9 DEF RecordReference, TypeOK
  <2>4. sweeper'[s].pc = "list" /\ sweeper'[s].todo = sweeper[s].todo
    BY <1>9, <1>t DEF RecordReference, Become, Rest
  <2>5. collection[row] = "pending"
    BY <2>1 DEF ReadsCurrent, Busy
  <2>6. ReadsCurrent(s)'
    BY <2>1, <2>2, <2>4 DEF ReadsCurrent, Busy, RowsIn, RowsOf
  <2>7. RailAgrees'
    BY <2>1, <2>2, <2>3, <2>5 DEF RailAgrees
  <2>8. OneCollection'
    BY <2>2 DEF OneCollection, RowsOf
  <2> QED
    BY <2>6, <2>7, <2>8, OnlySweep
<1>10. CASE RecordFailure(s)
  <2> DEFINE row == sweeper[s].row
  <2>1. row \in Rows /\ ReadsCurrent(s) /\ sweeper[s].pc = "fail"
        /\ sweeper[s].todo \subseteq Advances
    BY <1>10, <1>r, SweeperFields DEF RecordFailure, At
  <2>2. rail[row] = "none" /\ row[1] \notin sweeper[s].todo /\ row[1] \in Advances
    BY <2>1 DEF ReadsCurrent, Busy, Rows
  <2>3. TablesInv'
    BY <1>10, <1>t, <2>1, <2>2, FailureTables DEF RecordFailure
  <2>4. sweeper'[s].pc = "list" /\ sweeper'[s].todo = sweeper[s].todo
    BY <1>10, <1>t DEF RecordFailure, Become, Rest
  <2>5. /\ \A q \in Rows : collection'[q] # "pending" \/ collection'[q] = collection[q]
        /\ \A b \in Advances : b # row[1] => status'[b] = status[b]
    BY <1>10, <2>1, <2>2 DEF RecordFailure, ConfirmFailure, TypeOK
  <2>6. ReadsCurrent(s)'
    BY <2>1, <2>2, <2>4, <2>5 DEF ReadsCurrent, Busy, RowsIn, RowsOf
  <2> QED
    BY <2>3, <2>6, OnlySweep DEF TablesInv
<1> QED
  BY <1>1, <1>2, <1>3, <1>4, <1>5, <1>6, <1>7, <1>8, <1>9, <1>10 DEF Sweep

LEMMA NextCollection ==
    ASSUME OneSweepWithAnswers
    PROVE  TypeOK /\ CollectionInv /\ [Next]_vars => CollectionInv'
<1> SUFFICES ASSUME TypeOK, CollectionInv, [Next]_vars PROVE CollectionInv'
  OBVIOUS
<1>k. ASSUME UNCHANGED <<bookVars, referenced, rail>> PROVE RailAgrees' /\ OneCollection'
  BY <1>k DEF CollectionInv, bookVars, RailAgrees, OneCollection, RowsOf
<1>u. ASSUME UNCHANGED <<bookVars, referenced, rail, sweeper>> PROVE CollectionInv'
  BY <1>k, <1>u DEF CollectionInv, SweepReadsCurrent, ReadsCurrent, At, Busy, RowsIn,
                    RowsOf, bookVars
<1>1. CASE Link
  BY <1>1, <1>u DEF Link, CompleteLink, AuthorizeRead, AuthorizeDebit, AuthorizeFails,
                    RevokeDebitMandate, Revoke, ConsentExpires
<1>2. ASSUME NEW s \in Sweepers, Sweep(s) PROVE CollectionInv'
  BY <1>2, SweepCollection
<1>3. ASSUME NEW s \in Sweepers, SweeperCrash(s) PROVE CollectionInv'
  <2>1. At(s, "idle")'
    BY <1>3 DEF SweeperCrash, Become, At, Idle, TypeOK
  <2> QED
    BY <1>3, <1>k, <2>1, OnlySweep DEF SweeperCrash, CollectionInv
<1>4. ASSUME NEW r \in Rows, RailDecides(r) PROVE CollectionInv'
  <2>1. rail[r] = "accepted" /\ \A q \in Rows : q # r => rail'[q] = rail[q]
    BY <1>4 DEF RailDecides, TypeOK
  <2>2. UNCHANGED <<status, recovered, collection, debitAmount, referenced, sweeper>>
    BY <1>4 DEF RailDecides, bookVars
  <2>3. ASSUME NEW s \in Sweepers, ~ At(s, "idle") PROVE ReadsCurrent(s)'
    <3>1. ReadsCurrent(s)
      BY <2>3 DEF CollectionInv, SweepReadsCurrent
    <3>2. Busy(s) => sweeper[s].row \in Rows
      BY SweeperFields DEF Busy
    <3> QED
      BY <2>1, <2>2, <3>1, <3>2 DEF ReadsCurrent, Busy, RowsIn, RowsOf
  <2>4. SweepReadsCurrent'
    BY <2>2, <2>3 DEF SweepReadsCurrent, At
  <2>5. RailAgrees'
    BY <2>1, <2>2 DEF CollectionInv, RailAgrees
  <2>6. OneCollection'
    BY <2>2 DEF CollectionInv, OneCollection, RowsOf
  <2> QED
    BY <2>4, <2>5, <2>6 DEF CollectionInv
<1>5. ASSUME NEW r \in Rows, WebhookSucceeds(r) PROVE CollectionInv'
  <2>1. TablesInv'
    BY <1>5, SuccessTables DEF CollectionInv, TablesInv
  <2>2. SweepReadsCurrent'
    BY <1>5, OutcomeReads DEF WebhookSucceeds, Collected, Found, TypeOK, Rows
  <2> QED
    BY <2>1, <2>2 DEF CollectionInv, TablesInv
<1>6. ASSUME NEW r \in Rows, WebhookFails(r) PROVE CollectionInv'
  <2>1. TablesInv'
    BY <1>6, FailureTables DEF WebhookFails, Bounced, CollectionInv, TablesInv
  <2>2. SweepReadsCurrent'
    BY <1>6, OutcomeReads DEF WebhookFails, ConfirmFailure, Bounced, Found, TypeOK, Rows
  <2> QED
    BY <2>1, <2>2 DEF CollectionInv, TablesInv
<1>7. CASE UNCHANGED vars
  BY <1>7, <1>u DEF vars, bookVars
<1> QED
  BY <1>1, <1>2, <1>3, <1>4, <1>5, <1>6, <1>7 DEF Next

\* An accepted or landed debit belongs to a collection in flight or successful,
\* and there is one of those.
LEMMA CollectionImpliesOnce == CollectionInv /\ TypeOK => DebitedAtMostOnce
<1> SUFFICES ASSUME CollectionInv, TypeOK, NEW a \in Advances,
                    NEW r \in RowsOf(a), NEW q \in RowsOf(a),
                    rail[r] \in {"accepted", "landed"}, rail[q] \in {"accepted", "landed"}
             PROVE  r = q
  BY DEF DebitedAtMostOnce
<1>1. \A p \in RowsOf(a) : rail[p] \in {"accepted", "landed"} =>
         collection[p] \in {"pending", "successful"}
  BY DEF CollectionInv, RailAgrees, RowsOf, TypeOK
<1> QED
  BY <1>1 DEF CollectionInv, OneCollection

\* With one sweep at a time and every answer received, the tables, the sweep
\* and the rail agree in every reachable state.
THEOREM CollectionsAgree == OneSweepWithAnswers => (Spec => []CollectionInv)
<1> SUFFICES ASSUME OneSweepWithAnswers PROVE Spec => []CollectionInv
  OBVIOUS
<1>1. TypeOK /\ CollectionInv /\ [Next]_vars => CollectionInv'
  BY NextCollection
<1>2. Spec => []TypeOK
  BY TypeCorrect
<1> QED
  BY <1>1, <1>2, InitCollection, PTL DEF Spec

\* Then no worker is debited twice for an advance.
THEOREM DebitedOnce == OneSweepWithAnswers => (Spec => []DebitedAtMostOnce)
<1> SUFFICES ASSUME OneSweepWithAnswers PROVE Spec => []DebitedAtMostOnce
  OBVIOUS
<1>1. Spec => []CollectionInv
  BY CollectionsAgree
<1>2. Spec => []TypeOK
  BY TypeCorrect
<1> QED
  BY <1>1, <1>2, CollectionImpliesOnce, PTL


-----------------------------------------------------------------------------
(* The other two flows: what holds of a batch and of a pool by their own    *)
(* proofs holds of them here.                                               *)

BatchProofs == INSTANCE PayrollBatch_proofs WITH
    Overlap <- {}, Tasks <- BatchTasks,
    status <- batchStatus, task <- batchTask, bank <- itemBank

PoolProofs == INSTANCE WageAdvance_proofs WITH
    Tasks <- PayoutTasks,
    status <- advanceStatus, recovered <- deducted, receivable <- owed, task <- payout,
    bank <- advanceBank

\* Both instances of PayrollBatch, the composition's and the proofs', say the same.
LEMMA SameBatch ==
    /\ Batch!Init => BatchProofs!Init
    /\ Batch!Next = BatchProofs!Next
    /\ Batch!SentAtMostOnce = BatchProofs!SentAtMostOnce
    /\ Batch!CompletedBatchPaidEveryone = BatchProofs!CompletedBatchPaidEveryone
<1>1. Batch!Init => BatchProofs!Init
  BY
     DEF Batch!Init, BatchProofs!Init, Batch!TaskIdle, BatchProofs!TaskIdle,
         Batch!HandlerIdle, BatchProofs!HandlerIdle, Batch!Refs, BatchProofs!Refs
<1>2. Batch!Next = BatchProofs!Next
  BY Zenon
     DEF Batch!Next, BatchProofs!Next, Batch!EnqueueTask, BatchProofs!EnqueueTask,
         Batch!Worker, BatchProofs!Worker, Batch!WorkerCrash, BatchProofs!WorkerCrash,
         Batch!Refs, BatchProofs!Refs, Batch!HandlePayrollItemWebhook,
         BatchProofs!HandlePayrollItemWebhook, Batch!WebhookSettles,
         BatchProofs!WebhookSettles, Batch!WebhookFails, BatchProofs!WebhookFails,
         Batch!ResolveItem, BatchProofs!ResolveItem, Batch!RetryCheck,
         BatchProofs!RetryCheck, Batch!RetryApply, BatchProofs!RetryApply,
         Batch!RetryEnds, BatchProofs!RetryEnds, Batch!BankDecides,
         BatchProofs!BankDecides, Batch!BecomesOverdue, BatchProofs!BecomesOverdue,
         Batch!EmployeeLeaves, BatchProofs!EmployeeLeaves, Batch!batchVars,
         BatchProofs!batchVars, Batch!LoadBatch, BatchProofs!LoadBatch,
         Batch!ClaimBatch, BatchProofs!ClaimBatch, Batch!ClaimStale,
         BatchProofs!ClaimStale, Batch!ClaimRollback, BatchProofs!ClaimRollback,
         Batch!FinalizePayroll, BatchProofs!FinalizePayroll, Batch!BulkTransferTaken,
         BatchProofs!BulkTransferTaken, Batch!BulkTransferLost,
         BatchProofs!BulkTransferLost, Batch!BulkTransferRejected,
         BatchProofs!BulkTransferRejected, Batch!FailBatchBeforeSend,
         BatchProofs!FailBatchBeforeSend, Batch!Redeliver, BatchProofs!Redeliver,
         Batch!MaySettle, BatchProofs!MaySettle, Batch!CallbackApplies,
         BatchProofs!CallbackApplies, Batch!CanTransition, BatchProofs!CanTransition,
         Batch!EventStatus, BatchProofs!EventStatus, Batch!SettlePayrollItem,
         BatchProofs!SettlePayrollItem, Batch!HandlerIdle, BatchProofs!HandlerIdle,
         Batch!Resolvable, BatchProofs!Resolvable, Batch!Attests, BatchProofs!Attests,
         Batch!MayRetry, BatchProofs!MayRetry, Batch!Retryable, BatchProofs!Retryable,
         Batch!ItemsIn, BatchProofs!ItemsIn, Batch!LinesOf, BatchProofs!LinesOf,
         Batch!ItemReference, BatchProofs!ItemReference, Batch!Claimable,
         BatchProofs!Claimable, Batch!EndTask, BatchProofs!EndTask, Batch!BatchVerdict,
         BatchProofs!BatchVerdict, Batch!TaskIdle, BatchProofs!TaskIdle, Batch!Serving,
         BatchProofs!Serving, Batch!validTransitions, BatchProofs!validTransitions,
         Batch!Live, BatchProofs!Live, Batch!Cardinality, BatchProofs!Cardinality
<1>3. Batch!SentAtMostOnce = BatchProofs!SentAtMostOnce
  BY
     DEF Batch!SentAtMostOnce, BatchProofs!SentAtMostOnce, Batch!Refs, BatchProofs!Refs
<1>4. Batch!CompletedBatchPaidEveryone = BatchProofs!CompletedBatchPaidEveryone
  BY
     DEF Batch!CompletedBatchPaidEveryone, BatchProofs!CompletedBatchPaidEveryone
<1> QED
  BY <1>1, <1>2, <1>3, <1>4

\* And both of WageAdvance.
LEMMA SamePool ==
    /\ Pool!Init => PoolProofs!Init
    /\ Pool!Next = PoolProofs!Next
    /\ Pool!PoolCovered = PoolProofs!PoolCovered
<1>1. Pool!Init => PoolProofs!Init
  BY
     DEF Pool!Init, PoolProofs!Init, Pool!AdvanceIds, PoolProofs!AdvanceIds, Pool!Idle,
         PoolProofs!Idle, Pool!Cardinality, PoolProofs!Cardinality, Pool!MapThenSumSet,
         PoolProofs!MapThenSumSet, Pool!MapThenFoldSet, PoolProofs!MapThenFoldSet
<1>2. Pool!Next = PoolProofs!Next
  BY Zenon
     DEF Pool!Next, PoolProofs!Next, Pool!AdvanceIds, PoolProofs!AdvanceIds,
         Pool!RequestRead, PoolProofs!RequestRead, Pool!RequestDecide,
         PoolProofs!RequestDecide, Pool!RequestReplay, PoolProofs!RequestReplay,
         Pool!DisbursementTask, PoolProofs!DisbursementTask, Pool!BankDecides,
         PoolProofs!BankDecides, Pool!WebhookConfirms, PoolProofs!WebhookConfirms,
         Pool!WebhookFails, PoolProofs!WebhookFails, Pool!FundingWebhook,
         PoolProofs!FundingWebhook, Pool!Periods, PoolProofs!Periods, Pool!PayrollRead,
         PoolProofs!PayrollRead, Pool!SettleAdvances, PoolProofs!SettleAdvances,
         Pool!TerminateRead, PoolProofs!TerminateRead, Pool!TerminateApply,
         PoolProofs!TerminateApply, Pool!NextMonth, PoolProofs!NextMonth, Pool!Locked,
         PoolProofs!Locked, Pool!Idle, PoolProofs!Idle, Pool!Eligible,
         PoolProofs!Eligible, Pool!advanceVars, PoolProofs!advanceVars, Pool!Enqueue,
         PoolProofs!Enqueue, Pool!LoadAdvance, PoolProofs!LoadAdvance,
         Pool!TransferAccepted, PoolProofs!TransferAccepted, Pool!TransferUnavailable,
         PoolProofs!TransferUnavailable, Pool!TransferRejected,
         PoolProofs!TransferRejected, Pool!RecordSubmission,
         PoolProofs!RecordSubmission, Pool!CancelRejected, PoolProofs!CancelRejected,
         Pool!TaskCrash, PoolProofs!TaskCrash, Pool!Confirmable, PoolProofs!Confirmable,
         Pool!Resolve, PoolProofs!Resolve, Pool!Still, PoolProofs!Still, Pool!Portion,
         PoolProofs!Portion, Pool!Of, PoolProofs!Of, Pool!DrawsThisPeriod,
         PoolProofs!DrawsThisPeriod, Pool!OutstandingOf, PoolProofs!OutstandingOf,
         Pool!FundingExposure, PoolProofs!FundingExposure, Pool!At, PoolProofs!At,
         Pool!Goto, PoolProofs!Goto, Pool!TaskEnds, PoolProofs!TaskEnds, Pool!Taken,
         PoolProofs!Taken, Pool!OlderOwed, PoolProofs!OlderOwed, Pool!RemainingKobo,
         PoolProofs!RemainingKobo, Pool!IsOutstanding, PoolProofs!IsOutstanding,
         Pool!Cardinality, PoolProofs!Cardinality, Pool!MapThenSumSet,
         PoolProofs!MapThenSumSet, Pool!MapThenFoldSet, PoolProofs!MapThenFoldSet
<1>3. Pool!PoolCovered = PoolProofs!PoolCovered
  BY
     DEF Pool!PoolCovered, PoolProofs!PoolCovered, Pool!FundingExposure,
         PoolProofs!FundingExposure, Pool!AdvanceIds, PoolProofs!AdvanceIds,
         Pool!Cardinality, PoolProofs!Cardinality, Pool!MapThenSumSet,
         PoolProofs!MapThenSumSet, Pool!MapThenFoldSet, PoolProofs!MapThenFoldSet
<1> QED
  BY <1>1, <1>2, <1>3

\* What the composition does to the batch is a step of PayrollBatch, or leaves it alone.
LEMMA BatchIsAPart == FlowSpec => BatchProofs!Spec
<1>1. FlowInit => BatchProofs!Init
  BY SameBatch DEF FlowInit
<1>2. [FlowNext]_flowVars => [BatchProofs!Next]_(BatchProofs!vars)
  BY SameBatch DEF FlowNext, flowVars, batchVars, BatchProofs!vars
<1> QED
  BY <1>1, <1>2, PTL DEF FlowSpec, BatchProofs!Spec

\* And what it does to the pool is a step of WageAdvance.
LEMMA PoolIsAPart == FlowSpec => PoolProofs!Spec
<1>1. FlowInit => PoolProofs!Init
  BY SamePool DEF FlowInit
<1>2. [FlowNext]_flowVars => [PoolProofs!Next]_(PoolProofs!vars)
  BY SamePool DEF FlowNext, flowVars, poolVars, PoolProofs!vars
<1> QED
  BY <1>1, <1>2, PTL DEF FlowSpec, PoolProofs!Spec

\* An instance of a module comes with its own copies of the standard modules.
LEMMA SameFinite ==
    ASSUME NEW S
    PROVE  /\ BatchProofs!IsFiniteSet(S) <=> IsFiniteSet(S)
           /\ PoolProofs!IsFiniteSet(S) <=> IsFiniteSet(S)
  BY DEF IsFiniteSet, BatchProofs!IsFiniteSet, PoolProofs!IsFiniteSet

\* ErrOutcomeUnknown, a task delivered again although its list was taken, and a retry: where
\* callbacks are served one at a time and a retry waits for the task, no reference is sent
\* twice, for any batch and any number of deliveries.
THEOREM FlowsSendOnce == FlowSpec => []SentAtMostOnce
<1>1. BatchProofs!Spec => []BatchProofs!SentAtMostOnce
  BY MoneyFlowsConstants, SameFinite, BatchProofs!NeverResent
<1>2. BatchProofs!SentAtMostOnce => SentAtMostOnce
  BY SameBatch DEF SentAtMostOnce
<1> QED
  BY <1>1, <1>2, BatchIsAPart, PTL

\* finalizePayroll and reconcilePayrollStatus: under the same conditions a batch recorded as
\* completed has paid every line that had something to pay, for any batch.
THEOREM FlowsPayEveryone == FlowSpec => []CompletedBatchPaidEveryone
<1>1. BatchProofs!Spec => []BatchProofs!CompletedBatchPaidEveryone
  BY MoneyFlowsConstants, SameFinite, BatchProofs!CompletedPaidEveryone
<1>2. BatchProofs!CompletedBatchPaidEveryone => CompletedBatchPaidEveryone
  BY SameBatch DEF CompletedBatchPaidEveryone
<1> QED
  BY <1>1, <1>2, BatchIsAPart, PTL

\* eligibilityTx under the organization's lock: with funding coverage on, what any number of
\* workers have drawn never exceeds what their employer has deposited.
THEOREM FlowsStayCovered == FlowSpec => []PoolCovered
<1>1. PoolProofs!AdvanceIds = 1 .. MaxAdvance
  BY DEF PoolProofs!AdvanceIds
<1>2. PoolProofs!Spec => []PoolProofs!PoolCovered
  BY MoneyFlowsConstants, SameFinite, <1>1, PoolProofs!PoolAlwaysCovered
<1>3. PoolProofs!PoolCovered => PoolCovered
  BY SamePool DEF PoolCovered
<1> QED
  BY <1>2, <1>3, PoolIsAPart, PTL
=============================================================================
