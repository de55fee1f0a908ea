--------------------------- MODULE D2CCollection ---------------------------
(***************************************************************************)
(* Direct-to-consumer repayment: a worker with no employer links a bank    *)
(* account and authorizes debits on it; a daily sweep debits each          *)
(* disbursed advance on the predicted payday; the rail's callback settles  *)
(* the advance or counts a failed attempt, and too many failed attempts    *)
(* write it off.                                                           *)
(*                                                                         *)
(* One action is one transaction or one call to the rail, except that the  *)
(* transaction that creates a collection is two: what it reads, and the    *)
(* insert, which another transaction may precede (READ COMMITTED).         *)
(***************************************************************************)
EXTENDS Integers, FiniteSets

CONSTANTS
    Advances,     \* the worker's disbursed advances
    Amount,       \* ewa_advances.amount_kobo of each
    MaxAttempts,  \* maxD2CCollectionAttempts
    MaxRows,      \* bound: collections created per advance
    MaxLinks,     \* bound: bank accounts linked one after the other
    Sweepers,     \* sweep processes running at the same time
    LostAnswers   \* may the rail take a debit and its answer not arrive?

ASSUME CollectionConstants ==
    /\ IsFiniteSet(Advances)
    /\ Amount \in [Advances -> Nat \ {0}]
    /\ MaxAttempts \in Nat \ {0}
    /\ MaxRows \in Nat
    /\ MaxLinks \in Nat
    /\ LostAnswers \in BOOLEAN

VARIABLES
    status,        \* ewa_advances.status
    recovered,     \* ewa_advances.recovered_kobo
    receivable,    \* the advance's entries in advance_receivable, debits less credits
    collection,    \* d2c_debit_collections.status; "none" before the insert
    debitAmount,   \* d2c_debit_collections.amount_kobo
    referenced,    \* d2c_debit_collections.provider_reference is set
    links,         \* d2c_bank_links created so far; the last is the current one
    linked,        \* its status is linked
    mandate,       \* its debit_mandate_ref is set
    readConsent,   \* HasActiveConsent for reading the account
    debitConsent,  \* HasActiveConsent for debiting it
    authorizing,   \* the link an AuthorizeDebit request has read, 0 for none
    withdrawn,     \* history: the worker revoked, and has not asked to authorize since
    sweeper,       \* each sweep process
    rail           \* external: what the debit provider made of each collection

bookVars == <<status, recovered, receivable, collection, debitAmount>>
linkVars == <<links, linked, mandate, readConsent, debitConsent, authorizing,
              withdrawn>>
vars == <<status, recovered, receivable, collection, debitAmount, referenced,
          links, linked, mandate, readConsent, debitConsent, authorizing,
          withdrawn, sweeper, rail>>

\* A collection is named by its advance and the order of its insert.
Rows == Advances \X (1 .. MaxRows)
RowsOf(a) == {r \in Rows : r[1] = a}
RowsIn(a, s) == {r \in RowsOf(a) : collection[r] = s}

Idle == [pc |-> "idle"]
Listing == [pc : {"list"}, todo : SUBSET Advances]
Reading == [pc : {"initiate"}, todo : SUBSET Advances, advance : Advances]
Creating ==
    [pc : {"create"}, todo : SUBSET Advances, advance : Advances, remaining : Nat]
Submitting ==
    [pc : {"submit", "record", "fail"}, todo : SUBSET Advances, row : Rows]

TypeOK ==
    /\ status \in [Advances -> {"disbursed", "settled", "written_off"}]
    /\ recovered \in [Advances -> Nat]
    /\ receivable \in [Advances -> Int]
    /\ collection \in [Rows -> {"none", "pending", "successful", "failed"}]
    /\ debitAmount \in [Rows -> Nat]
    /\ referenced \in [Rows -> BOOLEAN]
    /\ links \in 0 .. MaxLinks
    /\ linked \in BOOLEAN
    /\ mandate \in BOOLEAN
    /\ readConsent \in BOOLEAN
    /\ debitConsent \in BOOLEAN
    /\ authorizing \in 0 .. MaxLinks
    /\ withdrawn \in BOOLEAN
    /\ sweeper \in [Sweepers ->
                      {Idle} \cup Listing \cup Reading \cup Creating \cup Submitting]
    /\ rail \in [Rows -> {"none", "accepted", "landed", "bounced"}]

\* ConfirmDisbursed has run: the worker has the money and owes it.
Init ==
    /\ status = [a \in Advances |-> "disbursed"]
    /\ recovered = [a \in Advances |-> 0]
    /\ receivable = Amount
    /\ collection = [r \in Rows |-> "none"]
    /\ debitAmount = [r \in Rows |-> 0]
    /\ referenced = [r \in Rows |-> FALSE]
    /\ links = 0
    /\ linked = FALSE /\ mandate = FALSE
    /\ readConsent = FALSE /\ debitConsent = FALSE
    /\ authorizing = 0
    /\ withdrawn = FALSE
    /\ sweeper = [s \in Sweepers |-> Idle]
    /\ rail = [r \in Rows |-> "none"]

RemainingKobo(a) == IF recovered[a] > Amount[a] THEN 0 ELSE Amount[a] - recovered[a]

-----------------------------------------------------------------------------
(* The bank link and its two consents (d2c_bank_link_handler.go).  The     *)
(* latest consent record decides; records are taken in commit order.       *)

\* A new link has no mandate.  The unique index allows one linked account.
CompleteLink ==
    /\ ~ linked
    /\ links < MaxLinks
    /\ links' = links + 1
    /\ linked' = TRUE
    /\ mandate' = FALSE
    /\ readConsent' = TRUE
    /\ UNCHANGED <<debitConsent, authorizing, withdrawn, bookVars, referenced,
                   sweeper, rail>>

\* AuthorizeDebit finds the link, then asks the provider for a mandate.
AuthorizeRead ==
    /\ linked
    /\ authorizing = 0
    /\ authorizing' = links
    /\ withdrawn' = FALSE
    /\ UNCHANGED <<links, linked, mandate, readConsent, debitConsent, bookVars,
                   referenced, sweeper, rail>>

\* Mutant: the mandate goes to whichever link the worker has now.
MutAuthorize ==
    /\ authorizing # 0
    /\ mandate' = TRUE
    /\ debitConsent' = TRUE
    /\ authorizing' = 0
    /\ UNCHANGED <<links, linked, readConsent, withdrawn, bookVars, referenced,
                   sweeper, rail>>

\* The mandate is written to the link that was read, whatever its status now,
\* with the consent.  A provider error ends the request.
AuthorizeDebit ==
    /\ authorizing # 0
    /\ mandate' = (mandate \/ authorizing = links)
    /\ debitConsent' = TRUE
    /\ authorizing' = 0
    /\ UNCHANGED <<links, linked, readConsent, withdrawn, bookVars, referenced,
                   sweeper, rail>>

AuthorizeFails ==
    /\ authorizing # 0
    /\ authorizing' = 0
    /\ UNCHANGED <<links, linked, mandate, readConsent, debitConsent, withdrawn,
                   bookVars, referenced, sweeper, rail>>

\* Withdraws the mandate, if there is one, and leaves the link.
RevokeDebitMandate ==
    /\ linked
    /\ mandate
    /\ mandate' = FALSE
    /\ debitConsent' = FALSE
    /\ UNCHANGED <<links, linked, readConsent, authorizing, withdrawn, bookVars,
                   referenced, sweeper, rail>>

\* Withdraws the link; the row keeps its mandate, which no query finds again.
Revoke ==
    /\ linked
    /\ linked' = FALSE
    /\ readConsent' = FALSE
    /\ debitConsent' = (debitConsent /\ ~ mandate)
    /\ withdrawn' = TRUE
    /\ UNCHANGED <<links, mandate, authorizing, bookVars, referenced, sweeper, rail>>

\* A consent lapses after a year.
ConsentExpires ==
    /\ \/ readConsent /\ readConsent' = FALSE /\ debitConsent' = debitConsent
       \/ debitConsent /\ debitConsent' = FALSE /\ readConsent' = readConsent
    /\ UNCHANGED <<links, linked, mandate, authorizing, withdrawn, bookVars,
                   referenced, sweeper, rail>>

-----------------------------------------------------------------------------
(* SweepD2CCollections and InitiateD2CCollection.                          *)

At(s, pc) == sweeper[s].pc = pc
Become(s, rec) == sweeper' = [sweeper EXCEPT ![s] = rec]
Rest(s) == [pc |-> "list", todo |-> sweeper[s].todo]

\* The advances that are disbursed and have no attempt in flight.
SweepRead(s) ==
    /\ At(s, "idle")
    /\ Become(s, [pc |-> "list",
                  todo |-> {a \in Advances : /\ status[a] = "disbursed"
                                             /\ RowsIn(a, "pending") = {}}])
    /\ UNCHANGED <<bookVars, referenced, linkVars, rail>>

\* The prediction needs a linked account the sweep may read, and a mandate to
\* be worth making.  The payday has arrived.
AttemptDue(s, a) ==
    /\ At(s, "list")
    /\ a \in sweeper[s].todo
    /\ linked /\ readConsent /\ mandate
    /\ Become(s, [pc |-> "initiate", todo |-> sweeper[s].todo \ {a}, advance |-> a])
    /\ UNCHANGED <<bookVars, referenced, linkVars, rail>>

\* No link, no consent, no mandate, no history, no prediction, or not yet.
AttemptSkipped(s, a) ==
    /\ At(s, "list")
    /\ a \in sweeper[s].todo
    /\ Become(s, [pc |-> "list", todo |-> sweeper[s].todo \ {a}])
    /\ UNCHANGED <<bookVars, referenced, linkVars, rail>>

SweepEnds(s) ==
    /\ At(s, "list")
    /\ sweeper[s].todo = {}
    /\ Become(s, Idle)
    /\ UNCHANGED <<bookVars, referenced, linkVars, rail>>

Collectible(a) ==
    /\ status[a] = "disbursed"
    /\ RemainingKobo(a) > 0
    /\ linked /\ mandate /\ debitConsent

\* The checks of the creating transaction, and what it will debit.
InitiateRead(s) ==
    LET a == sweeper[s].advance IN
    /\ At(s, "initiate")
    /\ \/ /\ Collectible(a)
          /\ Become(s, [pc |-> "create", todo |-> sweeper[s].todo, advance |-> a,
                        remaining |-> RemainingKobo(a)])
       \/ ~ Collectible(a) /\ Become(s, Rest(s))
    /\ UNCHANGED <<bookVars, referenced, linkVars, rail>>

\* The partial unique index: one pending collection per advance.
MayInsert(a) == RowsIn(a, "pending") = {}

\* The insert, and its refusal by the index.
CreateCollection(s, r) ==
    LET a == sweeper[s].advance IN
    /\ At(s, "create")
    /\ r[1] = a
    /\ collection[r] = "none"
    /\ \A q \in RowsOf(a) : q[2] < r[2] => collection[q] # "none"
    /\ MayInsert(a)
    /\ collection' = [collection EXCEPT ![r] = "pending"]
    /\ debitAmount' = [debitAmount EXCEPT ![r] = sweeper[s].remaining]
    /\ Become(s, [pc |-> "submit", todo |-> sweeper[s].todo, row |-> r])
    /\ UNCHANGED <<status, recovered, receivable, referenced, linkVars, rail>>

CreateRefused(s) ==
    /\ At(s, "create")
    /\ ~ MayInsert(sweeper[s].advance)
    /\ Become(s, Rest(s))
    /\ UNCHANGED <<bookVars, referenced, linkVars, rail>>

Goto(s, pc) == sweeper' = [sweeper EXCEPT ![s].pc = pc]

\* InitiateDebit, outside any transaction.
DebitAccepted(s) ==
    /\ At(s, "submit")
    /\ rail' = [rail EXCEPT ![sweeper[s].row] = "accepted"]
    /\ Goto(s, "record")
    /\ UNCHANGED <<bookVars, referenced, linkVars>>

\* A refusal, or ErrDebitUnavailable, which does not say whether the debit
\* went through.
DebitRejected(s) ==
    /\ At(s, "submit")
    /\ \/ rail' = rail
       \/ LostAnswers /\ rail' = [rail EXCEPT ![sweeper[s].row] = "accepted"]
    /\ Goto(s, "fail")
    /\ UNCHANGED <<bookVars, referenced, linkVars>>

\* The reference is recorded, or recording it fails.
RecordReference(s) ==
    /\ At(s, "record")
    /\ \E done \in BOOLEAN :
          referenced' = [referenced EXCEPT ![sweeper[s].row] = done]
    /\ Become(s, Rest(s))
    /\ UNCHANGED <<bookVars, linkVars, rail>>

\* This failure, with the earlier ones, uses up the attempts.
Exhausted(r) == Cardinality(RowsIn(r[1], "failed") \cup {r}) >= MaxAttempts

\* An open advance is written off with its last attempt.
Lost(r) == status[r[1]] = "disbursed" /\ Exhausted(r)

\* Mutant: the collection stays pending.
MutStaysPending(r) ==
    /\ collection[r] = "pending"
    /\ UNCHANGED <<status, recovered, receivable, collection, debitAmount>>

\* ConfirmD2CCollectionFailure on a collection that is still pending; the
\* write-off credits the receivable with the whole amount.
ConfirmFailure(r) ==
    LET a == r[1] IN
    /\ collection[r] = "pending"
    /\ collection' = [collection EXCEPT ![r] = "failed"]
    /\ status' = [status EXCEPT ![a] = IF Lost(r) THEN "written_off" ELSE @]
    /\ receivable' = [receivable EXCEPT ![a] = IF Lost(r) THEN @ - Amount[a] ELSE @]
    /\ UNCHANGED <<recovered, debitAmount>>

\* The failure of the submission; if recording it fails too the row stays.
RecordFailure(s) ==
    /\ At(s, "fail")
    /\ ConfirmFailure(sweeper[s].row)
    /\ Become(s, Rest(s))
    /\ UNCHANGED <<referenced, linkVars, rail>>

\* The sweep process dies, or a transaction of it fails.
SweeperCrash(s) ==
    /\ ~ At(s, "idle")
    /\ Become(s, Idle)
    /\ UNCHANGED <<bookVars, referenced, linkVars, rail>>

-----------------------------------------------------------------------------
(* The rail and its callbacks (d2c_webhook_handler.go, d2c_ledger.go).      *)

RailDecides(r) ==
    /\ rail[r] = "accepted"
    /\ \E o \in {"landed", "bounced"} : rail' = [rail EXCEPT ![r] = o]
    /\ UNCHANGED <<bookVars, referenced, linkVars, sweeper>>

\* A collection is found by its provider reference only: before it is recorded
\* the answer is 404.  A resolved one is answered 200 and left alone.
Found(r) == referenced[r] /\ collection[r] = "pending"

\* Mutant: a debit the rail has accepted counts as collected.
MutCollected(r) == Found(r) /\ rail[r] \in {"accepted", "landed"}

Collected(r) == Found(r) /\ rail[r] = "landed"

\* Mutant: any notification but success counts as a failure.
MutBounced(r) == Found(r) /\ rail[r] \in {"accepted", "bounced"}

Bounced(r) == Found(r) /\ rail[r] = "bounced"

\* Mutant: no bound on recovered_kobo.
MutWithinBounds(a, total) == TRUE

\* The CHECK on ewa_advances.recovered_kobo.
WithinBounds(a, total) == total <= Amount[a]

\* ConfirmD2CCollectionSuccess: the receivable is credited and the advance
\* settled if nothing is left.  A total out of bounds makes the transaction
\* fail, and the collection stay pending.
WebhookSucceeds(r) ==
    LET a == r[1]
        total == recovered[a] + debitAmount[r]
    IN
    /\ Collected(r)
    /\ WithinBounds(a, total)
    /\ collection' = [collection EXCEPT ![r] = "successful"]
    /\ recovered' = [recovered EXCEPT ![a] = total]
    /\ receivable' = [receivable EXCEPT ![a] = @ - debitAmount[r]]
    /\ status' = [status EXCEPT ![a] = IF @ = "disbursed" /\ total >= Amount[a]
                                       THEN "settled" ELSE @]
    /\ UNCHANGED <<debitAmount, referenced, linkVars, sweeper, rail>>

WebhookFails(r) ==
    /\ Bounced(r)
    /\ ConfirmFailure(r)
    /\ UNCHANGED <<referenced, linkVars, sweeper, rail>>

-----------------------------------------------------------------------------

Link ==
    \/ CompleteLink
    \/ AuthorizeRead
    \/ AuthorizeDebit
    \/ AuthorizeFails
    \/ RevokeDebitMandate
    \/ Revoke
    \/ ConsentExpires

Sweep(s) ==
    \/ SweepRead(s)
    \/ \E a \in Advances : AttemptDue(s, a) \/ AttemptSkipped(s, a)
    \/ SweepEnds(s)
    \/ InitiateRead(s)
    \/ \E r \in Rows : CreateCollection(s, r)
    \/ CreateRefused(s)
    \/ DebitAccepted(s)
    \/ DebitRejected(s)
    \/ RecordReference(s)
    \/ RecordFailure(s)

Next ==
    \/ Link
    \/ \E s \in Sweepers : Sweep(s)
    \/ \E s \in Sweepers : SweeperCrash(s)
    \/ \E r \in Rows : RailDecides(r)
    \/ \E r \in Rows : WebhookSucceeds(r)
    \/ \E r \in Rows : WebhookFails(r)

Spec == Init /\ [][Next]_vars

\* The sweep runs every day and gets as far as it can, and is not stopped at the same
\* point every time; the rail decides, and repeats a callback until it is answered 200.
\* That a payday falls due is up to the worker's employer: nothing is assumed of it.
SweepFairness(s, a) ==
    /\ SF_vars(At(s, "initiate") /\ sweeper[s].advance = a /\ InitiateRead(s))
    /\ SF_vars(\E r \in RowsOf(a) : CreateCollection(s, r))

RailFairness ==
    /\ WF_vars(\E r \in Rows : RailDecides(r))
    /\ WF_vars(\E r \in Rows : WebhookSucceeds(r) \/ WebhookFails(r))

Fairness ==
    /\ \A s \in Sweepers : WF_vars(Sweep(s)) /\ \A a \in Advances : SweepFairness(s, a)
    /\ RailFairness

FairSpec == Spec /\ Fairness

-----------------------------------------------------------------------------
(* What makes it correct.                                                  *)

\* A worker is debited at most once for an advance, and no second debit is out
\* while the rail may still carry out a first, although sweeps crash anywhere
\* and callbacks are late (InitiateD2CCollection, the partial unique index).
DebitedAtMostOnce ==
    \A a \in Advances : \A r, q \in RowsOf(a) :
        rail[r] \in {"accepted", "landed"} /\ rail[q] \in {"accepted", "landed"}
            => r = q

\* What is booked as recovered was really debited: an accepted debit is no
\* money yet (ConfirmD2CCollectionSuccess).
RecoveredMeansLanded ==
    \A a \in Advances : recovered[a] > 0 =>
        \E r \in RowsOf(a) : collection[r] = "successful" /\ rail[r] = "landed"

\* No more is recovered than was advanced; the receivable is what is left of
\* the advance, less all of it once it is written off; an advance is settled
\* when all of it is recovered and not before, although sweeps overlap and the
\* rail's answers are lost (ConfirmD2CCollectionSuccess, WriteOffAdvance).
DebitBooksMatch ==
    \A a \in Advances :
        /\ recovered[a] <= Amount[a]
        /\ receivable[a] = Amount[a] - recovered[a]
                              - (IF status[a] = "written_off" THEN Amount[a] ELSE 0)
        /\ status[a] = "settled" => recovered[a] = Amount[a]
        /\ status[a] = "disbursed" => recovered[a] < Amount[a]

\* An advance still open has attempts left: the failure that uses up the last
\* one writes the advance off (ConfirmD2CCollectionFailure).
OpenHasAttemptsLeft ==
    \A a \in Advances : status[a] = "disbursed" =>
        Cardinality(RowsIn(a, "failed")) < MaxAttempts

\* Once the worker has revoked the link no account of theirs can be debited
\* until they authorize debits again, although an authorization may have been
\* under way and another account linked since (Revoke, AuthorizeDebit,
\* CompleteLink).
MandateIsAuthorized == linked /\ mandate => ~ withdrawn

\* A collection recorded as failed did not land (ConfirmD2CCollectionFailure).
FailedDidNotLand == \A r \in Rows : collection[r] = "failed" => rail[r] # "landed"

\* A resolved collection, a settled advance and a written-off one stay as they
\* are, whatever is delivered again.
ResolvedIsFinal ==
    [][/\ \A r \in Rows : collection[r] \in {"successful", "failed"}
                              => collection'[r] = collection[r]
       /\ \A a \in Advances : status[a] # "disbursed" => status'[a] = status[a]]_vars

\* A pending collection without a reference that no sweep is working on: no
\* callback can find it.
Orphaned(a) ==
    \E r \in RowsIn(a, "pending") :
        /\ ~ referenced[r]
        /\ \A s \in Sweepers : sweeper[s].pc \in {"submit", "record", "fail"}
                                  => sweeper[s].row # r

MayDebit == linked /\ mandate /\ readConsent /\ debitConsent

\* A debit under way for an open advance ends, and nobody is chased for ever: an
\* advance whose payday falls due again and again, while the worker's authorization
\* stands, is settled or runs out of attempts and is written off, unless a crash has
\* orphaned a collection of it (attemptD2CCollectionForAdvance, ConfirmD2CCollection*).
AdvanceIsResolved ==
    \A a \in Advances :
        /\ status[a] = "disbursed" /\ RowsIn(a, "pending") # {} ~>
              status[a] # "disbursed" \/ RowsIn(a, "pending") = {} \/ Orphaned(a)
        /\ []<><<\E s \in Sweepers : AttemptDue(s, a)>>_vars =>
              []<>(status[a] # "disbursed" \/ ~ MayDebit \/ Orphaned(a))

-----------------------------------------------------------------------------
(* Why a worker is debited once when one sweep runs at a time and the rail *)
(* answers: an invariant that is inductive with TypeOK.                    *)

Busy(s) == sweeper[s].pc \in {"submit", "record", "fail"}

\* The advances a sweep has yet to try are as it read them: open, with nothing
\* in flight.
ReadsCurrent(s) ==
    /\ \A a \in sweeper[s].todo :
          status[a] = "disbursed" /\ RowsIn(a, "pending") = {}
    /\ sweeper[s].pc \in {"initiate", "create"} =>
          /\ sweeper[s].advance \notin sweeper[s].todo
          /\ status[sweeper[s].advance] = "disbursed"
          /\ RowsIn(sweeper[s].advance, "pending") = {}
    /\ sweeper[s].pc = "create" =>
          sweeper[s].remaining = Amount[sweeper[s].advance]
    /\ Busy(s) =>
          /\ sweeper[s].row[1] \notin sweeper[s].todo
          /\ collection[sweeper[s].row] = "pending"
          /\ ~ referenced[sweeper[s].row]
          /\ sweeper[s].pc \in {"submit", "fail"} => rail[sweeper[s].row] = "none"

SweepReadsCurrent == \A s \in Sweepers : ~ At(s, "idle") => ReadsCurrent(s)

\* Where a collection is and what the rail has made of it.
RailAgrees ==
    \A r \in Rows :
        /\ collection[r] = "none" => rail[r] = "none" /\ ~ referenced[r]
        /\ collection[r] = "successful" => rail[r] = "landed"
        /\ collection[r] = "failed" => rail[r] \in {"none", "bounced"}
        /\ collection[r] \in {"pending", "successful"} => debitAmount[r] = Amount[r[1]]

\* One collection of an advance is in flight or has succeeded, not both.
OneCollection ==
    \A a \in Advances :
        /\ \A r, q \in RowsOf(a) :
              /\ collection[r] \in {"pending", "successful"}
              /\ collection[q] \in {"pending", "successful"}
              => r = q
        /\ \A r \in RowsOf(a) :
              /\ collection[r] = "pending" => status[a] = "disbursed"
              /\ collection[r] = "successful" => status[a] = "settled"
        /\ status[a] # "settled" => recovered[a] = 0

CollectionInv == SweepReadsCurrent /\ RailAgrees /\ OneCollection
=============================================================================
