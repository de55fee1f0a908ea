------------------------ MODULE BackgroundWork_proofs ------------------------
(* Proofs about queued work: hardship grants, for every number of grants,   *)
(* all amounts, deposits and retry limits, with or without the coverage     *)
(* rule; a batch on its way to the worker, for any lines, tasks and faults; *)
(* and a BVN check, for any retry limit.  The variables of the grants are   *)
(* those of HardshipGrant itself.                                           *)
EXTENDS BackgroundWork, Sums_proofs

-----------------------------------------------------------------------------
(* The inductive invariant.                                                 *)

Issuing(g) == issuing[g] \in {"locked", "enqueued"}

\* The advisory lock has one holder, and the room the holder found is still there:
\* nobody else can draw while it decides.
LockExclusive ==
    /\ \A g, h \in Grants : Issuing(g) /\ Issuing(h) => g = h
    /\ \A g \in Grants : Issuing(g) => drawing = 0

HeadroomKept ==
    Coverage => /\ FundingExposure + drawing <= 0
                /\ \A g \in Grants : Issuing(g) => FundingExposure + Amount[g] <= 0

\* The row is not visible before its transaction commits, and the task is enqueued by
\* then.
IssueOrder ==
    \A g \in Grants :
        /\ issuing[g] # "done" => status[g] = "none"
        /\ issuing[g] = "enqueued" => task[g] # "none"

\* What the task knows of the transfer when it fails the grant: the rail never took
\* it, or refused it for good.
KnownUnpaid ==
    \A g \in Grants :
        /\ ~ configured => bank[g] = "none"
        /\ task[g] = "reject" => bank[g] \in {"none", "failed"}
        /\ status[g] = "failed" /\ bank[g] = "none" => task[g] = "ended"

GrantIInv == GrantInv /\ LockExclusive /\ HeadroomKept /\ IssueOrder /\ KnownUnpaid

-----------------------------------------------------------------------------
(* The pool.                                                                *)

\* The exposure, now and after a step, by what SumOf adds up.
LEMMA ExposureIs == FundingExposure = advanced + SumOf(cash, Grants) - Deposits
  BY DEF FundingExposure, SumOf

LEMMA ExposureNext == FundingExposure' = advanced' + SumOf(cash', Grants) - Deposits
<1>1. (FundingExposure = advanced + SumOf(cash, Grants) - Deposits)'
  BY ExposureIs, PTL
<1> QED
  BY <1>1

LEMMA ExposureType == TypeOK => FundingExposure \in Int /\ SumOf(cash, Grants) \in Int
<1> SUFFICES ASSUME TypeOK
             PROVE  FundingExposure \in Int /\ SumOf(cash, Grants) \in Int
  OBVIOUS
<1>1. Whole(cash, Grants)
  BY DEF TypeOK, Whole
<1>2. SumOf(cash, Grants) \in Int
  BY <1>1, GrantConstants, SumType
<1> QED
  BY <1>2, ExposureIs, GrantConstants DEF TypeOK

LEMMA InitGrants == Init => GrantIInv
<1> SUFFICES ASSUME Init
             PROVE  GrantIInv
  OBVIOUS
<1>1. TypeOK
  BY GrantConstants DEF Init, TypeOK
<1>2. SumOf(cash, Grants) = 0
  BY GrantConstants, SumZero DEF Init
<1>3. FundingExposure = 0 - Deposits
  BY <1>2, ExposureIs, GrantConstants DEF Init
<1>4. BooksFollowGrant /\ StatusMatchesMoney /\ RecordedHasTask /\ LockExclusive
      /\ IssueOrder /\ KnownUnpaid
  BY DEF Init, BooksFollowGrant, StatusMatchesMoney, RecordedHasTask, LockExclusive,
     IssueOrder, KnownUnpaid, Issuing
<1>5. PoolCovered /\ HeadroomKept
  BY <1>3, GrantConstants DEF Init, PoolCovered, HeadroomKept, Issuing
<1> QED
  BY <1>1, <1>4, <1>5 DEF GrantIInv, GrantInv

LEMMA SameExposureValue == UNCHANGED <<cash, advanced>> => FundingExposure' = FundingExposure
  BY ExposureIs, ExposureNext

\* One grant's cash entries move: the exposure moves as much.
LEMMA ExposureMoves ==
    ASSUME TypeOK, NEW g \in Grants, NEW d \in Int, cash' = [cash EXCEPT ![g] = @ + d],
           advanced' = advanced
    PROVE  FundingExposure' = FundingExposure + d
<1> DEFINE c == [cash EXCEPT ![g] = @ + d]
<1>1. Whole(cash, Grants) /\ cash[g] \in Int /\ c[g] = cash[g] + d /\ c[g] \in Int
      /\ \A y \in Grants \ {g} : c[y] = cash[y]
  BY DEF TypeOK, Whole
<1>2. IsFiniteSet(Grants)
  BY GrantConstants
<1> HIDE DEF c
<1>3. SumOf(c, Grants) = SumOf(cash, Grants) - cash[g] + c[g]
  BY <1>1, <1>2, SumChange
<1>4. SumOf(cash', Grants) = SumOf(c, Grants)
  BY DEF c
<1>5. SumOf(cash, Grants) \in Int
  BY ExposureType
<1>6. advanced \in Int /\ Deposits \in Int
  BY GrantConstants DEF TypeOK
<1> QED
  BY <1>1, <1>3, <1>4, <1>5, <1>6, ExposureIs, ExposureNext

\* A step outside the lock that does not raise the exposure keeps the room that was
\* found under the lock.
LEMMA OutsideLock ==
    ASSUME GrantIInv, UNCHANGED <<drawing, issuing>>, FundingExposure' \in Int,
           FundingExposure' <= FundingExposure
    PROVE  LockExclusive' /\ HeadroomKept' /\ PoolCovered'
<1>1. FundingExposure \in Int /\ drawing \in Int /\ \A h \in Grants : Amount[h] \in Int
  BY ExposureType, GrantConstants DEF GrantIInv, GrantInv, TypeOK
<1>2. LockExclusive'
  BY DEF GrantIInv, LockExclusive, Issuing
<1>3. PoolCovered'
  BY <1>1 DEF GrantIInv, GrantInv, PoolCovered
<1>4. HeadroomKept'
  <2>1. ASSUME Coverage
        PROVE  FundingExposure' + drawing' <= 0
    <3>1. FundingExposure + drawing <= 0 /\ drawing' = drawing
      BY <2>1 DEF GrantIInv, HeadroomKept
    <3>2. \A x, y, d \in Int : x <= y /\ y + d <= 0 => x + d <= 0
      OBVIOUS
    <3>3. FundingExposure' + drawing <= 0
      BY <1>1, <3>1, <3>2, Zenon
    <3> QED
      BY <3>1, <3>3, Zenon
  <2>2. ASSUME Coverage, NEW h \in Grants, Issuing(h)'
        PROVE  FundingExposure' + Amount[h] <= 0
    <3>1. FundingExposure + Amount[h] <= 0
      BY <2>2 DEF GrantIInv, HeadroomKept, Issuing
    <3> QED
      BY <1>1, <3>1
  <2> QED
    BY <2>1, <2>2 DEF HeadroomKept
<1> QED
  BY <1>2, <1>3, <1>4

LEMMA SameExposure ==
    ASSUME GrantIInv, UNCHANGED <<cash, advanced, drawing, issuing>>
    PROVE  LockExclusive' /\ HeadroomKept' /\ PoolCovered'
<1>1. FundingExposure' = FundingExposure
  BY SameExposureValue
<1>2. FundingExposure \in Int
  BY ExposureType DEF GrantIInv, GrantInv
<1> QED
  BY <1>1, <1>2, OutsideLock

\* Room is found only by who finds the lock free.
LEMMA CoveredLeavesRoom ==
    ASSUME TypeOK, NEW x \in Nat \ {0}, Covered(x), Coverage
    PROVE  FundingExposure + x <= 0
<1>1. FundingExposure \in Int
  BY ExposureType
<1> QED
  BY <1>1 DEF Covered

-----------------------------------------------------------------------------
(* IssueHardshipGrant and RequestAdvance, which share the lock.             *)

LEMMA IssueBeginKeeps ==
    ASSUME GrantIInv, NEW g \in Grants, IssueBegin(g)
    PROVE  GrantIInv'
<1>1. /\ issuing[g] = "idle" /\ LockFree /\ Covered(Amount[g])
      /\ issuing' = [issuing EXCEPT ![g] = "locked"]
      /\ UNCHANGED <<status, expense, cash, advanced, drawing, active, configured, task,
                      retries, bank>>
  BY DEF IssueBegin, books, pool, world, queue
<1>2. TypeOK' /\ BooksFollowGrant' /\ StatusMatchesMoney' /\ RecordedHasTask'
  BY <1>1 DEF GrantIInv, GrantInv, TypeOK, BooksFollowGrant, StatusMatchesMoney,
     RecordedHasTask
<1>3. IssueOrder' /\ KnownUnpaid'
  BY <1>1 DEF GrantIInv, GrantInv, TypeOK, IssueOrder, KnownUnpaid
<1>4. drawing = 0 /\ \A h \in Grants : Issuing(h)' <=> h = g
  BY <1>1 DEF LockFree, Issuing, GrantIInv, GrantInv, TypeOK
<1>5. LockExclusive'
  BY <1>1, <1>4 DEF LockExclusive
<1>6. FundingExposure' = FundingExposure /\ PoolCovered'
  BY <1>1, SameExposureValue DEF GrantIInv, GrantInv, PoolCovered
<1>7. Coverage => FundingExposure + Amount[g] <= 0
  BY <1>1, CoveredLeavesRoom, GrantConstants DEF GrantIInv, GrantInv
<1>8. HeadroomKept'
  <2>1. FundingExposure + drawing' = FundingExposure + drawing
    BY <1>1
  <2> QED
    BY <1>4, <1>6, <1>7, <2>1 DEF GrantIInv, HeadroomKept
<1> QED
  BY <1>2, <1>3, <1>5, <1>6, <1>8 DEF GrantIInv, GrantInv

LEMMA EnqueueKeeps ==
    ASSUME GrantIInv, NEW g \in Grants, EnqueueGrant(g)
    PROVE  GrantIInv'
<1>1. /\ issuing[g] = "locked"
      /\ issuing' = [issuing EXCEPT ![g] = "enqueued"]
      /\ task' = [task EXCEPT ![g] = "queued"]
      /\ UNCHANGED <<status, expense, cash, advanced, drawing, active, configured, retries, bank>>
  BY DEF EnqueueGrant, books, pool, world, queue
<1>2. TypeOK' /\ BooksFollowGrant' /\ StatusMatchesMoney' /\ RecordedHasTask'
  BY <1>1 DEF GrantIInv, GrantInv, TypeOK, BooksFollowGrant, StatusMatchesMoney,
     RecordedHasTask
<1>3. IssueOrder' /\ KnownUnpaid'
  BY <1>1 DEF GrantIInv, GrantInv, TypeOK, IssueOrder, KnownUnpaid
<1>4. \A h \in Grants : Issuing(h)' <=> Issuing(h)
  BY <1>1 DEF Issuing, GrantIInv, GrantInv, TypeOK
<1>5. FundingExposure' = FundingExposure
  BY <1>1, SameExposureValue
<1>6. LockExclusive'
  BY <1>1, <1>4 DEF GrantIInv, LockExclusive
<1>7. HeadroomKept' /\ PoolCovered'
  BY <1>1, <1>4, <1>5 DEF GrantIInv, GrantInv, HeadroomKept, PoolCovered
<1> QED
  BY <1>2, <1>3, <1>6, <1>7 DEF GrantIInv, GrantInv

LEMMA RollBackKeeps ==
    ASSUME GrantIInv, NEW g \in Grants, IssueRollsBack(g)
    PROVE  GrantIInv'
<1>1. /\ issuing' = [issuing EXCEPT ![g] = "done"]
      /\ UNCHANGED <<status, expense, cash, advanced, drawing, active, configured, task,
                      retries, bank>>
  BY DEF IssueRollsBack, books, pool, world, queue
<1>2. TypeOK' /\ BooksFollowGrant' /\ StatusMatchesMoney' /\ RecordedHasTask'
  BY <1>1 DEF GrantIInv, GrantInv, TypeOK, BooksFollowGrant, StatusMatchesMoney,
     RecordedHasTask
<1>3. IssueOrder' /\ KnownUnpaid'
  BY <1>1 DEF GrantIInv, GrantInv, TypeOK, IssueOrder, KnownUnpaid
<1>4. \A h \in Grants : Issuing(h)' => Issuing(h)
  BY <1>1 DEF Issuing, GrantIInv, GrantInv, TypeOK
<1>5. FundingExposure' = FundingExposure
  BY <1>1, SameExposureValue
<1>6. LockExclusive'
  BY <1>1, <1>4 DEF GrantIInv, LockExclusive
<1>7. HeadroomKept' /\ PoolCovered'
  BY <1>1, <1>4, <1>5 DEF GrantIInv, GrantInv, HeadroomKept, PoolCovered
<1> QED
  BY <1>2, <1>3, <1>6, <1>7 DEF GrantIInv, GrantInv

\* The commit draws what the transaction found room for, and nobody has drawn since.
LEMMA IssueCommitKeeps ==
    ASSUME GrantIInv, NEW g \in Grants, IssueCommit(g)
    PROVE  GrantIInv'
<1>1. /\ issuing[g] = "enqueued"
      /\ issuing' = [issuing EXCEPT ![g] = "done"]
      /\ status' = [status EXCEPT ![g] = "pending"]
      /\ expense' = [expense EXCEPT ![g] = @ + Amount[g]]
      /\ cash' = [cash EXCEPT ![g] = @ + Amount[g]]
      /\ UNCHANGED <<advanced, drawing, active, configured, task, retries, bank>>
  BY DEF IssueCommit, pool, world, queue
<1>2. Amount[g] \in Nat \ {0} /\ Amount[g] \in Int
  BY GrantConstants
<1>3. TypeOK /\ status[g] = "none" /\ task[g] # "none" /\ cash[g] = 0 /\ expense[g] = 0
  BY <1>1 DEF GrantIInv, GrantInv, IssueOrder, BooksFollowGrant
<1>4. TypeOK'
  BY <1>1, <1>2 DEF GrantIInv, GrantInv, TypeOK
<1>5. BooksFollowGrant'
  BY <1>1, <1>2, <1>3 DEF GrantIInv, GrantInv, TypeOK, BooksFollowGrant
<1>6. StatusMatchesMoney' /\ RecordedHasTask' /\ IssueOrder' /\ KnownUnpaid'
  BY <1>1, <1>3 DEF GrantIInv, GrantInv, TypeOK, StatusMatchesMoney, RecordedHasTask,
     IssueOrder, KnownUnpaid
<1>7. Issuing(g) /\ drawing = 0 /\ \A h \in Grants : ~ Issuing(h)'
  BY <1>1 DEF GrantIInv, GrantInv, TypeOK, LockExclusive, Issuing
<1>8. LockExclusive'
  BY <1>7 DEF LockExclusive
<1>9. FundingExposure' = FundingExposure + Amount[g]
  BY <1>1, <1>2, <1>3, ExposureMoves
<1>10. Coverage => FundingExposure' <= 0
  BY <1>7, <1>9 DEF GrantIInv, HeadroomKept
<1>11. FundingExposure' + drawing' = FundingExposure'
  BY <1>1, <1>2, <1>3, <1>7, <1>9, ExposureType
<1>12. HeadroomKept' /\ PoolCovered'
  BY <1>7, <1>10, <1>11 DEF HeadroomKept, PoolCovered
<1> QED
  BY <1>4, <1>5, <1>6, <1>8, <1>12 DEF GrantIInv, GrantInv

LEMMA AdvanceBeginKeeps ==
    ASSUME GrantIInv, NEW x \in 1 .. Deposits, AdvanceBegin(x)
    PROVE  GrantIInv'
<1>1. /\ LockFree /\ Covered(x) /\ drawing' = x
      /\ UNCHANGED <<status, expense, cash, advanced, issuing, active, configured, task,
                      retries, bank>>
  BY DEF AdvanceBegin, books, world, queue
<1>2. x \in Nat \ {0}
  BY GrantConstants
<1>3. TypeOK' /\ BooksFollowGrant' /\ StatusMatchesMoney' /\ RecordedHasTask'
      /\ IssueOrder' /\ KnownUnpaid'
  BY <1>1, <1>2 DEF GrantIInv, GrantInv, TypeOK, BooksFollowGrant, StatusMatchesMoney,
     RecordedHasTask, IssueOrder, KnownUnpaid
<1>4. \A h \in Grants : ~ Issuing(h)'
  BY <1>1 DEF LockFree, Issuing
<1>5. FundingExposure' = FundingExposure
  BY <1>1, SameExposureValue
<1>6. Coverage => FundingExposure + x <= 0
  BY <1>1, <1>2, CoveredLeavesRoom DEF GrantIInv, GrantInv
<1>7. LockExclusive' /\ HeadroomKept' /\ PoolCovered'
  BY <1>1, <1>4, <1>5, <1>6 DEF LockExclusive, HeadroomKept, PoolCovered, GrantIInv, GrantInv
<1> QED
  BY <1>3, <1>7 DEF GrantIInv, GrantInv

LEMMA AdvanceCommitKeeps ==
    ASSUME GrantIInv, AdvanceCommit
    PROVE  GrantIInv'
<1>1. /\ drawing # 0 /\ advanced' = advanced + drawing /\ drawing' = 0
      /\ UNCHANGED <<status, expense, cash, issuing, active, configured, task, retries, bank>>
  BY DEF AdvanceCommit, books, world, queue
<1>2. TypeOK' /\ BooksFollowGrant' /\ StatusMatchesMoney' /\ RecordedHasTask'
      /\ IssueOrder' /\ KnownUnpaid'
  BY <1>1 DEF GrantIInv, GrantInv, TypeOK, BooksFollowGrant, StatusMatchesMoney,
     RecordedHasTask, IssueOrder, KnownUnpaid
<1>3. \A h \in Grants : ~ Issuing(h)'
  BY <1>1 DEF GrantIInv, LockExclusive, Issuing
<1>4. /\ FundingExposure \in Int /\ SumOf(cash, Grants) \in Int /\ drawing \in Int
      /\ advanced \in Int /\ Deposits \in Int
  BY ExposureType, GrantConstants DEF GrantIInv, GrantInv, TypeOK
<1>5. SumOf(cash', Grants) = SumOf(cash, Grants)
  BY <1>1
<1>6. FundingExposure' = FundingExposure + drawing
  BY <1>1, <1>4, <1>5, ExposureIs, ExposureNext
<1>7. Coverage => FundingExposure' <= 0
  BY <1>6 DEF GrantIInv, HeadroomKept
<1>8. FundingExposure' + drawing' = FundingExposure'
  BY <1>1, <1>4, <1>6
<1>9. LockExclusive' /\ HeadroomKept' /\ PoolCovered'
  BY <1>3, <1>7, <1>8 DEF LockExclusive, HeadroomKept, PoolCovered
<1> QED
  BY <1>2, <1>9 DEF GrantIInv, GrantInv

-----------------------------------------------------------------------------
(* The task, the provider and the callbacks.                                *)

TaskPc == {"none", "queued", "send", "record", "reject", "ended", "archived"}

\* A step of one grant's task, seen from outside: it moves that task and, at most,
\* hands the transfer to the rail.
LEMMA TaskMoves ==
    ASSUME GrantIInv, NEW g \in Grants, NEW pc \in TaskPc \ {"none"},
           task' = [task EXCEPT ![g] = pc],
           retries' \in [Grants -> 0 .. MaxRetry],
           bank' = bank \/ (configured /\ bank' = [bank EXCEPT ![g] = "accepted"]
                                       /\ bank[g] = "none"),
           pc = "reject" => bank'[g] \in {"none", "failed"},
           status[g] = "failed" /\ bank[g] = "none" => pc = "ended" /\ bank' = bank,
           UNCHANGED <<status, expense, cash, advanced, drawing, issuing, active, configured>>
    PROVE  GrantIInv'
<1>1. TypeOK'
  BY DEF GrantIInv, GrantInv, TypeOK, TaskPc
<1>2. BooksFollowGrant'
  BY DEF GrantIInv, GrantInv, BooksFollowGrant
<1>3. RecordedHasTask' /\ IssueOrder'
  BY DEF GrantIInv, GrantInv, TypeOK, RecordedHasTask, IssueOrder, TaskPc
<1>4. \A h \in Grants : bank'[h] = bank[h] \/ (h = g /\ configured /\ bank[g] = "none"
                                                   /\ bank'[g] = "accepted")
  BY DEF GrantIInv, GrantInv, TypeOK
<1>5. \A h \in Grants : h # g => task'[h] = task[h] /\ bank'[h] = bank[h]
  BY DEF GrantIInv, GrantInv, TypeOK
<1>6. task'[g] = pc
  BY DEF GrantIInv, GrantInv, TypeOK
<1>7. StatusMatchesMoney'
  <2> SUFFICES ASSUME NEW h \in Grants
               PROVE  /\ status[h] = "failed" => bank'[h] \in {"none", "failed"}
                      /\ status[h] = "disbursed" => bank'[h] = "paid"
    BY DEF StatusMatchesMoney
  <2>1. /\ status[h] = "failed" => bank[h] \in {"none", "failed"}
        /\ status[h] = "disbursed" => bank[h] = "paid"
    BY DEF GrantIInv, GrantInv, StatusMatchesMoney
  <2> QED
    BY <1>4, <2>1
<1>8. KnownUnpaid'
  <2> SUFFICES ASSUME NEW h \in Grants
               PROVE  /\ ~ configured => bank'[h] = "none"
                      /\ task'[h] = "reject" => bank'[h] \in {"none", "failed"}
                      /\ status[h] = "failed" /\ bank'[h] = "none" => task'[h] = "ended"
    BY DEF KnownUnpaid
  <2>1. /\ ~ configured => bank[h] = "none"
        /\ task[h] = "reject" => bank[h] \in {"none", "failed"}
        /\ status[h] = "failed" /\ bank[h] = "none" => task[h] = "ended"
    BY DEF GrantIInv, KnownUnpaid
  <2> QED
    BY <1>4, <1>5, <1>6, <2>1
<1>9. LockExclusive' /\ HeadroomKept' /\ PoolCovered'
  BY SameExposure
<1> QED
  BY <1>1, <1>2, <1>3, <1>7, <1>8, <1>9 DEF GrantIInv, GrantInv

\* A task that returns an error is queued again or archived.
LEMMA RetryMoves ==
    ASSUME TypeOK, NEW g \in Grants, Retry(g)
    PROVE  /\ retries' \in [Grants -> 0 .. MaxRetry]
           /\ \E pc \in {"queued", "archived"} : task' = [task EXCEPT ![g] = pc]
  BY GrantConstants DEF Retry, Goto, TypeOK

\* The steps of the task that neither resolve nor record anything.
LEMMA TaskStepsKeep ==
    ASSUME GrantIInv, NEW g \in Grants,
           \/ LoadMissing(g) \/ LoadGrant(g) \/ TransferAccepted(g)
           \/ TransferUnavailable(g) \/ TransferRejected(g) \/ TaskCrash(g)
    PROVE  GrantIInv'
<1>1. TypeOK
  BY DEF GrantIInv, GrantInv
<1>2. task[g] # "ended"
  BY DEF LoadMissing, LoadGrant, TransferAccepted, TransferUnavailable, TransferRejected,
     TaskCrash
<1>3. ~ (status[g] = "failed" /\ bank[g] = "none")
  BY <1>2 DEF GrantIInv, KnownUnpaid
<1>4. UNCHANGED <<status, expense, cash, advanced, drawing, issuing, active, configured>>
  BY Zenon DEF LoadMissing, LoadGrant, TransferAccepted, TransferUnavailable, TransferRejected,
     TaskCrash, books, pool, world
<1>5. Taken(g) => bank' = bank \/ (bank' = [bank EXCEPT ![g] = "accepted"] /\ bank[g] = "none")
  BY DEF Taken
<1>6. CASE LoadMissing(g) \/ TaskCrash(g)
  <2>1. Retry(g) /\ bank' = bank
    BY <1>6 DEF LoadMissing, TaskCrash
  <2>2. PICK pc \in {"queued", "archived"} : task' = [task EXCEPT ![g] = pc]
    BY <1>1, <2>1, RetryMoves
  <2> QED
    BY <1>1, <1>3, <1>4, <2>1, <2>2, RetryMoves, TaskMoves DEF TaskPc
<1>7. CASE LoadGrant(g)
  <2>1. /\ \E pc \in {"send", "ended"} : task' = [task EXCEPT ![g] = pc]
        /\ UNCHANGED <<retries, bank>>
    BY <1>7 DEF LoadGrant, Goto
  <2>2. retries' \in [Grants -> 0 .. MaxRetry]
    BY <1>1, <2>1 DEF TypeOK
  <2> QED
    BY <1>3, <1>4, <2>1, <2>2, TaskMoves DEF TaskPc
<1>8. CASE TransferAccepted(g)
  <2>1. /\ task' = [task EXCEPT ![g] = "record"] /\ configured /\ Taken(g) /\ retries' = retries
    BY <1>8 DEF TransferAccepted, Goto
  <2>2. retries' \in [Grants -> 0 .. MaxRetry]
    BY <1>1, <2>1 DEF TypeOK
  <2> QED
    BY <1>3, <1>4, <1>5, <2>1, <2>2, TaskMoves DEF TaskPc
<1>9. CASE TransferUnavailable(g)
  <2>1. Retry(g) /\ configured /\ (bank' = bank \/ Taken(g))
    BY <1>9 DEF TransferUnavailable
  <2>2. PICK pc \in {"queued", "archived"} : task' = [task EXCEPT ![g] = pc]
    BY <1>1, <2>1, RetryMoves
  <2> QED
    BY <1>1, <1>3, <1>4, <1>5, <2>1, <2>2, RetryMoves, TaskMoves DEF TaskPc
<1>10. CASE TransferRejected(g)
  <2>1. /\ task' = [task EXCEPT ![g] = "reject"] /\ UNCHANGED <<retries, bank>>
        /\ bank[g] \in {"none", "failed"}
    BY <1>10 DEF TransferRejected, Goto
  <2>2. retries' \in [Grants -> 0 .. MaxRetry]
    BY <1>1, <2>1 DEF TypeOK
  <2> QED
    BY <1>3, <1>4, <2>1, <2>2, TaskMoves DEF TaskPc
<1> QED
  BY <1>6, <1>7, <1>8, <1>9, <1>10

\* FailGrant reverses what the issue booked, once, and gives the room back.  It is
\* called only with the transfer known not to be paid; the task ends if it was the
\* task that called it before the rail had the transfer.
LEMMA FailKeeps ==
    ASSUME GrantIInv, NEW g \in Grants, FailGrant(g), bank[g] \in {"none", "failed"},
           NEW pc \in TaskPc \ {"none", "reject"},
           task' = [task EXCEPT ![g] = pc] \/ (task' = task /\ bank[g] # "none"),
           bank[g] = "none" => pc = "ended",
           UNCHANGED <<advanced, drawing, issuing, active, configured, retries, bank>>
    PROVE  GrantIInv'
<1>1. TypeOK
  BY DEF GrantIInv, GrantInv
<1>2. Amount[g] \in Nat \ {0} /\ Amount[g] \in Int /\ 0 - Amount[g] \in Int
  BY GrantConstants
<1>3. task' \in [Grants -> TaskPc] /\ \A h \in Grants : task[h] # "none" => task'[h] # "none"
  BY <1>1 DEF TypeOK, TaskPc
<1>4. \A h \in Grants : task'[h] = "reject" => task[h] = "reject"
  BY <1>1 DEF TypeOK, TaskPc
<1>5. /\ bank[g] = "none" => task'[g] = "ended"
      /\ \A h \in Grants : h # g => task'[h] = task[h]
  BY <1>1 DEF TypeOK
<1>6. CASE ~ Open(g)
  <2>1. UNCHANGED <<status, expense, cash>>
    BY <1>6 DEF FailGrant, books
  <2>2. TypeOK' /\ BooksFollowGrant' /\ StatusMatchesMoney' /\ RecordedHasTask' /\ IssueOrder'
    BY <1>3, <2>1 DEF GrantIInv, GrantInv, TypeOK, BooksFollowGrant, StatusMatchesMoney,
       RecordedHasTask, IssueOrder, TaskPc
  <2>3. KnownUnpaid'
    BY <1>4, <1>5, <2>1 DEF GrantIInv, KnownUnpaid
  <2>4. LockExclusive' /\ HeadroomKept' /\ PoolCovered'
    BY <2>1, SameExposure
  <2> QED
    BY <2>2, <2>3, <2>4 DEF GrantIInv, GrantInv
<1>7. CASE Open(g)
  <2>1. /\ status' = [status EXCEPT ![g] = "failed"]
        /\ expense' = [expense EXCEPT ![g] = @ - Amount[g]]
        /\ cash' = [cash EXCEPT ![g] = @ - Amount[g]]
    BY <1>7 DEF FailGrant
  <2>2. status[g] \in {"pending", "submitted"} /\ cash[g] = Amount[g] /\ expense[g] = Amount[g]
    BY <1>7 DEF Open, GrantIInv, GrantInv, BooksFollowGrant
  <2>3. TypeOK'
    BY <1>2, <1>3, <2>1 DEF GrantIInv, GrantInv, TypeOK, TaskPc
  <2>4. BooksFollowGrant'
    BY <1>2, <2>1, <2>2 DEF GrantIInv, GrantInv, TypeOK, BooksFollowGrant
  <2>5. StatusMatchesMoney'
    BY <2>1 DEF GrantIInv, GrantInv, TypeOK, StatusMatchesMoney
  <2>6. RecordedHasTask' /\ IssueOrder'
    BY <1>3, <2>1, <2>2 DEF GrantIInv, GrantInv, TypeOK, RecordedHasTask, IssueOrder
  <2>7. KnownUnpaid'
    BY <1>4, <1>5, <2>1 DEF GrantIInv, GrantInv, TypeOK, KnownUnpaid
  <2>8. cash' = [cash EXCEPT ![g] = @ + (0 - Amount[g])]
    <3>1. cash[g] - Amount[g] = cash[g] + (0 - Amount[g])
      BY <1>1, <1>2 DEF TypeOK
    <3> QED
      BY <2>1, <3>1, Zenon
  <2>9. FundingExposure' = FundingExposure + (0 - Amount[g])
    BY <1>1, <1>2, <2>8, ExposureMoves
  <2>10. FundingExposure' \in Int /\ FundingExposure' <= FundingExposure
    BY <1>1, <1>2, <2>9, ExposureType
  <2>11. LockExclusive' /\ HeadroomKept' /\ PoolCovered'
    BY <2>10, OutsideLock
  <2> QED
    BY <2>3, <2>4, <2>5, <2>6, <2>7, <2>11 DEF GrantIInv, GrantInv
<1> QED
  BY <1>6, <1>7

LEMMA FailStepsKeep ==
    ASSUME GrantIInv, NEW g \in Grants, NoProvider(g) \/ FailRejected(g) \/ WebhookFails(g)
    PROVE  GrantIInv'
<1>1. /\ ~ configured => bank[g] = "none"
      /\ task[g] = "reject" => bank[g] \in {"none", "failed"}
  BY DEF GrantIInv, KnownUnpaid
<1>2. CASE NoProvider(g)
  <2>1. /\ FailGrant(g) /\ ~ configured /\ task' = [task EXCEPT ![g] = "ended"]
        /\ UNCHANGED <<advanced, drawing, issuing, active, configured, retries, bank>>
    BY <1>2 DEF NoProvider, Goto, pool, world
  <2> QED
    BY <1>1, <2>1, FailKeeps DEF TaskPc
<1>3. CASE FailRejected(g)
  <2>1. /\ FailGrant(g) /\ task[g] = "reject" /\ task' = [task EXCEPT ![g] = "ended"]
        /\ UNCHANGED <<advanced, drawing, issuing, active, configured, retries, bank>>
    BY <1>3 DEF FailRejected, Goto, pool, world
  <2> QED
    BY <1>1, <2>1, FailKeeps DEF TaskPc
<1>4. CASE WebhookFails(g)
  <2>1. /\ FailGrant(g) /\ bank[g] = "failed" /\ task' = task
        /\ UNCHANGED <<advanced, drawing, issuing, active, configured, retries, bank>>
    BY <1>4 DEF WebhookFails, pool, world, queue
  <2> QED
    BY <2>1, FailKeeps DEF TaskPc
<1> QED
  BY <1>2, <1>3, <1>4

\* MarkGrantSubmitted and ConfirmGrantDisbursed change the status of an open grant and
\* no entries.
LEMMA StatusStepsKeep ==
    ASSUME GrantIInv, NEW g \in Grants, RecordSubmission(g) \/ WebhookConfirms(g)
    PROVE  GrantIInv'
<1>1. /\ \A h \in Grants : h # g => status'[h] = status[h]
      /\ \/ status'[g] = status[g]
         \/ status[g] = "pending" /\ status'[g] = "submitted"
         \/ status[g] \in {"pending", "submitted"} /\ status'[g] = "disbursed" /\ bank[g] = "paid"
      /\ status' \in [Grants -> {"none", "pending", "submitted", "disbursed", "failed"}]
      /\ UNCHANGED <<expense, cash, advanced, drawing, issuing, active, configured, retries, bank>>
  <2>1. CASE RecordSubmission(g)
    BY <2>1 DEF RecordSubmission, GrantIInv, GrantInv, TypeOK, pool, world
  <2>2. CASE WebhookConfirms(g)
    BY <2>2 DEF WebhookConfirms, ConfirmGrantDisbursed, Open, GrantIInv, GrantInv, TypeOK,
       pool, world, queue
  <2> QED
    BY <2>1, <2>2
<1>2. task' = task \/ (task' = [task EXCEPT ![g] = "ended"] /\ task[g] = "record")
  BY DEF RecordSubmission, WebhookConfirms, Goto, queue
<1>3. /\ task' \in [Grants -> TaskPc]
      /\ \A h \in Grants : \/ task'[h] = task[h]
                           \/ h = g /\ task[h] = "record" /\ task'[h] = "ended"
  BY <1>2 DEF GrantIInv, GrantInv, TypeOK, TaskPc
<1>4. TypeOK'
  BY <1>1, <1>3 DEF GrantIInv, GrantInv, TypeOK, TaskPc
<1>5. BooksFollowGrant'
  BY <1>1 DEF GrantIInv, GrantInv, BooksFollowGrant
<1>6. StatusMatchesMoney'
  BY <1>1 DEF GrantIInv, GrantInv, StatusMatchesMoney
<1>7. RecordedHasTask' /\ IssueOrder' /\ KnownUnpaid'
  <2> SUFFICES ASSUME NEW h \in Grants
               PROVE  /\ status'[h] # "none" => task'[h] # "none"
                      /\ issuing[h] # "done" => status'[h] = "none"
                      /\ issuing[h] = "enqueued" => task'[h] # "none"
                      /\ ~ configured => bank[h] = "none"
                      /\ task'[h] = "reject" => bank[h] \in {"none", "failed"}
                      /\ status'[h] = "failed" /\ bank[h] = "none" => task'[h] = "ended"
    BY <1>1 DEF RecordedHasTask, IssueOrder, KnownUnpaid
  <2> QED
    BY <1>1, <1>3 DEF GrantIInv, GrantInv, RecordedHasTask, IssueOrder, KnownUnpaid
<1>8. LockExclusive' /\ HeadroomKept' /\ PoolCovered'
  BY <1>1, SameExposure
<1> QED
  BY <1>4, <1>5, <1>6, <1>7, <1>8 DEF GrantIInv, GrantInv

LEMMA BankKeeps ==
    ASSUME GrantIInv, NEW g \in Grants, BankDecides(g)
    PROVE  GrantIInv'
<1>1. PICK o \in {"paid", "mispaid", "failed"} : bank' = [bank EXCEPT ![g] = o]
  BY DEF BankDecides
<1>2. /\ bank[g] = "accepted"
      /\ UNCHANGED <<status, expense, cash, advanced, drawing, issuing, active, configured,
                     task, retries>>
  BY DEF BankDecides, books, pool, world, queue
<1>3. TypeOK'
  BY <1>1, <1>2 DEF GrantIInv, GrantInv, TypeOK
<1>4. BooksFollowGrant' /\ RecordedHasTask' /\ IssueOrder'
  BY <1>2 DEF GrantIInv, GrantInv, BooksFollowGrant, RecordedHasTask, IssueOrder
<1>5. StatusMatchesMoney' /\ KnownUnpaid'
  BY <1>1, <1>2 DEF GrantIInv, GrantInv, TypeOK, StatusMatchesMoney, KnownUnpaid
<1>6. LockExclusive' /\ HeadroomKept' /\ PoolCovered'
  BY <1>2, SameExposure
<1> QED
  BY <1>3, <1>4, <1>5, <1>6 DEF GrantIInv, GrantInv

-----------------------------------------------------------------------------
LEMMA NextKeepsGrants == GrantIInv /\ [Next]_vars => GrantIInv'
<1> SUFFICES ASSUME GrantIInv, [Next]_vars
             PROVE  GrantIInv'
  OBVIOUS
<1>1. CASE UNCHANGED vars \/ WorkerLeaves
  <2>1. /\ UNCHANGED <<status, expense, cash, advanced, drawing, issuing, configured, task,
                       retries, bank>>
        /\ active' \in BOOLEAN
    BY <1>1 DEF vars, WorkerLeaves, books, pool, queue, GrantIInv, GrantInv, TypeOK
  <2>2. TypeOK' /\ BooksFollowGrant' /\ StatusMatchesMoney' /\ RecordedHasTask' /\ IssueOrder'
        /\ KnownUnpaid'
    BY <2>1 DEF GrantIInv, GrantInv, TypeOK, BooksFollowGrant, StatusMatchesMoney,
       RecordedHasTask, IssueOrder, KnownUnpaid
  <2>3. LockExclusive' /\ HeadroomKept' /\ PoolCovered'
    BY <2>1, SameExposure
  <2> QED
    BY <2>2, <2>3 DEF GrantIInv, GrantInv
<1>2. CASE Next /\ ~ WorkerLeaves
  BY <1>2, IssueBeginKeeps, EnqueueKeeps, RollBackKeeps, IssueCommitKeeps, AdvanceBeginKeeps,
     AdvanceCommitKeeps, TaskStepsKeep, FailStepsKeep, StatusStepsKeep, BankKeeps, Zenon
     DEF Next, TaskStep
<1> QED
  BY <1>1, <1>2

\* The inductive invariant holds: one holder of the lock, whose headroom lasts, and a
\* grant that is failed only when its transfer is known not to be paid.
THEOREM GrantInvariant == Spec => []GrantIInv
  BY InitGrants, NextKeepsGrants, PTL DEF Spec

\* A grant's status, entries and task agree with what the rail did with its money, and
\* grants and advances together stay within the deposits (IssueHardshipGrant,
\* FailGrant, ConfirmGrantDisbursed), for any number of grants.
THEOREM GrantsAlwaysAgree == Spec => []GrantInv
<1>1. GrantIInv => GrantInv
  BY DEF GrantIInv
<1> QED
  BY <1>1, GrantInvariant, PTL

-----------------------------------------------------------------------------
(* A BVN check.                                                             *)

BVNConstants == BVN!BVNCheckConstants

\* A definitive failure ends the task, and Dojah has answered at most once for each
\* attempt that is over.
CheckInv ==
    /\ BVN!TypeOK /\ BVN!OutcomeKept
    /\ refused => check = "dead"
    /\ check \in {"none", "queued", "asking", "lost"} => lookups <= retried

LEMMA StepCheck ==
    ASSUME BVNConstants, CheckInv, [BVN!Next]_(BVN!vars)
    PROVE  CheckInv' /\ (refused => lookups' = lookups)
<1> USE DEF BVNConstants, BVN!BVNCheckConstants, CheckInv, BVN!TypeOK, BVN!OutcomeKept
<1>1. CASE BVN!Enqueue
  BY <1>1 DEF BVN!Enqueue
<1>2. CASE BVN!Start
  BY <1>2 DEF BVN!Start
<1>3. CASE BVN!AskFails
  BY <1>3 DEF BVN!AskFails, BVN!Retry
<1>4. CASE BVN!Answer
  BY <1>4 DEF BVN!Answer
<1>5. CASE BVN!AnswerErrorPage
  BY <1>5 DEF BVN!AnswerErrorPage
<1>6. CASE BVN!Save
  <2>1. /\ rows' \in [{"verified", "failed"} -> Nat]
        /\ outcome = "verified" => rows'["verified"] > 0
        /\ outcome = "failed" => rows'["failed"] > 0
    BY <1>6 DEF BVN!Save, BVN!Keep
  <2>2. /\ refused = FALSE /\ refused' \in BOOLEAN /\ refused' = (outcome = "failed")
        /\ check' = (IF outcome = "verified" THEN "done" ELSE "dead")
        /\ lookups' = lookups /\ retried' = retried /\ outcome' = outcome /\ valid' = valid
    BY <1>6 DEF BVN!Save
  <2> QED
    BY <2>1, <2>2
<1>7. CASE BVN!SaveFails
  BY <1>7 DEF BVN!SaveFails, BVN!Retry
<1>8. CASE BVN!SaveUnacknowledged
  <2>1. rows' \in [{"verified", "failed"} -> Nat]
        /\ rows'["verified"] >= rows["verified"] /\ rows'["failed"] >= rows["failed"]
    BY <1>8 DEF BVN!SaveUnacknowledged, BVN!Keep
  <2>2. /\ refused = FALSE /\ refused' = FALSE
        /\ lookups' = lookups /\ outcome' = outcome /\ valid' = valid /\ check = "saving"
    BY <1>8 DEF BVN!SaveUnacknowledged
  <2>3. CASE retried < BVNRetry
    <3>1. check' = "queued" /\ retried' = retried + 1
      BY <1>8, <2>3 DEF BVN!SaveUnacknowledged, BVN!Retry
    <3>2. retried' \in 0 .. BVNRetry /\ lookups' <= retried' /\ lookups' \in 0 .. retried' + 1
      BY <2>2, <2>3, <3>1
    <3> QED
      BY <2>1, <2>2, <3>1, <3>2
  <2>4. CASE ~ (retried < BVNRetry)
    <3>1. check' = "dead" /\ retried' = retried
      BY <1>8, <2>4 DEF BVN!SaveUnacknowledged, BVN!Retry
    <3> QED
      BY <2>1, <2>2, <2>4, <3>1
  <2> QED
    BY <2>3, <2>4
<1>9. CASE UNCHANGED BVN!vars
  BY <1>9 DEF BVN!vars
<1> QED
  BY <1>1, <1>2, <1>3, <1>4, <1>5, <1>6, <1>7, <1>8, <1>9 DEF BVN!Next

\* ProcessBVNTask and saveBVNVerification, for any retry limit and any failures: the
\* outcome of a task that ends well is on file, and a definitive failure is not asked
\* about again.
THEOREM CheckAlwaysKept == ASSUME BVNConstants PROVE BVN!Spec => BVN!CheckIsKept
<1>1. BVN!Init => CheckInv
  <2> SUFFICES ASSUME BVN!Init
               PROVE  CheckInv
    OBVIOUS
  <2> USE DEF BVN!Init, BVNConstants, BVN!BVNCheckConstants
  <2>1. rows \in [{"verified", "failed"} -> Nat]
    OBVIOUS
  <2>2. retried \in 0 .. BVNRetry /\ lookups \in 0 .. retried + 1 /\ lookups <= retried
    OBVIOUS
  <2>3. check = "none" /\ refused = FALSE /\ outcome = "failed" /\ valid \in BOOLEAN
    OBVIOUS
  <2> QED
    BY <2>1, <2>2, <2>3 DEF CheckInv, BVN!TypeOK, BVN!OutcomeKept
<1>2. CheckInv /\ [BVN!Next]_(BVN!vars) => CheckInv'
  BY StepCheck
<1>3. CheckInv /\ [BVN!Next]_(BVN!vars) => [refused => lookups' = lookups]_(BVN!vars)
  BY StepCheck
<1>4. CheckInv => BVN!TypeOK /\ BVN!OutcomeKept
  BY DEF CheckInv
<1> QED
  BY <1>1, <1>2, <1>3, <1>4, PTL DEF BVN!Spec, BVN!CheckIsKept, BVN!NotAskedAgain

-----------------------------------------------------------------------------
(* A batch on its way to the worker.                                        *)

IntakeConstants == Intake!BatchIntakeConstants

\* A task past its claim owns the batch: it is processing, with lines at the bank if
\* the task sends some and none if it has only to close it.
ClaimOwnsBatch ==
    \A t \in BatchTasks :
        /\ batchTask[t] \in {"closing", "sending"} => batch = "processing"
        /\ batchTask[t] = "closing" => Intake!In("processing") = {}
        /\ batchTask[t] = "sending" => Intake!In("processing") # {}

IntakeInv == Intake!TypeOK /\ Intake!SomebodyIsAtIt /\ ClaimOwnsBatch

IntakeTyped ==
    /\ faults \subseteq {"queue", "stop"}
    /\ batch \in {"none", "pending", "processing", "completed", "failed"}
    /\ batchLine \in [Lines -> {"pending", "processing", "completed", "failed"}]
    /\ batchTask \in [BatchTasks -> {"none", "queued", "closing", "sending"}]
    /\ tries \in [BatchTasks -> 0 .. BatchRetry]
    /\ released \in 0 .. MaxReleases

LEMMA EnqueueMoves ==
    ASSUME IntakeConstants, IntakeTyped, Intake!Enqueue
    PROVE  /\ batchTask' \in [BatchTasks -> {"none", "queued", "closing", "sending"}]
           /\ tries' \in [BatchTasks -> 0 .. BatchRetry]
           /\ \A t \in BatchTasks :
                 \/ batchTask'[t] = batchTask[t]
                 \/ batchTask[t] = "none" /\ batchTask'[t] = "queued"
           /\ "queue" \notin faults => \E t \in BatchTasks : batchTask'[t] = "queued"
<1> USE DEF IntakeTyped, IntakeConstants, Intake!BatchIntakeConstants
<1>1. CASE UNCHANGED <<batchTask, tries>> /\ "queue" \in faults
  BY <1>1
<1>2. ASSUME NEW t \in Intake!Free, batchTask' = [batchTask EXCEPT ![t] = "queued"],
             tries' = [tries EXCEPT ![t] = BatchRetry]
      PROVE  /\ batchTask' \in [BatchTasks -> {"none", "queued", "closing", "sending"}]
             /\ tries' \in [BatchTasks -> 0 .. BatchRetry]
             /\ \A u \in BatchTasks :
                   \/ batchTask'[u] = batchTask[u]
                   \/ batchTask[u] = "none" /\ batchTask'[u] = "queued"
             /\ \E u \in BatchTasks : batchTask'[u] = "queued"
  BY <1>2 DEF Intake!Free
<1> QED
  BY <1>1, <1>2 DEF Intake!Enqueue

LEMMA AgainMoves ==
    ASSUME IntakeConstants, IntakeTyped, NEW t \in BatchTasks,
           Intake!Again(t) \/ Intake!Over(t)
    PROVE  /\ batchTask' \in [BatchTasks -> {"none", "queued", "closing", "sending"}]
           /\ tries' \in [BatchTasks -> 0 .. BatchRetry]
           /\ batchTask'[t] \in {"none", "queued"}
           /\ \A u \in BatchTasks : u # t => batchTask'[u] = batchTask[u]
  BY DEF Intake!Again, Intake!Over, IntakeTyped, IntakeConstants,
         Intake!BatchIntakeConstants

LEMMA CreateKeepsIntake ==
    ASSUME IntakeConstants, IntakeInv, NEW s \in SUBSET Lines, Intake!CreatePayroll(s)
    PROVE  IntakeInv'
<1>1. IntakeTyped
  BY DEF IntakeInv, Intake!TypeOK, IntakeTyped
<1>2. Intake!Enqueue /\ batch = "none" /\ batch' = "pending"
      /\ faults' = faults /\ released' = released
  BY DEF Intake!CreatePayroll
<1>3. batchLine' \in [Lines -> {"pending", "completed"}]
  BY DEF Intake!CreatePayroll
<1>4. IntakeTyped' /\ Intake!In("processing")' = {}
  BY <1>1, <1>2, <1>3, EnqueueMoves DEF IntakeTyped, Intake!In
<1>5. \A t \in BatchTasks : batchTask[t] \notin {"closing", "sending"}
                          /\ batchTask'[t] \notin {"closing", "sending"}
  BY <1>1, <1>2, EnqueueMoves DEF IntakeInv, ClaimOwnsBatch
<1> QED
  BY <1>1, <1>2, <1>4, <1>5, EnqueueMoves
     DEF IntakeInv, IntakeTyped, Intake!TypeOK, Intake!SomebodyIsAtIt, ClaimOwnsBatch

LEMMA RetryKeepsIntake ==
    ASSUME IntakeConstants, IntakeInv, NEW s \in SUBSET Lines, Intake!RetryFailedItems(s)
    PROVE  IntakeInv'
<1>1. IntakeTyped
  BY DEF IntakeInv, Intake!TypeOK, IntakeTyped
<1>2. Intake!Enqueue /\ batch = "failed" /\ batch' = "failed" /\ faults' = faults
  BY DEF Intake!RetryFailedItems
<1>3. batchLine' \in [Lines -> {"pending", "processing", "completed", "failed"}]
      /\ \A l \in Lines : batchLine'[l] = "processing" => batchLine[l] = "processing"
  BY <1>1 DEF Intake!RetryFailedItems, IntakeTyped
<1>4. released' \in 0 .. MaxReleases
  <2>1. Intake!Cardinality(s) \in Nat
    <3>1. IsFiniteSet(Lines)
      BY DEF IntakeConstants, Intake!BatchIntakeConstants, Intake!IsFiniteSet, IsFiniteSet
    <3>2. IsFiniteSet(s)
      BY <3>1, FS_Subset
    <3>3. Cardinality(s) \in Nat
      BY <3>2, FS_CardinalityType
    <3> QED
      BY <3>3 DEF Intake!Cardinality, Cardinality
  <2> QED
    BY <1>1, <2>1 DEF Intake!RetryFailedItems, IntakeTyped, IntakeConstants,
                      Intake!BatchIntakeConstants
<1>5. IntakeTyped' /\ Intake!In("processing")' = {}
  BY <1>1, <1>2, <1>3, <1>4, EnqueueMoves
     DEF IntakeTyped, Intake!In, IntakeInv, Intake!TypeOK
<1>6. \A t \in BatchTasks : batchTask[t] \notin {"closing", "sending"}
                          /\ batchTask'[t] \notin {"closing", "sending"}
  BY <1>1, <1>2, EnqueueMoves DEF IntakeInv, ClaimOwnsBatch
<1> QED
  BY <1>1, <1>2, <1>5, <1>6
     DEF IntakeInv, IntakeTyped, Intake!TypeOK, Intake!SomebodyIsAtIt, ClaimOwnsBatch

LEMMA ClaimKeepsIntake ==
    ASSUME IntakeConstants, IntakeInv, NEW t \in BatchTasks, NEW s \in SUBSET Lines,
           Intake!Claim(t, s)
    PROVE  IntakeInv'
<1> DEFINE sendable == Intake!In("pending") \ s
<1>1. IntakeTyped
  BY DEF IntakeInv, Intake!TypeOK, IntakeTyped
<1>2. /\ batch \in {"pending", "failed"} /\ batch' = "processing"
      /\ UNCHANGED <<faults, tries, released>>
      /\ s \subseteq Intake!In("pending")
  BY DEF Intake!Claim, Intake!Claimable
<1>3. \A u \in BatchTasks : batchTask[u] \notin {"closing", "sending"}
  BY <1>2 DEF IntakeInv, ClaimOwnsBatch
<1>4. /\ batchTask' \in [BatchTasks -> {"none", "queued", "closing", "sending"}]
      /\ batchTask'[t] = (IF sendable = {} THEN "closing" ELSE "sending")
      /\ \A u \in BatchTasks : u # t => batchTask'[u] = batchTask[u]
  BY <1>1 DEF Intake!Claim, IntakeTyped
<1>5. batchLine' = [l \in Lines |-> IF l \in s THEN "failed"
                                    ELSE IF l \in sendable THEN "processing"
                                    ELSE batchLine[l]]
  BY DEF Intake!Claim
<1>6. batchLine' \in [Lines -> {"pending", "processing", "completed", "failed"}]
  BY <1>1, <1>5 DEF IntakeTyped
<1>7. \A l \in Lines : batchLine[l] # "processing"
  BY <1>2 DEF IntakeInv, Intake!TypeOK, Intake!In
<1>8. Intake!In("processing")' = sendable
  <2>1. \A l \in Lines : batchLine'[l] = "processing" <=> l \in sendable
    BY <1>1, <1>2, <1>5, <1>7 DEF Intake!In
  <2> QED
    BY <2>1 DEF Intake!In
<1>9. Intake!TypeOK'
  BY <1>1, <1>2, <1>4, <1>6 DEF IntakeTyped, Intake!TypeOK
<1>10. ClaimOwnsBatch'
  BY <1>2, <1>3, <1>4, <1>8 DEF ClaimOwnsBatch
<1>11. Intake!SomebodyIsAtIt'
  BY <1>2, <1>3, <1>4, <1>8 DEF Intake!SomebodyIsAtIt
<1> QED
  BY <1>9, <1>10, <1>11 DEF IntakeInv

\* A task that ends, or is delivered again, after a step that left the batch to others.
LEMMA EndKeepsIntake ==
    ASSUME IntakeConstants, IntakeInv, NEW t \in BatchTasks,
           \/ Intake!ClaimStale(t)
           \/ Intake!StopAfterClaim(t)
           \/ Intake!Sent(t)
    PROVE  IntakeInv'
<1>1. IntakeTyped
  BY DEF IntakeInv, Intake!TypeOK, IntakeTyped
<1>2. /\ Intake!Again(t) \/ Intake!Over(t)
      /\ UNCHANGED <<faults, batch, batchLine, released>>
  BY DEF Intake!ClaimStale, Intake!StopAfterClaim, Intake!Sent
<1>3. /\ batchTask' \in [BatchTasks -> {"none", "queued", "closing", "sending"}]
      /\ tries' \in [BatchTasks -> 0 .. BatchRetry]
      /\ batchTask'[t] \in {"none", "queued"}
      /\ \A u \in BatchTasks : u # t => batchTask'[u] = batchTask[u]
  BY <1>1, <1>2, AgainMoves
<1>4. Intake!In("processing")' = Intake!In("processing")
  BY <1>2 DEF Intake!In
<1>5. Intake!TypeOK'
  BY <1>2, <1>3, <1>4 DEF IntakeInv, Intake!TypeOK
<1>6. ClaimOwnsBatch'
  BY <1>2, <1>3, <1>4 DEF IntakeInv, ClaimOwnsBatch
<1>7. batchTask[t] = "closing" => "stop" \in faults
  BY DEF Intake!ClaimStale, Intake!StopAfterClaim, Intake!Sent
<1>8. batch = "pending" => batchTask[t] # "queued"
  BY DEF Intake!ClaimStale, Intake!StopAfterClaim, Intake!Sent, Intake!Claimable
<1>9. Intake!SomebodyIsAtIt'
  BY <1>2, <1>3, <1>4, <1>7, <1>8 DEF IntakeInv, Intake!SomebodyIsAtIt
<1> QED
  BY <1>5, <1>6, <1>9 DEF IntakeInv

LEMMA CloseKeepsIntake ==
    ASSUME IntakeConstants, IntakeInv, NEW t \in BatchTasks,
           Intake!Close(t) \/ Intake!Rejected(t)
    PROVE  IntakeInv'
<1>1. IntakeTyped
  BY DEF IntakeInv, Intake!TypeOK, IntakeTyped
<1>2. /\ Intake!Again(t) \/ Intake!Over(t)
      /\ batchTask[t] \in {"closing", "sending"}
      /\ batch' \in {"completed", "failed"}
      /\ UNCHANGED <<faults, released>>
  BY DEF Intake!Close, Intake!Rejected, Intake!Outcome
<1>3. /\ batchTask' \in [BatchTasks -> {"none", "queued", "closing", "sending"}]
      /\ tries' \in [BatchTasks -> 0 .. BatchRetry]
      /\ batchTask'[t] \in {"none", "queued"}
      /\ \A u \in BatchTasks : u # t => batchTask'[u] = batchTask[u]
  BY <1>1, <1>2, AgainMoves
<1>4. /\ batchLine' \in [Lines -> {"pending", "processing", "completed", "failed"}]
      /\ \A l \in Lines : batchLine'[l] # "processing"
  <2>1. CASE Intake!Close(t)
    BY <1>1, <2>1 DEF Intake!Close, IntakeTyped, IntakeInv, ClaimOwnsBatch, Intake!In
  <2>2. CASE Intake!Rejected(t)
    BY <1>1, <2>2 DEF Intake!Rejected, IntakeTyped
  <2> QED
    BY <2>1, <2>2
<1>5. \A u \in BatchTasks : batchTask'[u] \notin {"closing", "sending"}
  BY <1>2, <1>3 DEF IntakeInv, Intake!SomebodyIsAtIt
<1>6. Intake!In("processing")' = {}
  BY <1>4 DEF Intake!In
<1>7. Intake!TypeOK'
  BY <1>1, <1>2, <1>3, <1>4, <1>6 DEF IntakeTyped, Intake!TypeOK
<1> QED
  BY <1>2, <1>5, <1>7 DEF IntakeInv, ClaimOwnsBatch, Intake!SomebodyIsAtIt

LEMMA SettleKeepsIntake ==
    ASSUME IntakeConstants, IntakeInv, NEW l \in Lines, NEW to \in {"completed", "failed"},
           Intake!Settle(l, to)
    PROVE  IntakeInv'
<1>1. IntakeTyped
  BY DEF IntakeInv, Intake!TypeOK, IntakeTyped
<1>2. /\ batchLine[l] = "processing"
      /\ \A t \in BatchTasks : batchTask[t] # "sending"
      /\ UNCHANGED <<faults, batchTask, tries, released>>
  BY DEF Intake!Settle
<1>3. batch = "processing" /\ \A t \in BatchTasks : batchTask[t] # "closing"
  BY <1>2 DEF IntakeInv, Intake!TypeOK, ClaimOwnsBatch, Intake!In
<1>4. /\ batchLine' \in [Lines -> {"pending", "processing", "completed", "failed"}]
      /\ Intake!In("processing")' = Intake!In("processing") \ {l}
  BY <1>1, <1>2 DEF Intake!Settle, IntakeTyped, Intake!In
<1>5. CASE Intake!In("processing") = {l}
  <2>1. batch' \in {"completed", "failed"}
    BY <1>5 DEF Intake!Settle, Intake!Outcome
  <2>2. Intake!TypeOK'
    BY <1>1, <1>2, <1>4, <1>5, <2>1 DEF IntakeTyped, Intake!TypeOK
  <2> QED
    BY <1>2, <1>3, <2>1, <2>2 DEF IntakeInv, ClaimOwnsBatch, Intake!SomebodyIsAtIt
<1>6. CASE Intake!In("processing") # {l}
  <2>1. batch' = "processing"
    BY <1>3, <1>6 DEF Intake!Settle
  <2>2. Intake!In("processing")' # {}
    BY <1>2, <1>4, <1>6 DEF Intake!In
  <2>3. Intake!TypeOK'
    BY <1>1, <1>2, <1>4, <2>1 DEF IntakeTyped, Intake!TypeOK
  <2> QED
    BY <1>2, <1>3, <2>1, <2>2, <2>3 DEF IntakeInv, ClaimOwnsBatch, Intake!SomebodyIsAtIt
<1> QED
  BY <1>5, <1>6

LEMMA NextKeepsIntake ==
    ASSUME IntakeConstants, IntakeInv, [Intake!Next]_(Intake!vars)
    PROVE  IntakeInv'
<1>1. CASE UNCHANGED Intake!vars
  BY <1>1 DEF Intake!vars, IntakeInv, Intake!TypeOK, Intake!SomebodyIsAtIt, ClaimOwnsBatch,
              Intake!In
<1>2. CASE Intake!Next
  BY <1>2, CreateKeepsIntake, RetryKeepsIntake, ClaimKeepsIntake, EndKeepsIntake,
     CloseKeepsIntake, SettleKeepsIntake DEF Intake!Next
<1> QED
  BY <1>1, <1>2

\* CreatePayroll, ProcessPayrollTask and RetryFailedItems, for any lines, tasks, retries and
\* faults: a batch that was queued or claimed has the task it waits for, and one at a time.
THEOREM BatchAlwaysAttended ==
    ASSUME IntakeConstants
    PROVE  Intake!Spec => [](Intake!TypeOK /\ Intake!SomebodyIsAtIt)
<1>1. Intake!Init => IntakeInv
  BY DEF Intake!Init, IntakeInv, Intake!TypeOK, Intake!SomebodyIsAtIt, ClaimOwnsBatch,
         Intake!In, IntakeConstants, Intake!BatchIntakeConstants
<1>2. IntakeInv /\ [Intake!Next]_(Intake!vars) => IntakeInv'
  BY NextKeepsIntake
<1>3. IntakeInv => Intake!TypeOK /\ Intake!SomebodyIsAtIt
  BY DEF IntakeInv
<1> QED
  BY <1>1, <1>2, <1>3, PTL DEF Intake!Spec

-----------------------------------------------------------------------------
(* The composition: a part is moved by its own steps and left alone by the  *)
(* others.                                                                  *)

LEMMA IntakeIsAPart == WorkSpec => Intake!Spec
<1>1. WorkInit => Intake!Init
  BY DEF WorkInit
<1>2. [WorkNext]_workVars => [Intake!Next]_(Intake!vars)
  BY DEF WorkNext, workVars, intakeVars, Intake!vars
<1> QED
  BY <1>1, <1>2, PTL DEF WorkSpec, Intake!Spec

LEMMA BVNIsAPart == WorkSpec => BVN!Spec
<1>1. WorkInit => BVN!Init
  BY DEF WorkInit
<1>2. [WorkNext]_workVars => [BVN!Next]_(BVN!vars)
  BY DEF WorkNext, workVars, bvnVars, BVN!vars
<1> QED
  BY <1>1, <1>2, PTL DEF WorkSpec, BVN!Spec

\* ProcessPayrollTask and ProcessBVNTask: a batch on its way always has somebody at it, and
\* a BVN check keeps its outcome and is not asked again about a definitive one.
THEOREM WorkAlwaysKept == WorkSpec => WorkIsKept
  BY BackgroundWorkConstants, IntakeIsAPart, BVNIsAPart, BatchAlwaysAttended,
     CheckAlwaysKept, PTL DEF WorkIsKept, IntakeConstants, BVNConstants
=============================================================================
