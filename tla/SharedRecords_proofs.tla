------------------------- MODULE SharedRecords_proofs -------------------------
(* Proofs about the records overlapping and repeated requests share: the    *)
(* ledger, for any callers, requests, charts of accounts and amounts; and   *)
(* an idempotency key, for any number of requests with it and any bodies,   *)
(* while handlers are faster than its lock.  The variables of the ledger    *)
(* are those of Ledger itself.                                              *)
EXTENDS SharedRecords, Sums_proofs

-----------------------------------------------------------------------------
(* The inductive invariant.                                                 *)

Labels == {"find", "create", "validate", "insert", "commit", "done", "refused"}

AccountSet == [identity : Identities, by : Txns \cup {Earlier}]

\* The rows and variables have their types.
Rows ==
    /\ \A t \in Txns : req[t] \in Requests[t]
    /\ pc \in [Txns -> Labels]
    /\ line \in [Txns -> Nat]
    /\ using \in [Txns -> Seq(AccountSet)]
    /\ created \in [Txns -> SUBSET AccountSet]
    /\ header \in [Txns -> BOOLEAN]
    /\ accounts \subseteq AccountSet
    /\ crashes \in 0 .. MaxCrashes

\* A transaction takes its lines in order and has an account for each before it
\* inserts, which it only does for a posting that was found valid.
Order(t) ==
    /\ line[t] = Len(using[t]) + 1
    /\ pc[t] \in {"find", "create"} => line[t] <= Len(Lines(t))
    /\ pc[t] \notin {"find", "create"} => line[t] = Len(Lines(t)) + 1
    /\ pc[t] \in {"insert", "commit"} => ValidatePosting(Lines(t))
    /\ header[t] => pc[t] = "commit"

\* The accounts a transaction uses are those of its lines, and are committed or are
\* rows of its own that will be when it commits; it has none yet for the one it creates.
UsesItsAccounts(t) ==
    /\ \A a \in created[t] : a.by = t
    /\ \A i \in DOMAIN using[t] :
        /\ using[t][i].identity = Identity(Lines(t)[i])
        /\ pc[t] # "refused" => using[t][i] \in accounts \cup created[t]
    /\ pc[t] = "create" => \A a \in created[t] : a.identity # Wanted(t)

\* The unique index on accounts covers the rows not yet committed.
RowsUnique ==
    \A t, u \in Txns : \A a \in accounts \cup created[t], b \in accounts \cup created[u] :
        a.identity = b.identity => a = b

\* So does the one on keys: a key whose header is inserted is nobody else's.
KeysUnique == \A t \in Txns : header[t] => KeyIsNew(t) /\ KeyFree(t)

\* A posting is of a transaction that is done, and holds what ValidatePosting let by.
PostingsSound ==
    /\ IsFiniteSet(postings)
    /\ \A p \in postings :
        /\ p.id \in Txns /\ pc[p.id] = "done"
        /\ IsFiniteSet(p.entries)
        /\ \A e \in p.entries : e.amount \in Int /\ e.dir \in {"debit", "credit"}
    /\ \A p, q \in postings : p.id = q.id => p = q

LedgerIInv ==
    /\ Rows /\ RowsUnique /\ KeysUnique /\ PostingsSound /\ PostedOnce /\ OneAccountEach
    /\ \A t \in Txns : Order(t) /\ UsesItsAccounts(t)

\* A step leaves transaction u where it was.
Untouched(u) ==
    /\ pc'[u] = pc[u] /\ line'[u] = line[u] /\ using'[u] = using[u]
    /\ created'[u] = created[u] /\ header'[u] = header[u]

-----------------------------------------------------------------------------
(* Initial states and the steps of a transaction.                           *)

LEMMA LinesTyped ==
    ASSUME Rows, NEW t \in Txns
    PROVE  Lines(t) \in Seq(LineSet) /\ Len(Lines(t)) \in Nat /\ Len(Lines(t)) >= 1
<1>1. Lines(t) \in Seq(LineSet) /\ Lines(t) # <<>>
  BY LedgerConstants DEF Rows, Lines
<1> QED
  BY <1>1

LEMMA IdentityTyped ==
    ASSUME Rows, NEW t \in Txns, NEW i \in DOMAIN Lines(t)
    PROVE  /\ Identity(Lines(t)[i]) \in Identities
           /\ Lines(t)[i].amount \in Int
           /\ Identity(Lines(t)[i])[2] = Lines(t)[i].cur
<1>1. Lines(t)[i] \in LineSet
  BY LinesTyped
<1> QED
  BY <1>1 DEF LineSet, Identity, Identities

LEMMA InitLedger == Init => LedgerIInv
<1> SUFFICES ASSUME Init
             PROVE  LedgerIInv
  OBVIOUS
<1>1. PICK I \in Charts : accounts = {[identity |-> i, by |-> Earlier] : i \in I}
  BY DEF Init
<1>2. Rows
  <2>1. accounts \subseteq AccountSet
    BY <1>1, LedgerConstants DEF AccountSet
  <2>2. \A t \in Txns : req[t] \in Requests[t]
    BY DEF Init
  <2>3. <<>> \in Seq(AccountSet) /\ {} \in SUBSET AccountSet
    OBVIOUS
  <2> QED
    BY <2>1, <2>2, <2>3, LedgerConstants DEF Init, Rows, Labels
<1>3. OneAccountEach
  BY <1>1 DEF OneAccountEach
<1>4. \A t \in Txns : Order(t)
  BY <1>2, LinesTyped DEF Init, Order
<1>5. \A t \in Txns : UsesItsAccounts(t)
  BY DEF Init, UsesItsAccounts
<1>6. RowsUnique
  BY <1>3 DEF Init, RowsUnique, OneAccountEach
<1>7. KeysUnique /\ PostedOnce
  BY DEF Init, KeysUnique, PostedOnce
<1>8. PostingsSound
  BY FS_EmptySet DEF Init, PostingsSound
<1> QED
  BY <1>2, <1>3, <1>4, <1>5, <1>6, <1>7, <1>8 DEF LedgerIInv

\* What other transactions did stays as it was, and t gets its new label.
LEMMA GotoPc ==
    ASSUME Rows, NEW t \in Txns, NEW l \in Labels, Goto(t, l)
    PROVE  pc' \in [Txns -> Labels] /\ pc'[t] = l /\ \A u \in Txns \ {t} : pc'[u] = pc[u]
  BY DEF Rows, Goto

LEMMA OthersStay ==
    ASSUME NEW u \in Txns, Order(u), UsesItsAccounts(u), req' = req,
           accounts \subseteq accounts', Untouched(u)
    PROVE  Order(u)' /\ UsesItsAccounts(u)'
<1>1. Order(u)'
  BY DEF Order, Untouched, Lines
<1>2. UsesItsAccounts(u)'
  BY DEF UsesItsAccounts, Untouched, Lines, Wanted
<1> QED
  BY <1>1, <1>2

\* A transaction that is rolled back leaves nothing behind.
LEMMA RollbackStep ==
    ASSUME LedgerIInv, NEW t \in Txns, pc[t] \notin {"done", "refused"}, Rollback(t),
           crashes' \in 0 .. MaxCrashes
    PROVE  LedgerIInv'
<1> USE DEF LedgerIInv
<1>1. pc' \in [Txns -> Labels] /\ pc'[t] = "find" /\ \A u \in Txns \ {t} : pc'[u] = pc[u]
  BY GotoPc DEF Rollback, Labels
<1>2. /\ line' \in [Txns -> Nat] /\ line'[t] = 1
      /\ using' \in [Txns -> Seq(AccountSet)] /\ using'[t] = <<>>
      /\ \A u \in Txns \ {t} : line'[u] = line[u] /\ using'[u] = using[u]
  BY DEF Rows, Rollback
<1>3. /\ created' \in [Txns -> SUBSET AccountSet] /\ created'[t] = {}
      /\ \A u \in Txns \ {t} : created'[u] = created[u]
  BY DEF Rows, Rollback
<1>4. /\ header' \in [Txns -> BOOLEAN] /\ header'[t] = FALSE
      /\ \A u \in Txns \ {t} : header'[u] = header[u]
  BY DEF Rows, Rollback
<1>5. req' = req /\ accounts' = accounts /\ postings' = postings
  BY DEF Rollback
<1>6. Rows'
  BY <1>1, <1>2, <1>3, <1>4, <1>5 DEF Rows
<1>7. Order(t)'
  <2>1. Len(Lines(t)) >= 1
    BY LinesTyped
  <2> QED
    BY <1>1, <1>2, <1>4, <1>5, <2>1 DEF Order, Lines
<1>8. UsesItsAccounts(t)'
  BY <1>1, <1>2, <1>3 DEF UsesItsAccounts
<1>13. \A u \in Txns \ {t} : Order(u)' /\ UsesItsAccounts(u)'
  <2> TAKE u \in Txns \ {t}
  <2>1. Untouched(u)
    BY <1>1, <1>2, <1>3, <1>4 DEF Untouched
  <2> QED
    BY <1>5, <2>1, OthersStay
<1>9. RowsUnique'
  <2>1. \A u \in Txns : created'[u] \subseteq created[u]
    BY <1>3
  <2> QED
    BY <1>5, <2>1 DEF RowsUnique
<1>10. KeysUnique'
  BY <1>4, <1>5 DEF KeysUnique, KeyIsNew, KeyFree
<1>11. PostingsSound'
  BY <1>1, <1>5 DEF PostingsSound
<1>12. PostedOnce' /\ OneAccountEach'
  BY <1>5 DEF PostedOnce, OneAccountEach
<1> QED
  BY <1>6, <1>7, <1>8, <1>9, <1>10, <1>11, <1>12, <1>13

\* The next line's account is found or was just created.
LEMMA UsesStep ==
    ASSUME LedgerIInv, NEW t \in Txns, pc[t] \in {"find", "create"}, NEW a \in AccountSet,
           a.identity = Wanted(t), Uses(t, a), req' = req, accounts' = accounts,
           header' = header, created'[t] \in SUBSET AccountSet,
           created[t] \subseteq created'[t], a \in accounts \cup created'[t],
           \A b \in created'[t] : b.by = t
    PROVE  /\ line' \in [Txns -> Nat] /\ using' \in [Txns -> Seq(AccountSet)]
           /\ pc' \in [Txns -> Labels]
           /\ \A u \in Txns \ {t} : pc'[u] = pc[u] /\ line'[u] = line[u] /\ using'[u] = using[u]
           /\ pc'[t] \in {"find", "validate"}
           /\ Order(t)' /\ UsesItsAccounts(t)'
<1> USE DEF LedgerIInv
<1>1. PICK l \in {"find", "validate"} :
        Goto(t, l) /\ l = IF line[t] = Len(Lines(t)) THEN "validate" ELSE "find"
  BY DEF Uses
<1>2. pc' \in [Txns -> Labels] /\ pc'[t] = l /\ \A u \in Txns \ {t} : pc'[u] = pc[u]
  BY <1>1, GotoPc DEF Labels
<1>3. line' \in [Txns -> Nat] /\ line'[t] = line[t] + 1 /\ \A u \in Txns \ {t} : line'[u] = line[u]
  BY DEF Rows, Uses
<1>4. /\ using' \in [Txns -> Seq(AccountSet)] /\ using'[t] = Append(using[t], a)
      /\ \A u \in Txns \ {t} : using'[u] = using[u]
  BY DEF Rows, Uses
<1>5. using[t] \in Seq(AccountSet) /\ line[t] \in Nat /\ Len(using[t]) \in Nat
  BY DEF Rows
<1>6. /\ Len(using'[t]) = Len(using[t]) + 1
      /\ \A i \in DOMAIN using'[t] :
            \/ i \in DOMAIN using[t] /\ using'[t][i] = using[t][i]
            \/ i = line[t] /\ using'[t][i] = a
  <2>1. line[t] = Len(using[t]) + 1
    BY DEF Order
  <2> QED
    BY <1>4, <1>5, <2>1
<1>7. Lines(t)' = Lines(t)
  BY DEF Lines
<1>8. Order(t)'
  <2>1. Len(Lines(t)) \in Nat
    BY LinesTyped
  <2>2. header'[t] => FALSE
    BY DEF Order
  <2>3. line[t] = Len(using[t]) + 1 /\ line[t] <= Len(Lines(t))
    BY DEF Order
  <2>4. line'[t] = Len(using'[t]) + 1
    BY <1>3, <1>5, <1>6, <2>3
  <2>5. pc'[t] \in {"find", "create"} => line'[t] <= Len(Lines(t))
    BY <1>1, <1>2, <1>3, <1>5, <2>1, <2>3
  <2>6. pc'[t] \notin {"find", "create"} => line'[t] = Len(Lines(t)) + 1
    BY <1>1, <1>2, <1>3
  <2>7. pc'[t] \notin {"insert", "commit"}
    BY <1>2
  <2> QED
    BY <1>7, <2>2, <2>4, <2>5, <2>6, <2>7 DEF Order
<1>9. UsesItsAccounts(t)'
  <2>1. pc'[t] # "create"
    BY <1>2
  <2>2. ASSUME NEW i \in DOMAIN using'[t]
        PROVE  /\ using'[t][i].identity = Identity(Lines(t)[i])
               /\ using'[t][i] \in accounts \cup created'[t]
    <3>1. CASE i \in DOMAIN using[t] /\ using'[t][i] = using[t][i]
      BY <3>1 DEF UsesItsAccounts
    <3>2. CASE i = line[t] /\ using'[t][i] = a
      BY <3>2 DEF Wanted
    <3> QED
      BY <1>6, <3>1, <3>2
  <2> QED
    BY <1>7, <2>1, <2>2 DEF UsesItsAccounts
<1> QED
  BY <1>2, <1>3, <1>4, <1>8, <1>9

\* What a step that touches no committed row and no header keeps.
LEMMA TablesStay ==
    ASSUME LedgerIInv, UNCHANGED <<req, header, accounts, postings>>,
           \A u \in Txns : pc[u] = "done" => pc'[u] = "done"
    PROVE  KeysUnique' /\ PostingsSound' /\ PostedOnce' /\ OneAccountEach'
<1> USE DEF LedgerIInv
<1>1. KeysUnique'
  BY DEF KeysUnique, KeyIsNew, KeyFree
<1>2. PostingsSound'
  BY DEF PostingsSound
<1>3. PostedOnce' /\ OneAccountEach'
  BY DEF PostedOnce, OneAccountEach
<1> QED
  BY <1>1, <1>2, <1>3

LEMMA FindAccountStep ==
    ASSUME LedgerIInv, NEW t \in Txns, FindAccount(t)
    PROVE  LedgerIInv'
<1> USE DEF LedgerIInv
<1>1. pc[t] = "find" /\ UNCHANGED <<req, created, header, accounts, postings, crashes>>
  BY DEF FindAccount
<1>2. RowsUnique'
  BY <1>1 DEF RowsUnique
<1>3. CASE \E a \in accounts \cup created[t] : a.identity = Wanted(t) /\ Uses(t, a)
  <2>1. PICK a \in accounts \cup created[t] : a.identity = Wanted(t) /\ Uses(t, a)
    BY <1>3
  <2>2. created[t] \in SUBSET AccountSet /\ a \in AccountSet
        /\ \A b \in created[t] : b.by = t
    BY DEF Rows, UsesItsAccounts
  <2>3. /\ line' \in [Txns -> Nat] /\ using' \in [Txns -> Seq(AccountSet)]
        /\ pc' \in [Txns -> Labels]
        /\ \A u \in Txns \ {t} : pc'[u] = pc[u] /\ line'[u] = line[u] /\ using'[u] = using[u]
        /\ Order(t)' /\ UsesItsAccounts(t)'
    BY <1>1, <2>1, <2>2, UsesStep
  <2>4. Rows'
    BY <1>1, <2>3 DEF Rows
  <2>5. \A u \in Txns \ {t} : Order(u)' /\ UsesItsAccounts(u)'
    BY <1>1, <2>3, OthersStay DEF Untouched
  <2>6. KeysUnique' /\ PostingsSound' /\ PostedOnce' /\ OneAccountEach'
    BY <1>1, <2>3, TablesStay
  <2> QED
    BY <1>2, <2>3, <2>4, <2>5, <2>6
<1>4. CASE /\ \A a \in accounts \cup created[t] : a.identity # Wanted(t)
           /\ Goto(t, "create")
           /\ UNCHANGED <<line, using>>
  <2>1. /\ pc' \in [Txns -> Labels] /\ pc'[t] = "create"
        /\ \A u \in Txns \ {t} : pc'[u] = pc[u]
    BY <1>4, GotoPc DEF Labels
  <2>2. Rows'
    BY <1>1, <1>4, <2>1 DEF Rows
  <2>3. Order(t)'
    BY <1>1, <1>4, <2>1 DEF Order, Lines
  <2>4. UsesItsAccounts(t)'
    BY <1>1, <1>4, <2>1 DEF UsesItsAccounts, Lines, Wanted
  <2>5. \A u \in Txns \ {t} : Order(u)' /\ UsesItsAccounts(u)'
    BY <1>1, <1>4, <2>1, OthersStay DEF Untouched
  <2>6. KeysUnique' /\ PostingsSound' /\ PostedOnce' /\ OneAccountEach'
    BY <1>1, <2>1, TablesStay
  <2> QED
    BY <1>2, <2>2, <2>3, <2>4, <2>5, <2>6
<1> QED
  BY <1>3, <1>4 DEF FindAccount

LEMMA CreateAccountStep ==
    ASSUME LedgerIInv, NEW t \in Txns, CreateAccount(t)
    PROVE  LedgerIInv'
<1> USE DEF LedgerIInv
<1> DEFINE a == [identity |-> Wanted(t), by |-> t]
<1>1. pc[t] = "create" /\ UNCHANGED <<req, header, accounts, postings, crashes>>
  BY DEF CreateAccount
<1>2. a \in AccountSet /\ a.identity = Wanted(t) /\ a.by = t
  <2>1. line[t] \in DOMAIN Lines(t)
    BY <1>1, LinesTyped DEF Order, Rows
  <2>2. Wanted(t) \in Identities
    BY <2>1, IdentityTyped DEF Wanted
  <2> QED
    BY <2>2 DEF AccountSet
<1>3. /\ created' \in [Txns -> SUBSET AccountSet] /\ created'[t] = created[t] \cup {a}
      /\ \A u \in Txns \ {t} : created'[u] = created[u]
  <2>1. created' = [created EXCEPT ![t] = @ \cup {a}]
    BY DEF CreateAccount
  <2> HIDE DEF a
  <2> QED
    BY <1>2, <2>1 DEF Rows
<1>4. Uses(t, a)
  BY DEF CreateAccount
<1>5. /\ \A u \in Txns \ {t} : \A b \in created[u] : b.identity # a.identity
      /\ \A b \in accounts \cup created[t] : b.identity # a.identity
  BY <1>1, <1>2 DEF CreateAccount, AccountFree, AccountIsNew, UsesItsAccounts
<1> HIDE DEF a
<1>6. /\ line' \in [Txns -> Nat] /\ using' \in [Txns -> Seq(AccountSet)]
      /\ pc' \in [Txns -> Labels]
      /\ \A u \in Txns \ {t} : pc'[u] = pc[u] /\ line'[u] = line[u] /\ using'[u] = using[u]
      /\ Order(t)' /\ UsesItsAccounts(t)'
  <2>1. created'[t] \in SUBSET AccountSet /\ created[t] \subseteq created'[t]
        /\ a \in accounts \cup created'[t]
    BY <1>3
  <2>2. \A b \in created'[t] : b.by = t
    BY <1>2, <1>3 DEF UsesItsAccounts
  <2> QED
    BY <1>1, <1>2, <1>4, <2>1, <2>2, UsesStep
<1>7. Rows'
  BY <1>1, <1>3, <1>6 DEF Rows
<1>8. RowsUnique'
  <2>1. \A u \in Txns : \A b \in accounts \cup created'[u] :
            b = a \/ (b \in accounts \cup created[u] /\ b.identity # a.identity)
    BY <1>3, <1>5
  <2> QED
    BY <1>1, <2>1 DEF RowsUnique
<1>9. \A u \in Txns \ {t} : Order(u)' /\ UsesItsAccounts(u)'
  BY <1>1, <1>3, <1>6, OthersStay DEF Untouched
<1>10. KeysUnique' /\ PostingsSound' /\ PostedOnce' /\ OneAccountEach'
  BY <1>1, <1>6, TablesStay
<1> QED
  BY <1>6, <1>7, <1>8, <1>9, <1>10

LEMMA FindPostingStep ==
    ASSUME LedgerIInv, NEW t \in Txns, FindPosting(t)
    PROVE  LedgerIInv'
<1> USE DEF LedgerIInv
<1>1. pc[t] = "validate" /\ ValidatePosting(Lines(t))
      /\ UNCHANGED <<req, line, using, created, header, accounts, postings, crashes>>
  BY DEF FindPosting
<1>2. PICK l \in {"commit", "insert"} : Goto(t, l)
  BY DEF FindPosting
<1>3. pc' \in [Txns -> Labels] /\ pc'[t] = l /\ \A u \in Txns \ {t} : pc'[u] = pc[u]
  BY <1>2, GotoPc DEF Labels
<1>4. Rows'
  BY <1>1, <1>3 DEF Rows
<1>5. Order(t)'
  BY <1>1, <1>3 DEF Order, Lines
<1>6. UsesItsAccounts(t)'
  BY <1>1, <1>3 DEF UsesItsAccounts, Lines
<1>7. \A u \in Txns \ {t} : Order(u)' /\ UsesItsAccounts(u)'
  BY <1>1, <1>3, OthersStay DEF Untouched
<1>8. RowsUnique'
  BY <1>1 DEF RowsUnique
<1>9. KeysUnique' /\ PostingsSound' /\ PostedOnce' /\ OneAccountEach'
  BY <1>1, <1>3, TablesStay
<1> QED
  BY <1>4, <1>5, <1>6, <1>7, <1>8, <1>9

LEMMA RefusePostingStep ==
    ASSUME LedgerIInv, NEW t \in Txns, RefusePosting(t)
    PROVE  LedgerIInv'
<1> USE DEF LedgerIInv
<1>1. pc[t] = "validate" /\ UNCHANGED <<req, line, using, header, accounts, postings, crashes>>
  BY DEF RefusePosting
<1>2. pc' \in [Txns -> Labels] /\ pc'[t] = "refused" /\ \A u \in Txns \ {t} : pc'[u] = pc[u]
  BY GotoPc DEF RefusePosting, Labels
<1>3. /\ created' \in [Txns -> SUBSET AccountSet] /\ created'[t] = {}
      /\ \A u \in Txns \ {t} : created'[u] = created[u]
  BY DEF Rows, RefusePosting
<1>4. Rows'
  BY <1>1, <1>2, <1>3 DEF Rows
<1>5. Order(t)'
  BY <1>1, <1>2 DEF Order, Lines
<1>6. UsesItsAccounts(t)'
  BY <1>1, <1>2, <1>3 DEF UsesItsAccounts, Lines
<1>7. \A u \in Txns \ {t} : Order(u)' /\ UsesItsAccounts(u)'
  BY <1>1, <1>2, <1>3, OthersStay DEF Untouched
<1>8. RowsUnique'
  <2>1. \A u \in Txns : created'[u] \subseteq created[u]
    BY <1>3
  <2> QED
    BY <1>1, <2>1 DEF RowsUnique
<1>9. KeysUnique' /\ PostingsSound' /\ PostedOnce' /\ OneAccountEach'
  BY <1>1, <1>2, TablesStay
<1> QED
  BY <1>4, <1>5, <1>6, <1>7, <1>8, <1>9

LEMMA InsertPostingStep ==
    ASSUME LedgerIInv, NEW t \in Txns, InsertPosting(t)
    PROVE  LedgerIInv'
<1> USE DEF LedgerIInv
<1>1. pc[t] = "insert" /\ KeyFree(t) /\ KeyIsNew(t)
      /\ UNCHANGED <<req, line, using, created, accounts, postings, crashes>>
  BY DEF InsertPosting
<1>2. pc' \in [Txns -> Labels] /\ pc'[t] = "commit" /\ \A u \in Txns \ {t} : pc'[u] = pc[u]
  BY GotoPc DEF InsertPosting, Labels
<1>3. header' \in [Txns -> BOOLEAN] /\ \A u \in Txns \ {t} : header'[u] = header[u]
  BY DEF Rows, InsertPosting
<1>4. Rows'
  BY <1>1, <1>2, <1>3 DEF Rows
<1>5. Order(t)'
  BY <1>1, <1>2 DEF Order, Lines
<1>6. UsesItsAccounts(t)'
  BY <1>1, <1>2 DEF UsesItsAccounts, Lines
<1>7. \A u \in Txns \ {t} : Order(u)' /\ UsesItsAccounts(u)'
  BY <1>1, <1>2, <1>3, OthersStay DEF Untouched
<1>8. RowsUnique'
  BY <1>1 DEF RowsUnique
<1>9. KeysUnique'
  BY <1>1, <1>3 DEF KeysUnique, KeyIsNew, KeyFree
<1>10. PostingsSound'
  BY <1>1, <1>2 DEF PostingsSound
<1>11. PostedOnce' /\ OneAccountEach'
  BY <1>1 DEF PostedOnce, OneAccountEach
<1> QED
  BY <1>4, <1>5, <1>6, <1>7, <1>8, <1>9, <1>10, <1>11

\* The entries of a valid posting.
LEMMA EntriesSound ==
    ASSUME LedgerIInv, NEW t \in Txns, pc[t] = "commit"
    PROVE  /\ IsFiniteSet(EntriesOf(t))
           /\ \A e \in EntriesOf(t) :
                /\ e.amount \in Int /\ e.amount > 0 /\ e.dir \in {"debit", "credit"}
                /\ e.cur = Lines(t)[1].cur /\ e.cur = e.account.identity[2]
                /\ e.account \in accounts \cup created[t]
<1> USE DEF LedgerIInv
<1> DEFINE m == [i \in DOMAIN Lines(t) |->
                    [line |-> i, account |-> using[t][i], dir |-> Lines(t)[i].dir,
                     amount |-> Lines(t)[i].amount, cur |-> Lines(t)[i].cur]]
<1>1. Lines(t) \in Seq(LineSet) /\ DOMAIN Lines(t) = 1 .. Len(Lines(t))
      /\ Len(Lines(t)) \in Nat
  BY LinesTyped
<1>2. IsFiniteSet(DOMAIN Lines(t))
  BY <1>1, FS_Interval
<1>3. EntriesOf(t) = {m[i] : i \in DOMAIN Lines(t)}
  BY DEF EntriesOf
<1>4. IsFiniteSet(EntriesOf(t))
  <2> HIDE DEF m
  <2> QED
    BY <1>2, <1>3, FiniteImage
<1>5. DOMAIN using[t] = DOMAIN Lines(t)
  <2>1. using[t] \in Seq(AccountSet)
    BY DEF Rows
  <2>2. line[t] = Len(using[t]) + 1 /\ line[t] = Len(Lines(t)) + 1
    BY DEF Order
  <2> QED
    BY <1>1, <2>1, <2>2
<1>6. ASSUME NEW i \in DOMAIN Lines(t)
      PROVE  /\ Lines(t)[i].amount \in Int /\ Lines(t)[i].amount > 0
             /\ Lines(t)[i].dir \in {"debit", "credit"} /\ Lines(t)[i].cur = Lines(t)[1].cur
             /\ Lines(t)[i].cur = using[t][i].identity[2]
             /\ using[t][i] \in accounts \cup created[t]
  <2>1. ValidatePosting(Lines(t))
    BY DEF Order
  <2>2. using[t][i].identity = Identity(Lines(t)[i]) /\ using[t][i] \in accounts \cup created[t]
    BY <1>5 DEF UsesItsAccounts
  <2> QED
    BY <2>1, <2>2, IdentityTyped DEF ValidatePosting
<1>7. ASSUME NEW e \in EntriesOf(t)
      PROVE  /\ e.amount \in Int /\ e.amount > 0 /\ e.dir \in {"debit", "credit"}
             /\ e.cur = Lines(t)[1].cur /\ e.cur = e.account.identity[2]
             /\ e.account \in accounts \cup created[t]
  <2>1. PICK i \in DOMAIN Lines(t) :
            /\ e.account = using[t][i] /\ e.dir = Lines(t)[i].dir
            /\ e.amount = Lines(t)[i].amount /\ e.cur = Lines(t)[i].cur
    BY DEF EntriesOf
  <2> QED
    BY <1>6, <2>1
<1> QED
  BY <1>4, <1>7

LEMMA CommitStep ==
    ASSUME LedgerIInv, NEW t \in Txns, Commit(t)
    PROVE  LedgerIInv'
<1> USE DEF LedgerIInv
<1> DEFINE n == [id |-> t, key |-> req[t].key, entries |-> EntriesOf(t)]
<1>1. pc[t] = "commit" /\ accounts' = accounts \cup created[t]
      /\ UNCHANGED <<req, line, using, crashes>>
  BY DEF Commit
<1>2. pc' \in [Txns -> Labels] /\ pc'[t] = "done" /\ \A u \in Txns \ {t} : pc'[u] = pc[u]
  BY GotoPc DEF Commit, Labels
<1>3. /\ created' \in [Txns -> SUBSET AccountSet] /\ created'[t] = {}
      /\ \A u \in Txns \ {t} : created'[u] = created[u]
  BY DEF Rows, Commit
<1>4. /\ header' \in [Txns -> BOOLEAN] /\ header'[t] = FALSE
      /\ \A u \in Txns \ {t} : header'[u] = header[u]
  BY DEF Rows, Commit
<1>5. postings' = IF header[t] THEN postings \cup {n} ELSE postings
  BY DEF Commit
<1>6. n.id = t /\ n.key = req[t].key /\ n.entries = EntriesOf(t)
  OBVIOUS
<1>7. \A p \in postings : p.id # t
  BY <1>1 DEF PostingsSound
<1> HIDE DEF n
<1>8. Rows'
  BY <1>1, <1>2, <1>3, <1>4 DEF Rows
<1>9. Order(t)'
  BY <1>1, <1>2, <1>4 DEF Order, Lines
<1>10. UsesItsAccounts(t)'
  BY <1>1, <1>2, <1>3 DEF UsesItsAccounts, Lines
<1>11. \A u \in Txns \ {t} : Order(u)' /\ UsesItsAccounts(u)'
  BY <1>1, <1>2, <1>3, <1>4, OthersStay DEF Untouched
<1>12. RowsUnique' /\ OneAccountEach'
  <2>1. \A u \in Txns : created'[u] \subseteq created[u]
    BY <1>3
  <2>2. ASSUME NEW u \in Txns, NEW w \in Txns, NEW a \in accounts' \cup created'[u],
               NEW b \in accounts' \cup created'[w], a.identity = b.identity
        PROVE  a = b
    <3>1. PICK x \in Txns : a \in accounts \cup created[x]
      BY <1>1, <2>1
    <3>2. PICK y \in Txns : b \in accounts \cup created[y]
      BY <1>1, <2>1
    <3> QED
      BY <2>2, <3>1, <3>2 DEF RowsUnique
  <2> QED
    BY <2>2 DEF RowsUnique, OneAccountEach
<1>13. KeysUnique'
  BY <1>1, <1>4, <1>5, <1>6 DEF KeysUnique, KeyIsNew, KeyFree
<1>14. PostingsSound'
  <2>1. IsFiniteSet(postings')
    BY <1>5, FS_AddElement DEF PostingsSound
  <2>2. ASSUME NEW p \in postings'
        PROVE  /\ p.id \in Txns /\ pc'[p.id] = "done"
               /\ IsFiniteSet(p.entries)
               /\ \A e \in p.entries : e.amount \in Int /\ e.dir \in {"debit", "credit"}
    <3>1. CASE p \in postings
      BY <1>2, <1>7, <3>1 DEF PostingsSound
    <3>2. CASE p = n
      BY <1>1, <1>2, <1>6, <3>2, EntriesSound
    <3> QED
      BY <1>5, <3>1, <3>2
  <2>3. \A p, q \in postings' : p.id = q.id => p = q
    BY <1>5, <1>6, <1>7 DEF PostingsSound
  <2> QED
    BY <2>1, <2>2, <2>3 DEF PostingsSound
<1>15. PostedOnce'
  <2>1. \A p, q \in postings' : p.key = q.key => p = q
    BY <1>5, <1>6 DEF PostedOnce, KeysUnique, KeyIsNew
  <2>2. ASSUME NEW p \in postings', NEW e \in p.entries
        PROVE  e.account \in accounts'
    <3>1. CASE p \in postings
      BY <1>1, <3>1 DEF PostedOnce
    <3>2. CASE p = n
      BY <1>1, <1>6, <3>2, EntriesSound
    <3> QED
      BY <1>5, <3>1, <3>2
  <2> QED
    BY <2>1, <2>2 DEF PostedOnce
<1> QED
  BY <1>8, <1>9, <1>10, <1>11, <1>12, <1>13, <1>14, <1>15

LEMMA StepLedger == LedgerIInv /\ [Next]_vars => LedgerIInv'
<1> SUFFICES ASSUME LedgerIInv, [Next]_vars
             PROVE  LedgerIInv'
  OBVIOUS
<1>1. CASE UNCHANGED vars
  <2> USE <1>1 DEF LedgerIInv, vars
  <2>1. Rows' /\ RowsUnique' /\ PostedOnce' /\ OneAccountEach'
    BY DEF Rows, RowsUnique, PostedOnce, OneAccountEach
  <2>2. KeysUnique' /\ PostingsSound'
    BY DEF KeysUnique, PostingsSound, KeyIsNew, KeyFree
  <2>3. \A t \in Txns : Order(t)' /\ UsesItsAccounts(t)'
    BY OthersStay DEF Untouched
  <2> QED
    BY <2>1, <2>2, <2>3
<1>2. ASSUME NEW t \in Txns, Step(t)
      PROVE  LedgerIInv'
  <2>1. ASSUME AccountTaken(t) \/ KeyTaken(t)
        PROVE  LedgerIInv'
    <3>1. pc[t] \notin {"done", "refused"} /\ Rollback(t) /\ crashes' = crashes
      BY <2>1 DEF AccountTaken, KeyTaken
    <3>2. crashes' \in 0 .. MaxCrashes
      BY <3>1 DEF LedgerIInv, Rows
    <3> QED
      BY <3>1, <3>2, RollbackStep
  <2> QED
    BY <1>2, <2>1, FindAccountStep, CreateAccountStep, FindPostingStep, RefusePostingStep,
       InsertPostingStep, CommitStep DEF Step
<1>3. ASSUME NEW t \in Txns, Crash(t)
      PROVE  LedgerIInv'
  <2>1. pc[t] \notin {"done", "refused"} /\ Rollback(t) /\ crashes < MaxCrashes
        /\ crashes' = crashes + 1
    BY <1>3 DEF Crash
  <2>2. crashes' \in 0 .. MaxCrashes
    BY <2>1, LedgerConstants DEF LedgerIInv, Rows
  <2> QED
    BY <2>1, <2>2, RollbackStep
<1> QED
  BY <1>1, <1>2, <1>3 DEF Next

\* Spec with the fairness left out, which no safety property needs.
LEMMA LedgerSafety == Spec => Init /\ [][Next]_vars
  BY PTL DEF Spec

\* EnsureAccount and PostTransaction under concurrent callers: the rows of the
\* transactions that are open and the committed ones agree in every state.
THEOREM LedgerInvariant == Spec => []LedgerIInv
  BY InitLedger, StepLedger, LedgerSafety, PTL

-----------------------------------------------------------------------------
(* The balance of cash_settlement.                                          *)

(* The sums of the model, as sums of functions.                             *)

LEMMA AmountsSum ==
    ASSUME NEW S, IsFiniteSet(S)
    PROVE  MapThenSumSet(LAMBDA x : x.entry.amount, S)
           = SumOf([x \in S |-> x.entry.amount], S)
<1> DEFINE f == [x \in S |-> x.entry.amount]
           H(h) == h = [s \in SUBSET S |-> IF s = {} THEN 0
                                           ELSE Pick(s).entry.amount + h[s \ {Pick(s)}]]
           k == CHOOSE h : H(h)
<1>1. MapThenSumSet(LAMBDA x : x.entry.amount, S) = k[S]
  BY DEF MapThenSumSet, MapThenFoldSet, Pick
<1>2. \A s \in SUBSET S : s # {} => f[Pick(s)] = Pick(s).entry.amount
  BY PickIn
<1>3. \A h : H(h) <=> AddsOver(f, SUBSET S, h)
  BY <1>2 DEF AddsOver
<1> HIDE DEF H, f
<1>4. \E h : H(h)
  BY <1>3, SolutionExists
<1>5. H(k)
  BY <1>4, Zenon
<1> HIDE DEF k
<1>6. k[S] = SumOf(f, S)
  BY <1>3, <1>5, SumIs
<1> QED
  BY <1>1, <1>6 DEF f

LEMMA PaidOutSum ==
    ASSUME NEW S, IsFiniteSet(S)
    PROVE  MapThenSumSet(LAMBDA x : IF x.dir = "credit" THEN x.amount ELSE - x.amount, S)
           = SumOf([x \in S |-> IF x.dir = "credit" THEN x.amount ELSE - x.amount], S)
<1> DEFINE f == [x \in S |-> IF x.dir = "credit" THEN x.amount ELSE - x.amount]
           H(h) == h = [s \in SUBSET S |->
                          IF s = {} THEN 0
                          ELSE (IF Pick(s).dir = "credit" THEN Pick(s).amount
                                ELSE - Pick(s).amount) + h[s \ {Pick(s)}]]
           k == CHOOSE h : H(h)
<1>1. MapThenSumSet(LAMBDA x : IF x.dir = "credit" THEN x.amount ELSE - x.amount, S) = k[S]
  BY DEF MapThenSumSet, MapThenFoldSet, Pick
<1>2. \A s \in SUBSET S : s # {} =>
          f[Pick(s)] = IF Pick(s).dir = "credit" THEN Pick(s).amount ELSE - Pick(s).amount
  BY PickIn
<1>3. \A h : H(h) <=> AddsOver(f, SUBSET S, h)
  BY <1>2 DEF AddsOver
<1> HIDE DEF H, f
<1>4. \E h : H(h)
  BY <1>3, SolutionExists
<1>5. H(k)
  BY <1>4, Zenon
<1> HIDE DEF k
<1>6. k[S] = SumOf(f, S)
  BY <1>3, <1>5, SumIs
<1> QED
  BY <1>1, <1>6 DEF f

LEMMA PostingsSum ==
    ASSUME NEW i, NEW S, IsFiniteSet(S)
    PROVE  MapThenSumSet(LAMBDA x : PaidOut(x, i), S)
           = SumOf([x \in S |-> PaidOut(x, i)], S)
<1> DEFINE f == [x \in S |-> PaidOut(x, i)]
           H(h) == h = [s \in SUBSET S |-> IF s = {} THEN 0
                                           ELSE PaidOut(Pick(s), i) + h[s \ {Pick(s)}]]
           k == CHOOSE h : H(h)
<1>1. MapThenSumSet(LAMBDA x : PaidOut(x, i), S) = k[S]
  BY DEF MapThenSumSet, MapThenFoldSet, Pick
<1>2. \A s \in SUBSET S : s # {} => f[Pick(s)] = PaidOut(Pick(s), i)
  BY PickIn
<1>3. \A h : H(h) <=> AddsOver(f, SUBSET S, h)
  BY <1>2 DEF AddsOver
<1> HIDE DEF H, f
<1>4. \E h : H(h)
  BY <1>3, SolutionExists
<1>5. H(k)
  BY <1>4, Zenon
<1> HIDE DEF k
<1>6. k[S] = SumOf(f, S)
  BY <1>3, <1>5, SumIs
<1> QED
  BY <1>1, <1>6 DEF f

\* The entries of a posting, and those of some postings, as AllEntries names them.
Named(p) == {[posting |-> p.id, entry |-> e] : e \in p.entries}
Signed(x) == IF x.entry.dir = "credit" THEN x.entry.amount ELSE - x.entry.amount

LEMMA AllEntriesSound ==
    ASSUME LedgerIInv
    PROVE  /\ IsFiniteSet(AllEntries)
           /\ \A x \in AllEntries :
                /\ x.entry.amount \in Int /\ x.entry.dir \in {"debit", "credit"}
                /\ Signed(x) \in Int /\ x.entry.account \in accounts
<1> USE DEF LedgerIInv
<1>1. ASSUME NEW p \in postings
      PROVE  IsFiniteSet(Named(p))
  <2> DEFINE m == [e \in p.entries |-> [posting |-> p.id, entry |-> e]]
  <2>1. IsFiniteSet(p.entries)
    BY DEF PostingsSound
  <2>2. Named(p) = {m[e] : e \in p.entries}
    BY DEF Named
  <2> HIDE DEF m
  <2> QED
    BY <2>1, <2>2, FiniteImage
<1>2. IsFiniteSet({Named(p) : p \in postings})
  <2> DEFINE m == [p \in postings |-> Named(p)]
  <2>1. {Named(p) : p \in postings} = {m[p] : p \in postings}
    OBVIOUS
  <2>2. IsFiniteSet(postings)
    BY DEF PostingsSound
  <2> HIDE DEF m
  <2> QED
    BY <2>1, <2>2, FiniteImage
<1>3. AllEntries = UNION {Named(p) : p \in postings}
  BY DEF AllEntries, Named
<1>4. IsFiniteSet(AllEntries)
  BY <1>1, <1>2, <1>3, FS_UNION
<1>5. ASSUME NEW x \in AllEntries
      PROVE  /\ x.entry.amount \in Int /\ x.entry.dir \in {"debit", "credit"}
             /\ Signed(x) \in Int /\ x.entry.account \in accounts
  <2>1. PICK p \in postings : \E e \in p.entries : x.entry = e
    BY DEF AllEntries
  <2>2. x.entry.amount \in Int /\ x.entry.dir \in {"debit", "credit"}
    BY <2>1 DEF PostingsSound
  <2>3. x.entry.account \in accounts
    BY <2>1 DEF PostedOnce
  <2> QED
    BY <2>2, <2>3 DEF Signed
<1> QED
  BY <1>4, <1>5

\* Credits less debits are the sum of the signed amounts.
LEMMA BalanceIsSigned ==
    ASSUME LedgerIInv, NEW a
    PROVE  SideOf(a, "credit") - SideOf(a, "debit")
           = SumOf([x \in AllEntries |-> Signed(x)], {x \in AllEntries : x.entry.account = a})
<1> DEFINE A == {x \in AllEntries : x.entry.account = a}
           C == {x \in AllEntries : x.entry.account = a /\ x.entry.dir = "credit"}
           D == {x \in AllEntries : x.entry.account = a /\ x.entry.dir = "debit"}
           sg == [x \in AllEntries |-> Signed(x)]
           c == [x \in C |-> x.entry.amount]
           d == [x \in D |-> x.entry.amount]
<1>1. IsFiniteSet(C) /\ IsFiniteSet(D)
  BY AllEntriesSound, FS_Subset
<1>2. SideOf(a, "credit") = SumOf(c, C)
  BY <1>1, AmountsSum DEF SideOf
<1>3. SideOf(a, "debit") = SumOf(d, D)
  BY <1>1, AmountsSum DEF SideOf
<1>4. Whole(sg, C) /\ Whole(sg, D) /\ Whole(d, D)
  BY AllEntriesSound DEF Whole
<1>5. \A x \in C : c[x] = sg[x]
  BY DEF Signed
<1>6. \A x \in D : sg[x] = - d[x]
  BY DEF Signed
<1>7. A = C \cup D /\ C \cap D = {}
  BY AllEntriesSound
<1> HIDE DEF A, C, D, sg, c, d
<1>8. SumOf(c, C) = SumOf(sg, C)
  BY <1>1, <1>5, SumSame
<1>9. SumOf(sg, D) = - SumOf(d, D)
  BY <1>1, <1>4, <1>6, SumNegative
<1>10. SumOf(sg, A) = SumOf(sg, C) + SumOf(sg, D)
  BY <1>1, <1>4, <1>7, SumUnion
<1>11. SumOf(sg, C) \in Int /\ SumOf(d, D) \in Int
  BY <1>1, <1>4, SumType
<1>12. SideOf(a, "credit") - SideOf(a, "debit") = SumOf(sg, A)
  BY <1>2, <1>3, <1>8, <1>9, <1>10, <1>11
<1> QED
  BY <1>12 DEF A, sg

\* What a posting pays out of an account is the sum of its signed amounts.
LEMMA PaidOutIsSigned ==
    ASSUME LedgerIInv, NEW a \in accounts, NEW p \in postings
    PROVE  /\ PaidOut(p, a.identity)
              = SumOf([x \in AllEntries |-> Signed(x)], {x \in Named(p) : x.entry.account = a})
           /\ PaidOut(p, a.identity) \in Int
<1> USE DEF LedgerIInv
<1> DEFINE P == {e \in p.entries : e.account.identity = a.identity}
           N == {x \in Named(p) : x.entry.account = a}
           m == [e \in P |-> [posting |-> p.id, entry |-> e]]
           g == [e \in P |-> IF e.dir = "credit" THEN e.amount ELSE - e.amount]
           sg == [x \in AllEntries |-> Signed(x)]
<1>1. IsFiniteSet(P)
  BY FS_Subset DEF PostingsSound
<1>2. PaidOut(p, a.identity) = SumOf(g, P)
  BY <1>1, PaidOutSum DEF PaidOut
<1>3. N = {m[e] : e \in P}
  <2>1. \A e \in p.entries : e.account.identity = a.identity <=> e.account = a
    BY DEF PostedOnce, OneAccountEach
  <2>2. ASSUME NEW x \in N
        PROVE  \E e \in P : x = m[e]
    <3>1. PICK e \in p.entries : x = [posting |-> p.id, entry |-> e]
      BY DEF Named
    <3>2. x.entry = e
      BY <3>1
    <3>3. e \in P
      BY <2>1, <3>2
    <3> QED
      BY <3>1, <3>3
  <2>3. ASSUME NEW e \in P
        PROVE  m[e] \in N
    <3>1. m[e] = [posting |-> p.id, entry |-> e] /\ e.account = a
      BY <2>1
    <3> QED
      BY <3>1 DEF Named
  <2> HIDE DEF N, m, P
  <2> QED
    BY <2>2, <2>3
<1>4. \A e, f \in P : m[e] = m[f] => e = f
  OBVIOUS
<1>5. \A e \in P : sg[m[e]] = g[e] /\ g[e] \in Int
  <2> TAKE e \in P
  <2>1. m[e] \in AllEntries /\ m[e].entry = e
    BY DEF AllEntries
  <2>2. sg[m[e]] = Signed(m[e]) /\ Signed(m[e]) = g[e]
    BY <2>1 DEF Signed
  <2>3. Signed(m[e]) \in Int
    BY <2>1, AllEntriesSound
  <2> QED
    BY <2>2, <2>3
<1>6. Whole(g, P)
  BY <1>5 DEF Whole
<1> HIDE DEF P, N, m, g, sg
<1>7. SumOf(sg, N) = SumOf(g, P)
  BY <1>1, <1>3, <1>4, <1>5, SumRename
<1>8. SumOf(g, P) \in Int
  BY <1>1, <1>6, SumType
<1> QED
  BY <1>2, <1>7, <1>8 DEF N, sg

LEMMA ExposureHolds == LedgerIInv => ExposureIsNet
<1> USE DEF LedgerIInv
<1> SUFFICES ASSUME LedgerIInv, NEW a \in accounts, a.identity[1] = "cash_settlement"
             PROVE  AccountBalance(a) =
                        MapThenSumSet(LAMBDA p : PaidOut(p, a.identity),
                                      {PostingOf(k) : k \in {q.key : q \in postings}})
  BY DEF ExposureIsNet
<1> DEFINE A(Q) == {x \in UNION {Named(p) : p \in Q} : x.entry.account = a}
           B(p) == {x \in Named(p) : x.entry.account = a}
           sg == [x \in AllEntries |-> Signed(x)]
           pay == [p \in postings |-> PaidOut(p, a.identity)]
           G == [Q \in SUBSET postings |-> SumOf(sg, A(Q))]
<1>1. IsFiniteSet(postings)
  BY DEF PostingsSound
<1>2. AllEntries = UNION {Named(p) : p \in postings}
  BY DEF AllEntries, Named
<1>3. AccountBalance(a) = SumOf(sg, A(postings))
  <2>1. AccountBalance(a) = SideOf(a, "credit") - SideOf(a, "debit")
    BY LedgerConstants DEF AccountBalance
  <2> QED
    BY <1>2, <2>1, BalanceIsSigned
<1>4. {PostingOf(k) : k \in {q.key : q \in postings}} = postings
  <2>1. \A p \in postings : PostingOf(p.key) = p
    BY DEF PostedOnce, PostingOf
  <2> QED
    BY <2>1
<1>5. ASSUME NEW Q \in SUBSET postings
      PROVE  IsFiniteSet(A(Q)) /\ Whole(sg, A(Q))
  <2>1. A(Q) \subseteq AllEntries
    BY <1>2
  <2>2. IsFiniteSet(A(Q))
    BY <2>1, AllEntriesSound, FS_Subset
  <2>3. Whole(sg, A(Q))
    <3> HIDE DEF A
    <3> QED
      BY <2>1, AllEntriesSound DEF Whole
  <2> QED
    BY <2>2, <2>3
<1>6. G[{}] = 0
  <2>1. A({}) = {}
    OBVIOUS
  <2>2. SumOf(sg, A({})) = 0
    BY <2>1, SumEmpty
  <2> QED
    BY <2>2
<1>7. ASSUME NEW Q \in SUBSET postings, NEW p \in Q
      PROVE  G[Q] = pay[p] + G[Q \ {p}]
  <2>1. A(Q) = B(p) \cup A(Q \ {p})
    OBVIOUS
  <2>2. B(p) \cap A(Q \ {p}) = {}
    <3>1. \A x \in B(p) : x.posting = p.id
      BY DEF Named
    <3>2. \A x \in A(Q \ {p}) : x.posting # p.id
      BY DEF Named, PostingsSound
    <3> HIDE DEF A, B
    <3> QED
      BY <3>1, <3>2
  <2>3. IsFiniteSet(B(p)) /\ Whole(sg, B(p))
    <3>1. B(p) \subseteq A(Q)
      OBVIOUS
    <3> HIDE DEF A, B, sg
    <3> QED
      BY <1>5, <3>1, FS_Subset DEF Whole
  <2>4. SumOf(sg, B(p)) = PaidOut(p, a.identity) /\ pay[p] = PaidOut(p, a.identity)
    BY PaidOutIsSigned
  <2>5. Q \ {p} \in SUBSET postings
    OBVIOUS
  <2>6. G[Q] = SumOf(sg, A(Q)) /\ G[Q \ {p}] = SumOf(sg, A(Q \ {p}))
    OBVIOUS
  <2> HIDE DEF A, B, sg, pay, G
  <2>7. SumOf(sg, B(p) \cup A(Q \ {p})) = SumOf(sg, B(p)) + SumOf(sg, A(Q \ {p}))
    BY <1>5, <2>2, <2>3, <2>5, SumUnion
  <2> QED
    BY <2>1, <2>4, <2>6, <2>7
<1>8. G[postings] = SumOf(pay, postings)
  <2> HIDE DEF G, pay
  <2> QED
    BY <1>1, <1>6, <1>7, SumUnique
<1>9. G[postings] = SumOf(sg, A(postings))
  OBVIOUS
<1>10. MapThenSumSet(LAMBDA p : PaidOut(p, a.identity), postings) = SumOf(pay, postings)
  BY <1>1, PostingsSum
<1> HIDE DEF A, G, sg, pay
<1> QED
  BY <1>3, <1>4, <1>8, <1>9, <1>10

\* A header that is inserted is of a posting the triggers accept.
LEMMA TriggersHold == LedgerIInv => TriggersStayQuiet
<1> SUFFICES ASSUME LedgerIInv, NEW t \in Txns, header[t]
             PROVE  /\ \A e \in EntriesOf(t) : e.cur = e.account.identity[2] /\ e.amount > 0
                    /\ \A e, f \in EntriesOf(t) : e.cur = f.cur
                    /\ Side(Lines(t), "debit") = Side(Lines(t), "credit")
  BY DEF TriggersStayQuiet
<1>1. pc[t] = "commit" /\ ValidatePosting(Lines(t))
  BY DEF LedgerIInv, Order
<1>2. \A e \in EntriesOf(t) :
        e.cur = e.account.identity[2] /\ e.amount > 0 /\ e.cur = Lines(t)[1].cur
  BY <1>1, EntriesSound
<1>3. Side(Lines(t), "debit") = Side(Lines(t), "credit")
  BY <1>1 DEF ValidatePosting
<1> QED
  BY <1>2, <1>3

LEMMA LedgerTyped == LedgerIInv => TypeOK
<1> SUFFICES ASSUME LedgerIInv
             PROVE  TypeOK
  OBVIOUS
<1> USE DEF LedgerIInv
<1>1. \A t \in Txns :
        /\ line[t] = Len(using[t]) + 1
        /\ \A i \in DOMAIN using[t] : using[t][i].identity = Identity(Lines(t)[i])
        /\ \A b \in created[t] : b.by = t
        /\ header[t] => pc[t] = "commit"
  BY DEF Order, UsesItsAccounts
<1>2. \A p \in postings : p.id \in Txns
  BY DEF PostingsSound
<1> QED
  BY <1>1, <1>2 DEF TypeOK, Rows, Labels

\* PostTransaction and EnsureAccount with any number of callers that race, are
\* redelivered and crash: a key posts once, accounts are not doubled, the database's
\* triggers never have to object, and FundingExposure is the net of the postings.
THEOREM LedgerAlwaysAgrees == Spec => []LedgerInv
<1>1. LedgerIInv => LedgerInv
  BY ExposureHolds, TriggersHold, LedgerTyped DEF LedgerInv, LedgerIInv
<1> QED
  BY <1>1, LedgerInvariant, PTL

-----------------------------------------------------------------------------
(* One idempotency key.                                                     *)

KeyConstants == Key!IdempotencyConstants

\* Whoever is in its handler, or has yet to store or to release, has the lock.
WorkersHoldKey ==
    \A r \in Callers : stage[r] \in {"handler", "store", "release"} => entry = Key!Lock(r)

\* Work is committed in the handler; what follows it was answered first.
WorkIsAnswered ==
    \A r \in Callers :
        /\ effects[r] = 1 => stage[r] \in {"store", "release", "done", "unstored", "crashed"}
        /\ stage[r] \in {"store", "unstored"} => effects[r] = 1 /\ answer[r] = Key!Fresh(TRUE)
        /\ stage[r] = "release" => answer[r] = Key!Fresh(FALSE)

\* A response that is stored is of work that was committed.
ResponseIsWork ==
    \A r \in Callers : entry = Key!Response(r) => effects[r] = 1 /\ stage[r] = "done"

\* Work whose response was not lost is what the key holds.
WorkHoldsKey ==
    \A r \in Callers :
        effects[r] = 1 =>
            \/ stage[r] \in {"crashed", "unstored"}
            \/ answer[r] = Key!Fresh(FALSE)
            \/ stage[r] = "store" \/ entry = Key!Response(r)

KeyIInv ==
    /\ Key!TypeOK
    /\ WorkersHoldKey /\ WorkIsAnswered /\ ResponseIsWork /\ WorkHoldsKey
    /\ Key!ReplayIsOwn

-----------------------------------------------------------------------------
(* The entries of a key are of different kinds, and of one request each.    *)

LEMMA EntryKinds ==
    /\ Key!Absent.kind = "absent"
    /\ \A r \in Callers : Key!Lock(r).kind = "inflight" /\ Key!Lock(r).owner = r
    /\ \A r \in Callers : /\ Key!Response(r).kind = "response" /\ Key!Response(r).by = r
                          /\ Key!Response(r).hash = Body[r]
  BY DEF Key!Absent, Key!Lock, Key!Response

LEMMA AnswerKinds ==
    /\ Key!NoAnswer.kind = "none"
    /\ \A c : Key!Refused(c).kind = "refused"
    /\ \A ok : Key!Fresh(ok).kind = "fresh" /\ Key!Fresh(ok).ok = ok
    /\ \A r \in Callers : Key!Replayed(r).kind = "replayed" /\ Key!Replayed(r).by = r
  BY DEF Key!NoAnswer, Key!Refused, Key!Fresh, Key!Replayed

\* What an entry or an answer of some kind is.
LEMMA EntryOfKind ==
    ASSUME Key!TypeOK
    PROVE  /\ entry.kind = "absent" => entry = Key!Absent
           /\ entry.kind = "inflight" =>
                  entry.owner \in Callers /\ entry = Key!Lock(entry.owner)
           /\ entry.kind = "response" =>
                  entry.by \in Callers /\ entry = Key!Response(entry.by)
           /\ entry.kind \in {"absent", "inflight", "response"}
<1>1. \/ entry = Key!Absent
      \/ \E r \in Callers : entry = Key!Lock(r)
      \/ \E r \in Callers : entry = Key!Response(r)
  BY DEF Key!TypeOK, Key!KeyValues
<1> QED
  BY <1>1, EntryKinds

LEMMA KeyTypes ==
    ASSUME Key!TypeOK, [Key!Next]_(Key!vars)
    PROVE  Key!TypeOK'
<1> USE DEF Key!TypeOK, Key!Goto, Key!Answer
<1>1. /\ Key!NoAnswer \in Key!Answers
      /\ \A c \in {"conflict", "mismatch", "unavailable"} : Key!Refused(c) \in Key!Answers
      /\ \A ok \in BOOLEAN : Key!Fresh(ok) \in Key!Answers
      /\ \A r \in Callers : Key!Replayed(r) \in Key!Answers
  BY DEF Key!Answers
<1>2. /\ Key!Absent \in Key!KeyValues
      /\ \A r \in Callers : Key!Lock(r) \in Key!KeyValues /\ Key!Response(r) \in Key!KeyValues
  BY DEF Key!KeyValues
<1>3. ASSUME NEW r \in Callers, Key!Get(r)
      PROVE  Key!TypeOK'
  BY <1>1, <1>3, EntryOfKind DEF Key!Get
<1>4. ASSUME NEW r \in Callers, Key!SetNX(r) \/ Key!GetFails(r) \/ Key!SetNXFails(r)
      PROVE  Key!TypeOK'
  BY <1>1, <1>2, <1>4 DEF Key!SetNX, Key!GetFails, Key!SetNXFails
<1>5. ASSUME NEW r \in Callers, Key!HandlerReturns(r)
      PROVE  Key!TypeOK'
  BY <1>1, <1>5 DEF Key!HandlerReturns
<1>6. ASSUME NEW r \in Callers, Key!Store(r) \/ Key!StoreFails(r) \/ Key!Release(r)
      PROVE  Key!TypeOK'
  BY <1>2, <1>6 DEF Key!Store, Key!StoreFails, Key!Release
<1>7. ASSUME NEW r \in Callers, Key!Crash(r)
      PROVE  Key!TypeOK'
  BY <1>7 DEF Key!Crash
<1>8. CASE Key!LockExpires \/ UNCHANGED Key!vars
  BY <1>2, <1>8 DEF Key!LockExpires, Key!vars
<1> QED
  BY <1>3, <1>4, <1>5, <1>6, <1>7, <1>8 DEF Key!Next, Key!Step

\* Two requests' locks and responses are not the same, and none is an absent entry.
LEMMA EntriesDiffer ==
    \A r, q \in Callers :
        /\ r # q => Key!Lock(r) # Key!Lock(q) /\ Key!Response(r) # Key!Response(q)
        /\ Key!Lock(r) # Key!Response(q)
        /\ Key!Lock(r) # Key!Absent /\ Key!Response(r) # Key!Absent
  BY EntryKinds

\* A replayed answer is some request's, and an answer of another kind is none's.
LEMMA ReplaysAre ==
    ASSUME Key!TypeOK
    PROVE  \A r \in Callers :
               answer[r].kind = "replayed" =>
                   answer[r].by \in Callers /\ answer[r] = Key!Replayed(answer[r].by)
<1> SUFFICES ASSUME NEW r \in Callers, answer[r].kind = "replayed"
             PROVE  answer[r].by \in Callers /\ answer[r] = Key!Replayed(answer[r].by)
  OBVIOUS
<1>1. \/ answer[r] = Key!NoAnswer
      \/ \E c \in {"conflict", "mismatch", "unavailable"} : answer[r] = Key!Refused(c)
      \/ \E ok \in BOOLEAN : answer[r] = Key!Fresh(ok)
      \/ \E q \in Callers : answer[r] = Key!Replayed(q)
  BY DEF Key!TypeOK, Key!Answers
<1> QED
  BY <1>1, AnswerKinds

-----------------------------------------------------------------------------
(* The steps.                                                               *)

Rest == WorkersHoldKey /\ WorkIsAnswered /\ ResponseIsWork /\ WorkHoldsKey /\ Key!ReplayIsOwn

\* A request that is answered without having run its handler disturbs nothing.
LEMMA AnsweredAway ==
    ASSUME KeyIInv, NEW r \in Callers, stage[r] \in {"new", "missed"},
           UNCHANGED <<entry, effects>>, NEW a,
           \/ stage' = [stage EXCEPT ![r] = "missed"] /\ answer' = answer
           \/ /\ stage' = [stage EXCEPT ![r] = "done"] /\ answer' = [answer EXCEPT ![r] = a]
              /\ a.kind = "replayed" => Body[a.by] = Body[r] /\ effects[a.by] = 1
    PROVE  Rest'
<1> USE DEF KeyIInv, Key!TypeOK
<1>1. /\ effects[r] # 1
      /\ \A q \in Callers \ {r} : stage'[q] = stage[q] /\ answer'[q] = answer[q]
      /\ stage'[r] \in {"missed", "done"}
  BY DEF WorkIsAnswered
<1>2. WorkersHoldKey' /\ WorkIsAnswered'
  BY <1>1 DEF WorkersHoldKey, WorkIsAnswered
<1>3. ResponseIsWork' /\ WorkHoldsKey'
  BY <1>1 DEF ResponseIsWork, WorkHoldsKey, Key!Response
<1>4. Key!ReplayIsOwn'
  BY <1>1 DEF Key!ReplayIsOwn
<1> QED
  BY <1>2, <1>3, <1>4 DEF Rest

LEMMA GetKeepsKey ==
    ASSUME KeyIInv, NEW r \in Callers, Key!Get(r)
    PROVE  Rest'
<1> USE DEF Key!Answer, Key!Goto
<1>1. stage[r] = "new" /\ UNCHANGED <<entry, effects>>
  BY DEF Key!Get
<1>2. CASE stage' = [stage EXCEPT ![r] = "missed"] /\ answer' = answer
  BY <1>1, <1>2, AnsweredAway
<1>3. ASSUME NEW c, answer' = [answer EXCEPT ![r] = Key!Refused(c)],
             stage' = [stage EXCEPT ![r] = "done"]
      PROVE  Rest'
  BY <1>1, <1>3, AnswerKinds, AnsweredAway
<1>4. CASE /\ entry.kind = "response" /\ Key!SameBody(r)
           /\ answer' = [answer EXCEPT ![r] = Key!Replayed(entry.by)]
           /\ stage' = [stage EXCEPT ![r] = "done"]
  <2>1. entry.by \in Callers /\ entry = Key!Response(entry.by)
    BY <1>4, EntryOfKind DEF KeyIInv
  <2>2. Body[entry.by] = Body[r] /\ effects[entry.by] = 1
    BY <1>4, <2>1, EntryKinds DEF KeyIInv, ResponseIsWork, Key!SameBody
  <2> DEFINE a == Key!Replayed(entry.by)
  <2>3. /\ a.by = entry.by
        /\ stage' = [stage EXCEPT ![r] = "done"] /\ answer' = [answer EXCEPT ![r] = a]
    BY <1>4, <2>1, AnswerKinds
  <2>4. a.kind = "replayed" => Body[a.by] = Body[r] /\ effects[a.by] = 1
    BY <2>2, <2>3
  <2> HIDE DEF a
  <2> QED
    BY <1>1, <2>3, <2>4, AnsweredAway
<1> QED
  BY <1>2, <1>3, <1>4 DEF Key!Get

\* A key is claimed only when nobody works on it and nothing is stored.
LEMMA ClaimKeepsKey ==
    ASSUME KeyIInv, NEW r \in Callers, Key!SetNX(r)
    PROVE  Rest'
<1> USE DEF Key!Answer, Key!Goto
<1>1. stage[r] = "missed" /\ effects' = effects
  BY DEF Key!SetNX
<1>2. CASE entry = Key!Absent
  <2> USE DEF KeyIInv, Key!TypeOK
  <2>1. /\ entry' = Key!Lock(r) /\ answer' = answer
        /\ stage' = [stage EXCEPT ![r] = "handler"]
    BY <1>2 DEF Key!SetNX
  <2>2. \A q \in Callers : stage[q] \notin {"handler", "store", "release"}
    BY <1>2, EntriesDiffer DEF WorkersHoldKey
  <2>3. \A q \in Callers : entry # Key!Response(q) /\ entry' # Key!Response(q)
    BY <1>2, <2>1, EntriesDiffer
  <2>4. effects[r] # 1
    BY <1>1 DEF WorkIsAnswered
  <2>5. WorkersHoldKey' /\ WorkIsAnswered'
    BY <1>1, <2>1, <2>2, <2>4 DEF WorkersHoldKey, WorkIsAnswered
  <2>6. ResponseIsWork'
    BY <2>3 DEF ResponseIsWork, Key!Response
  <2>7. WorkHoldsKey'
    BY <1>1, <2>1, <2>2, <2>3, <2>4 DEF WorkHoldsKey
  <2>8. Key!ReplayIsOwn'
    BY <1>1, <2>1 DEF Key!ReplayIsOwn
  <2> QED
    BY <2>5, <2>6, <2>7, <2>8 DEF Rest
<1>3. CASE entry # Key!Absent
  <2>1. /\ answer' = [answer EXCEPT ![r] = Key!Refused("conflict")] /\ entry' = entry
        /\ stage' = [stage EXCEPT ![r] = "done"]
    BY <1>3 DEF Key!SetNX
  <2> QED
    BY <1>1, <2>1, AnswerKinds, AnsweredAway
<1> QED
  BY <1>2, <1>3

\* What a handler did is answered before the key is let go of.
LEMMA ReturnKeepsKey ==
    ASSUME KeyIInv, NEW r \in Callers, Key!HandlerReturns(r)
    PROVE  Rest'
<1> USE DEF KeyIInv, Key!TypeOK, Key!Goto
<1>1. PICK committed \in BOOLEAN, ok \in BOOLEAN :
        /\ ok => committed
        /\ effects' = [effects EXCEPT ![r] = IF committed THEN 1 ELSE 0]
        /\ answer' = [answer EXCEPT ![r] = Key!Fresh(ok)]
        /\ stage' = [stage EXCEPT ![r] = IF ok THEN "store" ELSE "release"]
  BY DEF Key!HandlerReturns
<1>2. stage[r] = "handler" /\ entry' = entry /\ entry = Key!Lock(r)
  BY DEF Key!HandlerReturns, WorkersHoldKey
<1>3. /\ \A q \in Callers \ {r} : /\ stage'[q] = stage[q] /\ answer'[q] = answer[q]
                                  /\ effects'[q] = effects[q]
      /\ answer'[r] = Key!Fresh(ok)
      /\ \/ ok = TRUE /\ stage'[r] = "store" /\ effects'[r] = 1
         \/ ok = FALSE /\ stage'[r] = "release"
  BY <1>1
<1>4. effects[r] # 1
  BY <1>2 DEF WorkIsAnswered
<1>5. WorkersHoldKey' /\ WorkIsAnswered'
  BY <1>2, <1>3 DEF WorkersHoldKey, WorkIsAnswered, Key!Fresh, Key!Lock
<1>6. ResponseIsWork'
  BY <1>2, EntriesDiffer DEF ResponseIsWork, Key!Response
<1>7. WorkHoldsKey'
  BY <1>2, <1>3 DEF WorkHoldsKey, Key!Fresh, Key!Response
<1>8. Key!ReplayIsOwn'
  <2> SUFFICES ASSUME NEW q \in Callers, answer'[q].kind = "replayed"
               PROVE  Body[answer'[q].by] = Body[q] /\ effects'[answer'[q].by] = 1
    BY DEF Key!ReplayIsOwn
  <2>1. q # r /\ answer'[q] = answer[q]
    BY <1>3, AnswerKinds
  <2>2. Body[answer[q].by] = Body[q] /\ effects[answer[q].by] = 1 /\ answer[q].by \in Callers
    BY <2>1, ReplaysAre DEF Key!ReplayIsOwn
  <2> QED
    BY <1>3, <1>4, <2>1, <2>2
<1> QED
  BY <1>5, <1>6, <1>7, <1>8 DEF Rest

\* Storing puts the response in the place of the request's own lock.
LEMMA StoreKeepsKey ==
    ASSUME KeyIInv, NEW r \in Callers, Key!Store(r) \/ Key!StoreFails(r)
    PROVE  Rest'
<1> USE DEF KeyIInv, Key!TypeOK, Key!Goto
<1>1. /\ stage[r] = "store" /\ entry = Key!Lock(r) /\ UNCHANGED <<answer, effects>>
      /\ effects[r] = 1
  BY DEF Key!Store, Key!StoreFails, WorkersHoldKey, WorkIsAnswered
<1>2. \A q \in Callers \ {r} :
          stage'[q] = stage[q] /\ stage[q] \notin {"handler", "store", "release"}
  BY <1>1, EntriesDiffer DEF Key!Store, Key!StoreFails, WorkersHoldKey
<1>3. \/ entry' = Key!Response(r) /\ stage'[r] = "done"
      \/ entry' = entry /\ stage'[r] = "unstored"
  BY DEF Key!Store, Key!StoreFails
<1>4. \A q \in Callers : entry # Key!Response(q)
  BY <1>1, EntriesDiffer
<1>5. answer[r] = Key!Fresh(TRUE)
  BY <1>1 DEF WorkIsAnswered
<1>6. WorkersHoldKey' /\ WorkIsAnswered'
  BY <1>1, <1>2, <1>3, <1>5 DEF WorkersHoldKey, WorkIsAnswered, Key!Fresh
<1>7. ResponseIsWork'
  BY <1>1, <1>2, <1>3, <1>4, EntriesDiffer DEF ResponseIsWork, Key!Response
<1>8. WorkHoldsKey'
  BY <1>1, <1>2, <1>3, <1>4 DEF WorkHoldsKey, Key!Fresh, Key!Response
<1>9. Key!ReplayIsOwn'
  BY <1>1 DEF Key!ReplayIsOwn
<1> QED
  BY <1>6, <1>7, <1>8, <1>9 DEF Rest

\* Releasing deletes the request's own lock.
LEMMA ReleaseKeepsKey ==
    ASSUME KeyIInv, NEW r \in Callers, Key!Release(r)
    PROVE  Rest'
<1> USE DEF KeyIInv, Key!TypeOK, Key!Goto
<1>1. /\ stage[r] = "release" /\ entry = Key!Lock(r) /\ UNCHANGED <<answer, effects>>
      /\ entry' = Key!Absent /\ stage'[r] = "done"
  BY DEF Key!Release, WorkersHoldKey
<1>2. \A q \in Callers \ {r} :
          stage'[q] = stage[q] /\ stage[q] \notin {"handler", "store", "release"}
  BY <1>1, EntriesDiffer DEF Key!Release, WorkersHoldKey
<1>3. \A q \in Callers : entry # Key!Response(q) /\ entry' # Key!Response(q)
  BY <1>1, EntriesDiffer
<1>4. answer[r] = Key!Fresh(FALSE)
  BY <1>1 DEF WorkIsAnswered
<1>5. WorkersHoldKey' /\ WorkIsAnswered'
  BY <1>1, <1>2, <1>4 DEF WorkersHoldKey, WorkIsAnswered, Key!Fresh
<1>6. ResponseIsWork'
  BY <1>3 DEF ResponseIsWork, Key!Response
<1>7. WorkHoldsKey'
  BY <1>1, <1>2, <1>3, <1>4 DEF WorkHoldsKey, Key!Fresh
<1>8. Key!ReplayIsOwn'
  BY <1>1 DEF Key!ReplayIsOwn
<1> QED
  BY <1>5, <1>6, <1>7, <1>8 DEF Rest

\* A process that dies leaves its lock, and no response.
LEMMA CrashKeepsKey ==
    ASSUME KeyIInv, NEW r \in Callers, Key!Crash(r)
    PROVE  Rest'
<1> USE DEF KeyIInv, Key!TypeOK, Key!Goto
<1>1. /\ stage[r] \in {"handler", "store", "release"} /\ entry = Key!Lock(r)
      /\ UNCHANGED <<entry, answer>> /\ stage'[r] = "crashed"
      /\ \A q \in Callers \ {r} : stage'[q] = stage[q] /\ effects'[q] = effects[q]
  BY DEF Key!Crash, WorkersHoldKey
<1>2. effects[r] = 1 => effects'[r] = 1
  BY DEF Key!Crash, WorkIsAnswered
<1>3. \A q \in Callers : entry # Key!Response(q)
  BY <1>1, EntriesDiffer
<1>4. WorkersHoldKey' /\ WorkIsAnswered'
  BY <1>1 DEF WorkersHoldKey, WorkIsAnswered, Key!Fresh, Key!Lock
<1>5. ResponseIsWork'
  BY <1>1, <1>3 DEF ResponseIsWork, Key!Response
<1>6. WorkHoldsKey'
  BY <1>1, <1>3 DEF WorkHoldsKey, Key!Fresh, Key!Response
<1>7. Key!ReplayIsOwn'
  <2> SUFFICES ASSUME NEW q \in Callers, answer[q].kind = "replayed"
               PROVE  Body[answer[q].by] = Body[q] /\ effects'[answer[q].by] = 1
    BY <1>1 DEF Key!ReplayIsOwn
  <2>1. Body[answer[q].by] = Body[q] /\ effects[answer[q].by] = 1 /\ answer[q].by \in Callers
    BY ReplaysAre DEF Key!ReplayIsOwn
  <2> QED
    BY <1>1, <1>2, <2>1
<1> QED
  BY <1>4, <1>5, <1>6, <1>7 DEF Rest

\* A lock runs out only when the request it was taken for has stopped.
LEMMA ExpiryKeepsKey ==
    ASSUME KeyConstants, KeyIInv, Key!LockExpires
    PROVE  Rest'
<1> USE DEF KeyIInv, Key!TypeOK
<1>1. /\ entry.owner \in Callers /\ entry = Key!Lock(entry.owner)
      /\ stage[entry.owner] \in {"done", "unstored", "crashed"}
      /\ entry' = Key!Absent /\ UNCHANGED <<stage, answer, effects>>
  BY EntryOfKind DEF Key!LockExpires, KeyConstants
<1>2. \A q \in Callers : stage[q] \notin {"handler", "store", "release"}
  BY <1>1, EntriesDiffer DEF WorkersHoldKey
<1>3. \A q \in Callers : entry # Key!Response(q) /\ entry' # Key!Response(q)
  BY <1>1, EntriesDiffer
<1>4. WorkersHoldKey' /\ WorkIsAnswered'
  BY <1>1, <1>2 DEF WorkersHoldKey, WorkIsAnswered, Key!Fresh
<1>5. ResponseIsWork'
  BY <1>3 DEF ResponseIsWork, Key!Response
<1>6. WorkHoldsKey'
  BY <1>1, <1>3 DEF WorkHoldsKey, Key!Fresh, Key!Response
<1>7. Key!ReplayIsOwn'
  BY <1>1 DEF Key!ReplayIsOwn
<1> QED
  BY <1>4, <1>5, <1>6, <1>7 DEF Rest

LEMMA StepKey ==
    ASSUME KeyConstants, KeyIInv, [Key!Next]_(Key!vars)
    PROVE  KeyIInv'
<1>1. Key!TypeOK'
  BY KeyTypes DEF KeyIInv
<1> SUFFICES Rest'
  BY <1>1 DEF KeyIInv, Rest
<1>2. ASSUME NEW r \in Callers, Key!GetFails(r) \/ Key!SetNXFails(r)
      PROVE  Rest'
  <2> USE DEF Key!Answer, Key!Goto
  <2>1. CASE Key!GetFails(r)
    BY <2>1, AnsweredAway DEF Key!GetFails
  <2>2. CASE Key!SetNXFails(r)
    <3>1. /\ stage[r] = "missed" /\ UNCHANGED <<entry, effects>>
          /\ stage' = [stage EXCEPT ![r] = "done"]
          /\ answer' = [answer EXCEPT ![r] = Key!Refused("unavailable")]
      BY <2>2 DEF Key!SetNXFails
    <3> QED
      BY <3>1, AnswerKinds, AnsweredAway
  <2> QED
    BY <1>2, <2>1, <2>2
<1>3. CASE UNCHANGED Key!vars
  BY <1>3 DEF KeyIInv, Rest, Key!vars, WorkersHoldKey, WorkIsAnswered, ResponseIsWork,
              WorkHoldsKey, Key!ReplayIsOwn, Key!Lock, Key!Response, Key!Fresh
<1> QED
  BY <1>2, <1>3, GetKeepsKey, ClaimKeepsKey, ReturnKeepsKey, StoreKeepsKey, ReleaseKeepsKey,
     CrashKeepsKey, ExpiryKeepsKey DEF Key!Next, Key!Step

\* The idempotency middleware, for any number of requests with one key and any bodies,
\* while handlers are faster than inflightTTL: a lock or a response in the key says who
\* worked and how it ended.
THEOREM KeyInvariant == ASSUME KeyConstants PROVE Key!Spec => []KeyIInv
<1>1. Key!Init => KeyIInv
  <2> SUFFICES ASSUME Key!Init
               PROVE  KeyIInv
    OBVIOUS
  <2>1. Key!TypeOK
    BY DEF Key!Init, Key!TypeOK, Key!KeyValues, Key!Answers
  <2>2. Key!ReplayIsOwn
    BY AnswerKinds DEF Key!Init, Key!ReplayIsOwn
  <2> QED
    BY <2>1, <2>2, EntriesDiffer
       DEF KeyIInv, Key!Init, WorkersHoldKey, WorkIsAnswered, ResponseIsWork, WorkHoldsKey
<1>2. KeyIInv /\ [Key!Next]_(Key!vars) => KeyIInv'
  BY StepKey
<1> QED
  BY <1>1, <1>2, PTL DEF Key!Spec

\* SETNX and the replay: handlers of one key never overlap, a response is replayed only
\* for its own body and after its work was committed, and work is done twice only if the
\* first response was lost.
THEOREM KeyAlwaysHasOneEffect ==
    ASSUME KeyConstants
    PROVE  Key!Spec => [](/\ Key!TypeOK /\ Key!OneHandlerAtATime
                          /\ Key!ReplayIsOwn /\ Key!SecondEffectNeedsLoss)
<1>1. KeyIInv => Key!OneHandlerAtATime
  BY EntriesDiffer DEF KeyIInv, WorkersHoldKey, Key!OneHandlerAtATime
<1>2. KeyIInv => Key!SecondEffectNeedsLoss
  <2> SUFFICES ASSUME KeyIInv, NEW r \in Callers, NEW q \in Callers, r # q,
                      effects[r] = 1, effects[q] = 1
               PROVE  \E p \in {r, q} : \/ stage[p] = "crashed"
                                        \/ answer[p] = Key!Fresh(FALSE)
                                        \/ stage[p] = "unstored"
    BY DEF Key!SecondEffectNeedsLoss
  <2>1. ~ (/\ stage[r] = "store" \/ entry = Key!Response(r)
           /\ stage[q] = "store" \/ entry = Key!Response(q))
    BY EntriesDiffer DEF KeyIInv, WorkersHoldKey
  <2> QED
    BY <2>1 DEF KeyIInv, WorkHoldsKey
<1>3. KeyIInv => Key!TypeOK /\ Key!ReplayIsOwn
  BY DEF KeyIInv
<1> QED
  BY <1>1, <1>2, <1>3, KeyInvariant, PTL

\* A stored response is never lost or overtaken: no step overwrites it, and no handler
\* starts beside it.
THEOREM ResponseAlwaysStands == ASSUME KeyConstants PROVE Key!Spec => Key!ResponseStands
<1> DEFINE Stands == entry.kind = "response" =>
                        /\ entry' = entry
                        /\ \A r \in Callers : stage'[r] = "handler" => stage[r] = "handler"
<1>1. ASSUME KeyIInv, [Key!Next]_(Key!vars), entry.kind = "response"
      PROVE  /\ entry' = entry
             /\ \A r \in Callers : stage'[r] = "handler" => stage[r] = "handler"
  <2> USE DEF Key!Answer, Key!Goto, KeyIInv, Key!TypeOK
  <2>1. entry # Key!Absent /\ \A r \in Callers : entry # Key!Lock(r)
    BY <1>1, EntryKinds
  <2>2. \A r \in Callers : stage[r] \notin {"handler", "store", "release"}
    BY <1>1, <2>1 DEF WorkersHoldKey
  <2>3. ASSUME NEW r \in Callers,
               Key!Step(r) \/ Key!GetFails(r) \/ Key!SetNXFails(r) \/ Key!StoreFails(r)
               \/ Key!Crash(r)
        PROVE  /\ entry' = entry
               /\ \A q \in Callers : stage'[q] = "handler" => stage[q] = "handler"
    <3>1. Key!Get(r) \/ Key!SetNX(r) \/ Key!GetFails(r) \/ Key!SetNXFails(r)
      BY <1>1, <2>2, <2>3 DEF Key!Step, Key!HandlerReturns, Key!Store, Key!Release,
                              Key!StoreFails, Key!Crash
    <3> QED
      BY <1>1, <2>1, <3>1 DEF Key!Get, Key!SetNX, Key!GetFails, Key!SetNXFails
  <2>4. CASE Key!LockExpires
    BY <1>1, <2>4 DEF Key!LockExpires
  <2>5. CASE UNCHANGED Key!vars
    BY <2>5 DEF Key!vars
  <2> QED
    BY <1>1, <2>3, <2>4, <2>5 DEF Key!Next
<1>2. KeyIInv /\ [Key!Next]_(Key!vars) => [Stands]_(Key!vars)
  BY <1>1
<1> QED
  BY <1>2, KeyInvariant, PTL DEF Key!Spec, Key!ResponseStands

-----------------------------------------------------------------------------
(* The composition: a part is moved by its own steps and left alone by the *)
(* others.                                                                  *)

LEMMA KeyIsAPart == SharedSpec => Key!Spec
<1>1. SharedInit => Key!Init
  BY DEF SharedInit
<1>2. [SharedNext]_sharedVars => [Key!Next]_(Key!vars)
  BY DEF SharedNext, sharedVars, keyVars, Key!vars
<1> QED
  BY <1>1, <1>2, PTL DEF SharedSpec, Key!Spec

\* IdempotencyMiddleware, for any requests with one key: handlers do not overlap, the
\* response stands and is replayed to its own body, and work is repeated only after a loss.
THEOREM SharedKeysWorkOnce == SharedSpec => KeyHasOneEffect
  BY SharedRecordsConstants, KeyIsAPart, KeyAlwaysHasOneEffect, ResponseAlwaysStands, PTL
     DEF KeyHasOneEffect, Key!KeyHasOneEffect, KeyConstants
=============================================================================
