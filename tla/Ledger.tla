------------------------------- MODULE Ledger -------------------------------
(***************************************************************************)
(* The double-entry ledger.  A database transaction finds or creates its   *)
(* accounts, looks for an earlier posting with its key, inserts the        *)
(* posting and its entries, and commits.  Transactions run at once under   *)
(* READ COMMITTED: a read sees what is committed and what the transaction  *)
(* itself wrote, and an insert waits while another transaction holds an    *)
(* uncommitted row with the same unique key.  A transaction whose insert   *)
(* fails is rolled back and its caller tries again; the callers are the    *)
(* webhooks and tasks, which are delivered until they succeed.             *)
(***************************************************************************)
EXTENDS Integers, Sequences, FiniteSetsExt

CONSTANTS
    Txns,         \* the postings asked for, each by one caller
    Requests,     \* the requests each caller may make: a key and its lines
    Charts,       \* the accounts that may exist already
    Normal,       \* the normal side of each account type
    Currencies,   \* the supported currencies
    MaxCrashes    \* bound: transactions cut off by a crash

\* An account is for a type of account and a currency; by names the transaction
\* that created it, as its primary key would.
Identities == (DOMAIN Normal) \X STRING
Identity(line) == <<line.type, line.cur>>

Earlier == "earlier"

\* A caller gives at least one line and types the chart of accounts knows; what
\* else a line holds is for ValidatePosting to judge.
LineSet == [type : DOMAIN Normal, dir : STRING, amount : Int, cur : STRING]

ASSUME LedgerConstants ==
    /\ MaxCrashes \in Nat
    /\ \A t \in Txns : /\ Requests[t] # {}
                       /\ \A r \in Requests[t] : r.lines \in Seq(LineSet) /\ r.lines # <<>>
    /\ \A I \in Charts : I \subseteq Identities
    /\ "cash_settlement" \in DOMAIN Normal /\ Normal["cash_settlement"] = "credit"

VARIABLES
    req,        \* what each caller asks for
    pc,         \* where each transaction is
    line,       \* the line whose account it is looking for
    using,      \* the accounts it found or created, one for each line
    created,    \* rows it inserted and has not committed: accounts,
    header,     \*   and the posting's header, with its entries
    accounts,   \* committed accounts
    postings,   \* committed postings with their entries
    crashes

vars == <<req, pc, line, using, created, header, accounts, postings, crashes>>

Init ==
    /\ req \in {r \in [Txns -> UNION {Requests[t] : t \in Txns}] :
                    \A t \in Txns : r[t] \in Requests[t]}
    /\ pc = [t \in Txns |-> "find"]
    /\ line = [t \in Txns |-> 1]
    /\ using = [t \in Txns |-> <<>>]
    /\ created = [t \in Txns |-> {}]
    /\ header = [t \in Txns |-> FALSE]
    /\ accounts \in {{[identity |-> i, by |-> Earlier] : i \in I} : I \in Charts}
    /\ postings = {}
    /\ crashes = 0

Goto(t, l) == pc' = [pc EXCEPT ![t] = l]
Lines(t) == req[t].lines
Wanted(t) == Identity(Lines(t)[line[t]])

\* A rollback: the caller begins again.
Rollback(t) ==
    /\ Goto(t, "find")
    /\ line' = [line EXCEPT ![t] = 1]
    /\ using' = [using EXCEPT ![t] = <<>>]
    /\ created' = [created EXCEPT ![t] = {}]
    /\ header' = [header EXCEPT ![t] = FALSE]
    /\ UNCHANGED <<req, accounts, postings>>

-----------------------------------------------------------------------------
(* EnsureAccount *)

Uses(t, a) ==
    /\ using' = [using EXCEPT ![t] = Append(@, a)]
    /\ line' = [line EXCEPT ![t] = @ + 1]
    /\ Goto(t, IF line[t] = Len(Lines(t)) THEN "validate" ELSE "find")

FindAccount(t) ==
    /\ pc[t] = "find"
    /\ \/ \E a \in accounts \cup created[t] : a.identity = Wanted(t) /\ Uses(t, a)
       \/ /\ \A a \in accounts \cup created[t] : a.identity # Wanted(t)
          /\ Goto(t, "create")
          /\ UNCHANGED <<line, using>>
    /\ UNCHANGED <<req, created, header, accounts, postings, crashes>>

\* No other transaction holds an uncommitted account of this identity.
AccountFree(t) == \A u \in Txns \ {t} : \A a \in created[u] : a.identity # Wanted(t)

AccountIsNew(t) == \A a \in accounts : a.identity # Wanted(t)

CreateAccount(t) ==
    /\ pc[t] = "create"
    /\ AccountFree(t)
    /\ AccountIsNew(t)
    /\ LET a == [identity |-> Wanted(t), by |-> t] IN
           /\ created' = [created EXCEPT ![t] = @ \cup {a}]
           /\ Uses(t, a)
    /\ UNCHANGED <<req, header, accounts, postings, crashes>>

AccountTaken(t) ==
    /\ pc[t] = "create"
    /\ AccountFree(t)
    /\ ~ AccountIsNew(t)
    /\ Rollback(t)
    /\ UNCHANGED crashes

-----------------------------------------------------------------------------
(* PostTransaction *)

Side(ls, dir) ==
    MapThenSumSet(LAMBDA i : ls[i].amount, {i \in DOMAIN ls : ls[i].dir = dir})

\* At least two lines, positive amounts, one supported currency, known directions,
\* and debits equal to credits.
ValidatePosting(ls) ==
    /\ Len(ls) >= 2
    /\ ls[1].cur \in Currencies
    /\ \A i \in DOMAIN ls :
        ls[i].cur = ls[1].cur /\ ls[i].amount > 0 /\ ls[i].dir \in {"debit", "credit"}
    /\ Side(ls, "debit") = Side(ls, "credit")

\* A replay, a posting whose key is committed already, writes nothing.
FindPosting(t) ==
    /\ pc[t] = "validate"
    /\ ValidatePosting(Lines(t))
    /\ Goto(t, IF \E p \in postings : p.key = req[t].key THEN "commit" ELSE "insert")
    /\ UNCHANGED <<req, line, using, created, header, accounts, postings, crashes>>

\* A request that is not valid is an error for its caller, for good.
RefusePosting(t) ==
    /\ pc[t] = "validate"
    /\ ~ ValidatePosting(Lines(t))
    /\ Goto(t, "refused")
    /\ created' = [created EXCEPT ![t] = {}]
    /\ UNCHANGED <<req, line, using, header, accounts, postings, crashes>>

KeyFree(t) == \A u \in Txns \ {t} : header[u] => req[u].key # req[t].key

\* There is no unique index on the key.
MutKeyIsNew(t) == TRUE

KeyIsNew(t) == \A p \in postings : p.key # req[t].key

\* The header, then all entries; idx_ledger_tx_idempotency decides.
InsertPosting(t) ==
    /\ pc[t] = "insert"
    /\ KeyFree(t)
    /\ KeyIsNew(t)
    /\ header' = [header EXCEPT ![t] = TRUE]
    /\ Goto(t, "commit")
    /\ UNCHANGED <<req, line, using, created, accounts, postings, crashes>>

\* The insert is tried again in the transaction that failed.
MutKeyTaken(t) ==
    /\ pc[t] = "insert"
    /\ KeyFree(t)
    /\ ~ KeyIsNew(t)
    /\ UNCHANGED vars

KeyTaken(t) ==
    /\ pc[t] = "insert"
    /\ KeyFree(t)
    /\ ~ KeyIsNew(t)
    /\ Rollback(t)
    /\ UNCHANGED crashes

EntriesOf(t) ==
    {[line |-> i, account |-> using[t][i], dir |-> Lines(t)[i].dir,
      amount |-> Lines(t)[i].amount, cur |-> Lines(t)[i].cur] : i \in DOMAIN Lines(t)}

Commit(t) ==
    /\ pc[t] = "commit"
    /\ accounts' = accounts \cup created[t]
    /\ postings' = IF header[t]
                   THEN postings \cup {[id |-> t, key |-> req[t].key, entries |-> EntriesOf(t)]}
                   ELSE postings
    /\ created' = [created EXCEPT ![t] = {}]
    /\ header' = [header EXCEPT ![t] = FALSE]
    /\ Goto(t, "done")
    /\ UNCHANGED <<req, line, using, crashes>>

Crash(t) ==
    /\ crashes < MaxCrashes
    /\ pc[t] \notin {"done", "refused"}
    /\ crashes' = crashes + 1
    /\ Rollback(t)

Step(t) ==
    \/ FindAccount(t) \/ CreateAccount(t) \/ AccountTaken(t)
    \/ FindPosting(t) \/ RefusePosting(t) \/ InsertPosting(t) \/ KeyTaken(t)
    \/ Commit(t)

Finished == \A t \in Txns : pc[t] \in {"done", "refused"}

Next == \E t \in Txns : Step(t) \/ Crash(t)

Spec == Init /\ [][Next]_vars /\ \A t \in Txns : WF_vars(Step(t))

-----------------------------------------------------------------------------

TypeOK ==
    /\ pc \in [Txns -> {"find", "create", "validate", "insert", "commit", "done", "refused"}]
    /\ \A t \in Txns :
        /\ line[t] = Len(using[t]) + 1
        /\ \A i \in DOMAIN using[t] : using[t][i].identity = Identity(Lines(t)[i])
        /\ \A a \in created[t] : a.by = t
        /\ header[t] => pc[t] = "commit"
    /\ \A p \in postings : p.id \in Txns
    /\ crashes \in 0 .. MaxCrashes

AllEntries == UNION {{[posting |-> p.id, entry |-> e] : e \in p.entries} : p \in postings}

SideOf(a, dir) ==
    MapThenSumSet(LAMBDA x : x.entry.amount,
                  {x \in AllEntries : x.entry.account = a /\ x.entry.dir = dir})

\* AccountBalance: derived from the account's entries, in its normal direction.
AccountBalance(a) ==
    IF Normal[a.identity[1]] = "debit"
    THEN SideOf(a, "debit") - SideOf(a, "credit")
    ELSE SideOf(a, "credit") - SideOf(a, "debit")

\* Replayed, raced or crashed, a key moves money once, and only between accounts
\* that exist (idx_ledger_tx_idempotency, the foreign keys of ledger_entries).
PostedOnce ==
    /\ \A p, q \in postings : p.key = q.key => p = q
    /\ \A p \in postings : \A e \in p.entries : e.account \in accounts

\* LedgerAccount: one account for each identity, so a balance read from one
\* account is the whole balance, whoever created it.
OneAccountEach == \A a, b \in accounts : a.identity = b.identity => a = b

\* ValidatePosting refuses all that the triggers of the database would: they
\* never have to stop a commit or an entry.
TriggersStayQuiet ==
    \A t \in Txns : header[t] =>
        /\ \A e \in EntriesOf(t) : e.cur = e.account.identity[2] /\ e.amount > 0
        /\ \A e, f \in EntriesOf(t) : e.cur = f.cur
        /\ Side(Lines(t), "debit") = Side(Lines(t), "credit")

\* What a posting pays out of the accounts of an identity.
PaidOut(p, identity) ==
    MapThenSumSet(LAMBDA e : IF e.dir = "credit" THEN e.amount ELSE - e.amount,
                  {e \in p.entries : e.account.identity = identity})

PostingOf(k) == CHOOSE p \in postings : p.key = k

\* FundingExposure: the balance of cash_settlement is what has been paid out of
\* it less what was deposited, each key counted once.
ExposureIsNet ==
    \A a \in accounts : a.identity[1] = "cash_settlement" =>
        AccountBalance(a) =
            MapThenSumSet(LAMBDA p : PaidOut(p, a.identity),
                          {PostingOf(k) : k \in {q.key : q \in postings}})

\* Every valid request is posted in the end: no order of waiting and failing
\* inserts keeps the callers from getting through.
EveryRequestEnds == <> Finished

\* What the ledger holds although its callers race: a key posts once, between accounts
\* that are not doubled, what the triggers accept, and balances are the net of it.
LedgerInv ==
    TypeOK /\ PostedOnce /\ OneAccountEach /\ TriggersStayQuiet /\ ExposureIsNet
=============================================================================
