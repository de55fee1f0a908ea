---------------------------- MODULE PaydaySweep ----------------------------
(***************************************************************************)
(* PredictNextPayday, and the daily sweep that asks it whether an advance  *)
(* is due.  A worker's account moves, the sweep reads the movements of the *)
(* lookback once a day, looks for a recurring credit among them and debits *)
(* the account when the payday it predicts has come.                       *)
(*                                                                         *)
(* Days are integers.  The code's ratios are floats; with at most five     *)
(* pays in a pattern every comparison below is the exact one.              *)
(***************************************************************************)
EXTENDS Integers, Sequences, FiniteSets, TLC

CONSTANTS
    Days,       \* the days on which anything happens
    Movements,  \* [amount, credit, ahead]: ahead is how far ahead it is dated
    Postings,   \* the days on which the account may move
    MaxMoves,   \* bound: movements of the account
    Lookback,   \* d2cTransactionLookback, in days
    MinInterval, MaxInterval

PaydaySweepConstants ==
    /\ Days \subseteq Nat /\ Days # {} /\ IsFiniteSet(Days) /\ Postings \subseteq Days
    /\ MaxMoves \in 0 .. 5
    /\ \A m \in Movements : m.amount \in Nat /\ m.credit \in BOOLEAN /\ m.ahead \in Nat
    /\ Lookback \in Nat /\ 0 < MinInterval /\ MinInterval <= MaxInterval

VARIABLES
    day,      \* today
    account,  \* the account's movements, as the provider lists them
    swept,    \* whether today's sweep has run
    foretold, \* the payday the last sweep predicted, or None
    debit     \* the day the debit was submitted, or None

vars == <<day, account, swept, foretold, debit>>

None == -1

-----------------------------------------------------------------------------
(* The prediction. *)

AbsDiff(a, b) == IF a > b THEN a - b ELSE b - a
Larger(a, b) == IF a > b THEN a ELSE b

\* relativeDiff(a, b) <= p/q.
Within(a, b, p, q) == q * AbsDiff(a, b) <= p * Larger(a, b)
SameAmount(x, y) == Within(x.amount, y.amount, 1, 10)   \* amountClusterTolerance

Credits(txs, asOf) == SelectSeq(txs, LAMBDA x : x.credit /\ x.date <= asOf /\ x.amount > 0)

\* The credits by amount, cut wherever one is not close to the next; the longest
\* piece, and of two as long the one with the smaller amounts.
LargestAmountCluster(credits) ==
    LET s == SortSeq(credits, LAMBDA x, y : x.amount <= y.amount)
        starts == {i \in DOMAIN s : i = 1 \/ ~SameAmount(s[i], s[i - 1])}
        Piece(i) == SubSeq(s, i, CHOOSE e \in i .. Len(s) :
                        /\ (i + 1) .. e \cap starts = {}
                        /\ e = Len(s) \/ e + 1 \in starts)
        best == CHOOSE i \in starts : \A j \in starts :
                    \/ Len(Piece(j)) < Len(Piece(i))
                    \/ Len(Piece(j)) = Len(Piece(i)) /\ i <= j
    IN  Piece(best)

ByDate(s) == SortSeq(s, LAMBDA x, y : x.date <= y.date)

\* Bug: the gaps are divided by the number of pays.
MutRounded(total, n) == (2 * total + n + 1) \div (2 * (n + 1))

\* int(mean + 0.5), of n gaps that add up to total.
Rounded(total, n) == (2 * total + n) \div (2 * n)

\* One spacing between consecutive pays, and a plausible one.
Regular(pays) ==
    LET n == Len(pays) - 1
        total == pays[Len(pays)].date - pays[1].date
    IN  /\ MinInterval * n <= total /\ total <= MaxInterval * n
        /\ \A i \in 1 .. n :        \* intervalConsistencyTolerance
              Within(n * (pays[i + 1].date - pays[i].date), total, 1, 5)

PredictNextPayday(txs, asOf) ==
    LET credits == Credits(txs, asOf)
        pays == ByDate(LargestAmountCluster(credits))
        n == Len(pays) - 1
    IN  IF Len(credits) < 2 THEN None
        ELSE IF Len(pays) < 2 THEN None
        ELSE IF ~Regular(pays) THEN None
        ELSE pays[n + 1].date + Rounded(pays[n + 1].date - pays[1].date, n)

-----------------------------------------------------------------------------
(* The account and the sweep. *)

Init ==
    /\ day = CHOOSE d \in Days : \A e \in Days : d <= e
    /\ account = <<>> /\ swept = FALSE /\ foretold = None /\ debit = None

\* The worker's bank books a movement, at any time of the day.
Post(m) ==
    /\ Len(account) < MaxMoves /\ day \in Postings
    /\ account' = Append(account,
                    [date |-> day + m.ahead, amount |-> m.amount, credit |-> m.credit])
    /\ UNCHANGED <<day, swept, foretold, debit>>

History == SelectSeq(account, LAMBDA x : x.date >= day - Lookback)

\* attemptD2CCollectionForAdvance, for an advance with no collection in flight and
\* a linked account with read consent and a mandate (D2CCollection has the others).
Sweep ==
    /\ ~swept /\ debit = None
    /\ swept' = TRUE
    /\ foretold' = PredictNextPayday(History, day)
    /\ debit' = IF foretold' # None /\ foretold' <= day THEN day ELSE None
    /\ UNCHANGED <<day, account>>

NextDay ==
    /\ swept \/ debit # None
    /\ \E d \in Days :
        /\ day < d /\ \A e \in Days : day < e => d <= e
        /\ day' = d
    /\ swept' = FALSE
    /\ UNCHANGED <<account, foretold, debit>>

Next == (\E m \in Movements : Post(m)) \/ Sweep \/ NextDay

Spec == Init /\ [][Next]_vars

-----------------------------------------------------------------------------
(* Properties *)

INSTANCE Relation

\* largestAmountCluster groups "amounts [that] are mutually close (a chain)": sorting
\* and cutting finds exactly one class of the credits linked by closeness, however
\* the links run, and none is larger.
ClusterIsAClass ==
    LET credits == Credits(History, day)
        D == DOMAIN credits
        linked == ReflexiveTransitiveClosure(
                    [x, y \in D |-> SameAmount(credits[x], credits[y])], D)
        Class(i) == {j \in D : linked[i, j]}
        cluster == LargestAmountCluster(credits)
        Count(x) == Cardinality({i \in DOMAIN cluster : cluster[i] = x})
    IN  D # {} =>
        /\ \A i \in D : Cardinality(Class(i)) <= Len(cluster)
        /\ \E i \in D : /\ Cardinality(Class(i)) = Len(cluster)
                        /\ \A j \in Class(i) :
                              Count(credits[j]) =
                                  Cardinality({k \in Class(i) : credits[k] = credits[j]})

\* GetTransactions promises no order: the prediction is the same for every order
\* of the history.
OrderDoesNotMatter ==
    \A p \in Permutations(DOMAIN History) :
        PredictNextPayday([i \in DOMAIN History |-> History[p[i]]], day)
            = PredictNextPayday(History, day)

\* "A direct debit collection scheduled against a bad guess is money pulled from a
\* worker's account on a day nothing is actually there": whatever else moves on the
\* account, a debit is submitted only when, since the last pay of some recurring
\* amount, as many days have gone by as between two of its pays.
DebitWaitsACycle ==
    [][debit' # None /\ debit = None =>
        LET credits == Credits(History, day)
            Gap(i, j) == credits[j].date - credits[i].date
            Pay(i) == {j \in DOMAIN credits : SameAmount(credits[i], credits[j])}
        IN  \E i, j \in DOMAIN credits :
              /\ Gap(i, j) > 0 /\ j \in Pay(i)
              /\ \A k \in Pay(j) : day - credits[k].date >= Gap(i, j)]_vars
=============================================================================
