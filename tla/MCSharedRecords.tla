-------------------------- MODULE MCSharedRecords --------------------------
(* A small instance of SharedRecords for TLC: three requests with one key,  *)
(* one of them with another body; two overlapping requests for codes of a   *)
(* phone, of which a day allows one; a day that holds three units of time   *)
(* and of which a worker claimed two twice, before claims were checked, and *)
(* a second day of the same week; and the postings below.                   *)
EXTENDS SharedRecords, TLC

MCBody == [r \in Callers |-> IF r = "q3" THEN "other" ELSE "same"]

MCOwner == [e \in Entries |-> "w"]
MCWorkDay == [e \in Entries |-> IF e = "e3" THEN 2 ELSE 1]
MCMinutes == [e \in Entries |-> 2]
MCWeekOf == [d \in Days |-> 1]
MCPeriodEnd == [n \in Periods |-> n + 1]

\* A deposit delivered twice, an advance, and a grant or a request that is no valid
\* posting, against a chart of accounts that is empty or partly made.
Entry(type, dir, amount, cur) == [type |-> type, dir |-> dir, amount |-> amount, cur |-> cur]
Posting(key, ls) == [key |-> key, lines |-> ls]
Deposit == Posting("deposit", <<Entry("cash_settlement", "debit", 5, "NGN"),
                                Entry("employer_funding", "credit", 5, "NGN")>>)
Advance == Posting("advance", <<Entry("advance_receivable", "debit", 2, "NGN"),
                                Entry("cash_settlement", "credit", 2, "NGN")>>)
Grant == Posting("grant", <<Entry("cash_settlement", "credit", 1, "NGN"),
                            Entry("hardship_grant_expense", "debit", 1, "NGN")>>)
Invalid ==
    {Posting("other", ls) : ls \in {
        <<Entry("cash_settlement", "debit", 3, "NGN"), Entry("wage_payable", "credit", 2, "NGN")>>,
        <<Entry("cash_settlement", "debit", 3, "NGN"), Entry("wage_payable", "credit", 3, "USD")>>,
        <<Entry("cash_settlement", "debit", 0, "NGN"), Entry("wage_payable", "credit", 0, "NGN")>>,
        <<Entry("cash_settlement", "debit", 3, "NGN"), Entry("wage_payable", "both", 3, "NGN")>>}}
MCRequests ==
    ("deposit" :> {Deposit}) @@ ("redelivery" :> {Deposit}) @@ ("advance" :> {Advance})
    @@ ("grant" :> {Grant} \cup Invalid)
MCCharts == {{}, {<<"cash_settlement", "NGN">>, <<"employer_funding", "NGN">>}}
MCNormal ==
    [t \in {"advance_receivable", "write_off_expense", "hardship_grant_expense"} |-> "debit"]
    @@ [t \in {"cash_settlement", "employer_funding", "wage_payable", "fee_income",
               "employee_savings"} |-> "credit"]
=============================================================================
