----------------------------- MODULE MCPayRules -----------------------------
(* A small instance of PayRules for TLC. *)
EXTENDS PayRules

\* Every amount up to that of "1.11", and slices of the edges of the range.
MCEdges == {-112, -111, -1, 0, 1, 110, 111}
MCAmounts == -112 .. 111
MCColumns == UNION {[1 .. n -> MCEdges] : n \in 0 .. 3}
MCExponent == [c \in {"NGN", "XOF"} |-> IF c = "NGN" THEN 2 ELSE 0]
\* Every string of up to five characters.
MCTexts == UNION {[1 .. n -> {"-", "+", ".", "1", "5"}] : n \in 0 .. 5}

MCSavings == {[mode |-> "off"], [mode |-> "fixed_percent", amount |-> 90],
              [mode |-> "round_up", amount |-> 20]}

\* Small and large draws under the default limit of four a month; tenths of the salary
\* under a generous limit.
MCHabits == {<<4, 5>>, <<4, 25>>}
MCHeavyHabits == {<<7, 10>>}

\* Months that shrink, grow and shrink again; three bills at a time.
MCLengths == <<31, 28, 31, 30>>
MCRecordable ==
    {[id |-> 1, amount |-> 2, due |-> 31], [id |-> 2, amount |-> 3, due |-> 29],
     [id |-> 3, amount |-> 1, due |-> 15], [id |-> 4, amount |-> 2, due |-> 15]}

\* Amounts in a chain (10 and 11 are close, 11 and 12, not 10 and 12), a debit, and
\* a pay that is dated a day ahead.
MCMovements ==
    {[amount |-> 10, credit |-> TRUE, ahead |-> 0],
     [amount |-> 11, credit |-> TRUE, ahead |-> 0],
     [amount |-> 12, credit |-> TRUE, ahead |-> 1],
     [amount |-> 10, credit |-> FALSE, ahead |-> 0]}

\* A day holds three units of time; a worker claimed two of them twice before claims
\* were checked.
MCOwner == [e \in Entries |-> "w"]
MCWorkDay == [e \in Entries |-> IF e = "e3" THEN 2 ELSE 1]
MCMinutes == [e \in Entries |-> 2]
MCWeekOf == [d \in WorkDates |-> 1]
MCPeriodEnd == [n \in Periods |-> n + 1]
=============================================================================
