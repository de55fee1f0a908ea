--------------------------- MODULE MCWageAdvance ---------------------------
(* A small instance of WageAdvance for TLC. *)
EXTENDS WageAdvance, TLC

CONSTANTS w1, w2, d1, d2, k1, k2

OneWorker == {w1}
OneOwner == [a \in AdvanceIds |-> w1]
MCAmounts == {1, 2}
MCPay == [w \in Workers |-> 2]
NoDeposits == {}
OneTask == {k1}

Symmetric == Permutations(Tasks) \cup Permutations(Deposits)
=============================================================================
