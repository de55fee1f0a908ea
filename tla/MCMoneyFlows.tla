---------------------------- MODULE MCMoneyFlows ----------------------------
(* A small instance of MoneyFlows for TLC: three lines, one with nothing to *)
(* pay and one whose employee may leave; two workers with an advance each,  *)
(* and deposits that may not cover both; two advances of a worker who links *)
(* two accounts, one sweep at a time and a rail that answers.               *)
EXTENDS MoneyFlows

OneEach == [a \in Advances |-> 1]
MCOwner == [a \in 1 .. 2 |-> IF a = 1 THEN "w1" ELSE "w2"]
MCPay == [w \in Workers |-> 2]
=============================================================================
