---------------------------- MODULE MCRepayments ----------------------------
(* A small instance of Repayments for TLC: one worker with two advances     *)
(* over two payroll periods; an advance that two sweeps collect at once.    *)
EXTENDS Repayments

OneOwner == [a \in AdvanceIds |-> "w1"]
PayOfTwo == [w \in Workers |-> 2]
OneEach == [a \in Advances |-> 1]
=============================================================================
