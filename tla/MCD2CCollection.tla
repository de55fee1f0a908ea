-------------------------- MODULE MCD2CCollection --------------------------
(* A small instance of D2CCollection for TLC. *)
EXTENDS D2CCollection

CONSTANTS a1, s1

OneAdvance == {a1}
MCAmount == [a \in Advances |-> 1]
OneSweeper == {s1}
=============================================================================
