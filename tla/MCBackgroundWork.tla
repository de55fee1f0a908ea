-------------------------- MODULE MCBackgroundWork --------------------------
(* A small instance of BackgroundWork for TLC: a batch of two lines with    *)
(* two tasks; two grants of two; a BVN check with the code's five retries;  *)
(* one advance that a sweep collects.                                       *)
EXTENDS BackgroundWork

TwoEach == [g \in Grants |-> 2]
OneEach == [a \in Advances |-> 1]
=============================================================================
