----------------------------- MODULE MCAccounts -----------------------------
(* A small instance of Accounts for TLC. *)
EXTENDS Accounts

\* An update of a policy carries any part of its two columns.
MCFields == {"cooling", "pct"}
MCValid == [f \in MCFields |-> IF f = "cooling" THEN {0, 2} ELSE {1, 2}]
MCDefault == [f \in MCFields |-> 2]
=============================================================================
