-------------------------- MODULE DisbursementRun --------------------------
(***************************************************************************)
(* What disbursing a payroll promises, with no worker, queue, counter or   *)
(* callback in sight.  Each line is due, out at the bank or paid, and is   *)
(* sent under a reference.  A run sends some of the due lines out together *)
(* and only when none is out; a line that is out is paid or comes back; a  *)
(* paid line is never due again; and a line gets a fresh reference only    *)
(* while it is due, so the reference of money in flight never changes.     *)
(***************************************************************************)
EXTENDS Naturals

CONSTANT Lines

VARIABLES line, ref

vars == <<line, ref>>

Init ==
    /\ line \in [Lines -> {"due", "paid"}]
    /\ ref = [l \in Lines |-> 1]

\* Become(S, s): the lines of S, and only they, move to state s.
Become(S, s) ==
    /\ line' = [l \in Lines |-> IF l \in S THEN s ELSE line[l]]
    /\ ref' = ref

Due == {l \in Lines : line[l] = "due"}
Out == {l \in Lines : line[l] = "out"}

\* A run claims the lines it sends; no other run is under way.
Claim(S) == Out = {} /\ Become(S, "out")

PayOut(l) == line[l] = "out" /\ Become({l}, "paid")

\* One line fails, or the bank refuses the whole list.
Return(l) == line[l] = "out" /\ Become({l}, "due")
ReturnAll == Become(Out, "due")

\* Lines that failed get their next reference.
Renew(S) ==
    /\ ref' = [l \in Lines |-> IF l \in S THEN ref[l] + 1 ELSE ref[l]]
    /\ line' = line

Next ==
    \/ \E S \in SUBSET Due : Claim(S) \/ Renew(S)
    \/ \E l \in Lines : PayOut(l) \/ Return(l)
    \/ ReturnAll

Spec == Init /\ [][Next]_vars
=============================================================================
