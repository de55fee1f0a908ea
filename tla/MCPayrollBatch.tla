--------------------------- MODULE MCPayrollBatch ---------------------------
(* Model values for PayrollBatch, interchangeable where nothing tells them  *)
(* apart.                                                                   *)
EXTENDS PayrollBatch, TLC

CONSTANTS i1, i2, i3, t1, t2, t3, h1, h2

MCItems == {i1, i2}
MCThreeItems == {i1, i2, i3}
MCTasks == {t1, t2, t3}
MCTwoTasks == {t1, t2}
MCHandlers == {h1, h2}
MCOneHandler == {h1}
MCLeavers == {i2}
NoItems == {}
OneZeroNet == {i3}

AllOverlap == {"settlement", "retry"}
SerialSettlement == {"retry"}

Symmetric == Permutations(Tasks) \cup Permutations(Handlers)
=============================================================================
