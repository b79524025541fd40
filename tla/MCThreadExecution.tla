-------------------------- MODULE MCThreadExecution --------------------------
(***************************************************************************)
(* Model checking of ThreadExecution.                                      *)
(***************************************************************************)
EXTENDS ThreadExecution

CONSTANTS r1, r2, r3, t1, t2, t3

ThreeRequests == {r1, r2, r3}
ThreeTids     == {t1, t2, t3}
TwoTids       == {t1, t2}
IdReused      == {"id reused"}
=============================================================================
