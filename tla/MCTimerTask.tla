----------------------------- MODULE MCTimerTask -----------------------------
(***************************************************************************)
(* Model checking of TimerTask: the names and repeat counts of its runs.   *)
(***************************************************************************)
EXTENDS TimerTask

CONSTANTS n1, n2, n3

OneName     == {n1}
TwoNames    == {n1, n2}
ThreeNames  == {n1, n2, n3}
MCRepeats   == {-1, 1, 2}
=============================================================================
