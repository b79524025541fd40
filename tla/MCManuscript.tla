----------------------------- MODULE MCManuscript -----------------------------
(***************************************************************************)
(* Model checking of Manuscript.                                           *)
(***************************************************************************)
EXTENDS Manuscript

CONSTANTS q1, q2, q3, a, b, c

TwoQuestions   == {q1, q2}
ThreeQuestions == {q1, q2, q3}
TwoPieces      == {a, b}
ThreePieces    == {a, b, c}

===============================================================================
