----------------------------- MODULE MCCommandJob -----------------------------
(***************************************************************************)
(* Model checking of CommandJob.                                           *)
(***************************************************************************)
EXTENDS CommandJob

CONSTANTS j1, j2, k1

TwoJobs == {j1, j2}
OneKind == {k1}
Both    == {"vim", "nvim"}
===============================================================================
