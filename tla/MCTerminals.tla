----------------------------- MODULE MCTerminals -----------------------------
(***************************************************************************)
(* Model checking of terminals: two that want one buffer, and two sends.   *)
(***************************************************************************)
EXTENDS Terminals, TLC

CONSTANTS j1, j2, b1, s1, s2

TwoJobs    == {j1, j2}
OneBuffer  == {b1}
AllEditors == {"vim", "nvim", "vscode"}
Neovim     == {"nvim"}
BothParts  == {"life", "typing"}
OnlyTyping == {"typing"}
TwoSends   == {s1, s2}

\* The first send of IPython's driver, cut to its kinds of operation, and a
\* command of two lines in a shell.
PasteAndLines == s1 :> <<"until", "wait", "text", "wait", "text">> @@ s2 :> <<"text", "text">>
===============================================================================
