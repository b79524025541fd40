------------------------------- MODULE Scripts -------------------------------
(***************************************************************************)
(* What the cursor is on: the test of a script that is to be run           *)
(* (tools/pytest/utils/script_decipher.py), and the block of code of a     *)
(* page of Markdown, which decides the driver that its lines are sent to   *)
(* (tools/markdown, tools/console/selector.py).  Lines count from 1 in a   *)
(* script and from 0 on a page.                                            *)
(***************************************************************************)
EXTENDS Naturals, SequencesExt

CONSTANTS
    MaxParts,   \* bound: the definitions of a script, in and out of classes
    MaxPage,    \* bound: the lines of a page
    NoBlock     \* no test, no block

VARIABLES   \* one of them is written
    script,     \* the definitions, from above
    markdown    \* the lines of the page

scriptVars == <<script, markdown>>

\* A method is in the class above it.  A class is a line of its own, any other a line
\* and a body; a decorator is one line before.
Kinds   == {"def", "decorated", "async", "class", "decorated class", "method", "decorated method"}
Classes == {"class", "decorated class"}
Methods == {"method", "decorated method"}
Decorators(d) == IF d.kind \in {"decorated", "decorated class", "decorated method"} THEN 1 ELSE 0
Size(d) == d.blank + Decorators(d) + IF d.kind \in Classes THEN 1 ELSE 2
Fences  == {"python", "bash", ""}   \* what stands behind the sign of a block

ScriptInit == script = <<>> /\ markdown = <<>>

Define ==
    /\ Len(script) < MaxParts /\ markdown = <<>>
    /\ \E kind \in Kinds, blank \in 0 .. 1 :
          /\ kind \in Methods => script # <<>> /\ Last(script).kind \in Classes \cup Methods
          /\ script # <<>> /\ Last(script).kind \in Classes => kind \in Methods
          /\ script' = Append(script, [kind |-> kind, blank |-> blank])
    /\ UNCHANGED markdown

Write ==
    /\ Len(markdown) < MaxPage /\ script = <<>>
    /\ \E line \in Fences \cup {"text"} : markdown' = Append(markdown, line)
    /\ UNCHANGED script

ScriptNext == Define \/ Write

------------------------------------------------------------------------------
(* ScriptDecipher, on the tree of the parser.                               *)

Above(k)  == FoldLeft(LAMBDA n, d : n + Size(d), 0, SubSeq(script, 1, k - 1))
Start(k)  == Above(k) + script[k].blank + Decorators(script[k]) + 1
LastLine(k) == Above(k + 1)

\* Slip: the end of the class is taken for that of the method.
EndLine_OfTheClass(k) ==
    IF script[k].kind \notin Methods THEN LastLine(k) + 1
    ELSE 1 + LET class == {m \in k .. Len(script) : \A n \in k .. m : script[n].kind \in Methods}
             IN  LastLine(CHOOSE m \in class : \A n \in class : n <= m)

\* The parser has a function end where the next line begins.
EndLine(k) == LastLine(k) + 1
ClassOf(k) == CHOOSE c \in 1 .. k : script[c].kind \in Classes
                                    /\ \A m \in c + 1 .. k : script[m].kind \in Methods

\* _gather_test_funcs and _gather_test_class_methods.  At the top neither async
\* functions nor decorated classes are looked into.
GatheredFunctions == SelectSeq([k \in 1 .. Len(script) |-> k], LAMBDA k : script[k].kind \in {"def", "decorated"})
GatheredMethods ==
    SelectSeq([k \in 1 .. Len(script) |-> k],
              LAMBDA k : script[k].kind \in Methods /\ script[ClassOf(k)].kind = "class")
Targets == GatheredFunctions \o GatheredMethods

Pick(line) ==
    LET at == SelectSeq(Targets, LAMBDA k : Start(k) <= line /\ line <= EndLine(k))
    IN  IF at = <<>> THEN 0 ELSE Head(at)

------------------------------------------------------------------------------
(* MarkdownExtractor and TerminalSelector.                                  *)

\* A sign closes the block that is open; what stands behind it is looked at when it
\* opens one.  A block that is not closed is none.
CodeBlocks ==
    FoldLeft(LAMBDA acc, k :
        IF markdown[k] = "text" THEN acc
        ELSE IF acc.open = NoBlock THEN [acc EXCEPT !.open = [type |-> markdown[k], start |-> k]]
        ELSE [open |-> NoBlock,
              blocks |-> Append(acc.blocks, [type |-> acc.open.type, start |-> acc.open.start, end |-> k - 1])],
        [open |-> NoBlock, blocks |-> <<>>], [k \in 1 .. Len(markdown) |-> k]).blocks

GetCurrentCodeBlock(position) ==
    LET at == SelectSeq(CodeBlocks, LAMBDA b : b.start <= position /\ position < b.end)
    IN  IF at = <<>> THEN NoBlock ELSE Head(at)

GetPreferrableDriver(position) ==
    LET block == GetCurrentCodeBlock(position)
    IN  IF block # NoBlock /\ block.type = "python" THEN "ipython" ELSE "shell"

------------------------------------------------------------------------------
(* Properties                                                               *)

ScriptTypeOK ==
    /\ \A k \in 1 .. Len(script) : script[k].kind \in Kinds /\ script[k].blank \in 0 .. 1
    /\ ToSet(markdown) \subseteq Fences \cup {"text"}

\* The test that is run is the one the cursor is in, unless the cursor is on the first
\* line of it and another ends right above: then that one is run.  Outside of all,
\* only the line right behind a test stands for it.
PicksItsTest ==
    \A line \in 1 .. Above(Len(script) + 1) + 1 :
        LET picked == Pick(line)
            In(k)  == Start(k) <= line /\ line <= LastLine(k)
        IN  /\ picked # 0 /\ ~In(picked) => line = LastLine(picked) + 1
            /\ \A k \in ToSet(Targets) : In(k) =>
                   picked = k \/ (line = Start(k) /\ line = LastLine(picked) + 1)

\* Only what is within a closed block of Python is sent to IPython.
OnlyPythonIsForIPython ==
    \A position \in 0 .. Len(markdown) - 1 :
        LET Signs(lo, hi) == {k \in lo .. hi : markdown[k] # "text"}
            above == Signs(1, position)
        IN  GetPreferrableDriver(position) = "ipython" <=>
                /\ Cardinality(above) % 2 = 1
                /\ markdown[Max(above)] = "python"
                /\ markdown[position + 1] = "text"
                /\ Signs(position + 1, Len(markdown)) # {}
===============================================================================
