-------------------------------- MODULE Lines --------------------------------
(***************************************************************************)
(* Text on its way through the editor: a sequence of characters, which is  *)
(* handed over as lines.  LF is the character that breaks them.            *)
(*                                                                         *)
(* What is computed character by character is a fold.  Here its step is a  *)
(* function, so that one theorem about Folded is about all of them.        *)
(***************************************************************************)
EXTENDS Naturals, SequencesExt

CONSTANTS
    Characters  \* the characters of texts, LF among them

LF == "n"

ASSUME LinesAssumption == LF \in Characters

Strings     == Seq(Characters)
StringLists == Seq(Strings)

\* The step taken with each element of s in turn, the first one from base.
Folded(step, base, s) ==
    LET upTo[n \in 0 .. Len(s)] == IF n = 0 THEN base ELSE step[upTo[n - 1]][s[n]]
    IN  upTo[Len(s)]

\* Texts behind one another.
AddText     == [text \in Strings |-> [more \in Strings |-> text \o more]]
Flat(texts) == Folded(AddText, <<>>, texts)

\* The lines of a text: a break begins a line, which may stay empty.
CutStep ==
    [lines \in StringLists |-> [c \in Characters |->
        IF c = LF THEN Append(lines, <<>>) ELSE Append(Front(lines), Append(Last(lines), c))]]
CutLines(text) == Folded(CutStep, <<<<>>>>, text)

\* The text of lines, with its breaks.
JoinStep == [text \in Strings |-> [line \in Strings |-> Append(text, LF) \o line]]
JoinLines(lines) == Folded(JoinStep, Head(lines), Tail(lines))

\* A text without its breaks, and the lines that are not empty.
UnbrokenStep   == [text \in Strings |-> [c \in Characters |-> IF c = LF THEN text ELSE Append(text, c)]]
Unbroken(text) == Folded(UnbrokenStep, <<>>, text)
SolidStep      == [lines \in StringLists |-> [line \in Strings |->
                      IF line = <<>> THEN lines ELSE Append(lines, line)]]
Solid(lines)   == Folded(SolidStep, <<>>, lines)
==============================================================================
