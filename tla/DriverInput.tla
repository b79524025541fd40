----------------------------- MODULE DriverInput -----------------------------
(***************************************************************************)
(* What the drivers of a terminal make of a text that is sent to it        *)
(* (terminal_runner/drivers and TerminalJobCore.deal_operation): a shell   *)
(* is sent line by line, with the lines that continue joined to one, and   *)
(* IPython is sent the whole text between two commands of its own.         *)
(***************************************************************************)
EXTENDS Naturals, SequencesExt

CONSTANTS
    Letters,     \* characters that are no blank and continue no line
    MaxTyped     \* bound: characters of a text

LF    == "n"
CR    == "r"
Blank == "_"
Joins == "j"     \* one of the characters that continue a line

VARIABLE typed   \* the text to be sent

Chars == Letters \cup {LF, CR, Blank, Joins}

DriverInit == typed = <<>>
DriverNext ==
    /\ Len(typed) < MaxTyped
    /\ \E c \in Chars : typed' = Append(typed, c)

------------------------------------------------------------------------------
Trimmed(s, chars) ==
    LET kept == {i \in DOMAIN s : s[i] \notin chars}
    IN  IF kept = {} THEN <<>> ELSE SubSeq(s, 1, CHOOSE i \in kept : \A j \in kept : j <= i)
Stripped(s, chars) == Reverse(Trimmed(Reverse(Trimmed(s, chars)), chars))

Lines(text, at) ==
    FoldLeft(LAMBDA ls, c : IF c = at THEN Append(ls, <<>>)
                            ELSE Append(Front(ls), Append(Last(ls), c)), <<<<>>>>, text)

Continues(line) == line # <<>> /\ Last(line) = Joins

\* Slip: a text that ends in a line that continues loses it.
ShellOperations_DropsTheRest(text) ==
    LET Step(acc, raw) ==
            LET line == Trimmed(raw, {CR, Blank})
            IN  IF Continues(line)
                THEN [acc EXCEPT !.buffer = @ \o Append(Front(line), Blank)]
                ELSE [ops |-> Append(acc.ops, acc.buffer \o line), buffer |-> <<>>]
    IN  FoldLeft(Step, [ops |-> <<>>, buffer |-> <<>>], Lines(text, LF)).ops

\* The character that continues a line is replaced by a blank and the next line is
\* joined to it; every other line ends an operation.
ShellOperations(text) ==
    LET Step(acc, raw) ==
            LET line == Trimmed(raw, {CR, Blank})
            IN  IF Continues(line)
                THEN [acc EXCEPT !.buffer = @ \o Append(Front(line), Blank)]
                ELSE [ops |-> Append(acc.ops, acc.buffer \o line), buffer |-> <<>>]
        all == FoldLeft(Step, [ops |-> <<>>, buffer |-> <<>>], Lines(text, LF))
    IN  IF all.buffer = <<>> THEN all.ops ELSE Append(all.ops, all.buffer)

\* A line is sent with the driver's end of line, raw text as it is.
Payload(op, raw, eol) == IF raw THEN op ELSE Trimmed(op, {CR, LF}) \o eol

\* The text between %cpaste and --: with carriage returns for its line ends, and
\* none at its ends.
PasteBody(text) ==
    LET unix == FoldLeft(LAMBDA t, c : IF c = LF /\ t # <<>> /\ Last(t) = CR
                                       THEN Append(Front(t), LF) ELSE Append(t, c), <<>>, text)
    IN  Stripped([i \in DOMAIN unix |-> IF unix[i] = LF THEN CR ELSE unix[i]], {CR})

\* What IPython is sent: waits are left out.
PasteOperations(text) ==
    << <<"%cpaste", LF>>, PasteBody(text), <<CR, "--", CR>> >>

------------------------------------------------------------------------------
(* Properties                                                               *)

DriverTypeOK == typed \in Seq(Chars)

Solid(s) == SelectSeq(s, LAMBDA c : c \notin {Blank, CR, LF})

\* A shell is sent a line for every line that does not continue, and one more for
\* an end that does; what it is sent has all characters of the text in order but
\* those that continue a line, and the end of each line only at its end.
ShellGetsEveryLine ==
    LET lines == Lines(typed, LF)
        plain == [i \in DOMAIN lines |-> Trimmed(lines[i], {CR, Blank})]
        cut   == [i \in DOMAIN lines |-> IF Continues(plain[i]) THEN Front(plain[i]) ELSE plain[i]]
        ops   == ShellOperations(typed)
    IN  /\ Len(ops) = Len(SelectSeq(plain, LAMBDA l : ~Continues(l)))
                      + IF Continues(Last(plain)) THEN 1 ELSE 0
        /\ Solid(FlattenSeq(ops)) = Solid(FlattenSeq(cut))
        /\ \A i \in DOMAIN ops : Payload(ops[i], FALSE, <<LF>>) = Append(ops[i], LF)

\* IPython is sent the lines of the text between its two commands: nothing but the
\* empty lines at the ends is missing, and no line end is doubled.
IPythonGetsTheText ==
    LET body  == Payload(PasteOperations(typed)[2], TRUE, <<LF>>)
        lines == Lines(typed, LF)
    IN  /\ Solid(body) = Solid(typed)
        /\ body # <<>> => Head(body) # CR /\ Last(body) # CR
        /\ (\A i \in DOMAIN lines : \A k \in 1..Len(lines[i]) - 1 : lines[i][k] # CR) =>
               Len(Lines(body, CR)) <= Len(lines)
===============================================================================
