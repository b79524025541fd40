------------------------------ MODULE VoyageText ------------------------------
(***************************************************************************)
(* The directive of a voyage is a state kept as a text of TOML, which the  *)
(* user may edit: every answer reads it, fills in what is missing, and     *)
(* writes it anew.  A text with line breaks is written over several lines. *)
(* Of the texts in the state, the comment of the policy is followed, which *)
(* no answer replaces; of the rest, whether each table can be read.        *)
(*                                                                         *)
(* Texts are sequences of characters: LF, Backslash, Quote, the letter n,  *)
(* that stands in an escape for LF, and another one.                       *)
(***************************************************************************)
EXTENDS Naturals, Sequences, SequencesExt

CONSTANTS
    LF, Backslash, Quote, LetterN, Letter,
    Comments,   \* the comments that the user may write
    MaxRounds   \* a bound on how often the directive is written

VARIABLES
    tables,     \* what the text has of each table: "valid", "invalid", "value", "missing"
    foreign,    \* has it a table that a state has not?
    value,      \* the comment as it is written: over lines or not, and its characters
    rounds,     \* how often the directive was written
    checked,    \* what check_state notified of the text as it is
    wanted      \* history: the comment that the user wrote last

voyageVars == <<tables, foreign, value, rounds, checked, wanted>>

Tables == {"compass", "evolve_policy", "bearing"}
Chars  == {LF, Backslash, Quote, LetterN, Letter}

InitialComment == <<LF, Letter, LF>>

(***************************************************************************)
(* Writing and reading a text.                                             *)
(***************************************************************************)
EscapedChar(c) ==
    CASE c = LF -> <<Backslash, LetterN>>
      [] c \in {Backslash, Quote} -> <<Backslash, c>>
      [] OTHER -> <<c>>

Escaped(text) == FlattenSeq([k \in 1 .. Len(text) |-> EscapedChar(text[k])])

\* content.replace: each backslash and n is a line break, also where the first is
\* the second of two backslashes.
Unescaped(raw) ==
    FoldLeft(LAMBDA out, c : IF c = LetterN /\ out # <<>> /\ Last(out) = Backslash
                             THEN Append(Front(out), LF) ELSE Append(out, c), <<>>, raw)

\* Slip: a line break is set before the text and none behind it.
Multiline_Unclosed(text) ==
    IF LF \in ToSet(text)
    THEN [over |-> TRUE, raw |-> <<LF>> \o Front(Unescaped(Escaped(text)))]
    ELSE [over |-> FALSE, raw |-> Escaped(text)]

\* _convert_multiline_strings
Multiline(text) ==
    IF LF \in ToSet(text)
    THEN [over |-> TRUE, raw |-> <<LF>> \o Unescaped(Escaped(text)) \o <<LF>>]
    ELSE [over |-> FALSE, raw |-> Escaped(text)]

\* toml.loads: a backslash at the end of a line swallows the breaks that follow,
\* and the first break of several lines is left out.
ReadChar(at, c) ==
    CASE at.mode = "escape" /\ c = LF      -> [at EXCEPT !.mode = "skip"]
      [] at.mode = "escape" /\ c = LetterN -> [mode |-> "plain", out |-> Append(at.out, LF)]
      [] at.mode = "escape" /\ c # LF /\ c # LetterN -> [mode |-> "plain", out |-> Append(at.out, c)]
      [] at.mode = "skip" /\ c = LF        -> at
      [] at.mode # "escape" /\ c = Backslash -> [at EXCEPT !.mode = "escape"]
      [] OTHER -> [mode |-> "plain", out |-> Append(at.out, c)]

Parsed(v) == FoldLeft(ReadChar, [mode |-> "plain", out |-> <<>>], IF v.over THEN Tail(v.raw) ELSE v.raw).out

(***************************************************************************)
(* The state in the text.                                                  *)
(***************************************************************************)
VoyageInit ==
    /\ tables  = [t \in Tables |-> "missing"]
    /\ foreign = FALSE
    /\ value   = Multiline(InitialComment)
    /\ rounds  = 0
    /\ checked = "none"
    /\ wanted  = InitialComment

\* A value in the place of a table is no error that is expected.
ToBaseModels ==
    IF foreign \/ \E t \in Tables : tables[t] = "invalid" THEN "ValueError"
    ELSE IF \E t \in Tables : tables[t] = "value" THEN "TypeError"
    ELSE "read"

\* _complete_states: the comment read, or that of the initial state.
CompleteComment ==
    IF ToBaseModels = "read" /\ tables["evolve_policy"] = "valid" THEN Parsed(value) ELSE InitialComment

\* The user writes a comment, and the tables as it comes.
UserEdits ==
    /\ \E text \in Comments, over \in BOOLEAN :
          /\ wanted' = text
          /\ value'  = [over |-> over, raw |-> IF over THEN <<LF>> \o Escaped(text) ELSE Escaped(text)]
    /\ tables'  = [t \in Tables |-> "valid"]
    /\ foreign' = FALSE
    /\ checked' = "none"
    /\ UNCHANGED rounds

UserBreaks ==
    /\ \/ \E t \in Tables, is \in {"invalid", "value", "missing"} :
             tables' = [[u \in Tables |-> "valid"] EXCEPT ![t] = is] /\ UNCHANGED foreign
       \/ foreign' = ~foreign /\ UNCHANGED tables
    /\ checked' = "none"
    /\ UNCHANGED <<value, rounds, wanted>>

\* on_evolve and on_reflect: the state is completed and written back.
Answered ==
    /\ ToBaseModels # "TypeError" /\ rounds < MaxRounds
    /\ wanted'  = IF ToBaseModels = "read" /\ tables["evolve_policy"] = "valid" THEN wanted ELSE InitialComment
    /\ value'   = Multiline(CompleteComment)
    /\ tables'  = [t \in Tables |-> "valid"]
    /\ foreign' = FALSE
    /\ rounds'  = rounds + 1
    /\ checked' = "none"

\* Slip: what can be read is taken for a state.
CheckState_Readable ==
    /\ ToBaseModels # "TypeError"
    /\ checked' = IF ToBaseModels = "read" THEN "valid" ELSE "invalid"
    /\ UNCHANGED <<tables, foreign, value, rounds, wanted>>

\* check_state: only what has all the tables is a state.
CheckState ==
    /\ ToBaseModels # "TypeError"
    /\ checked' = IF ToBaseModels = "read" /\ \A t \in Tables : tables[t] = "valid" THEN "valid" ELSE "invalid"
    /\ UNCHANGED <<tables, foreign, value, rounds, wanted>>

VoyageNext == UserEdits \/ UserBreaks \/ Answered \/ CheckState

-----------------------------------------------------------------------------
(***************************************************************************)
(* Properties.                                                             *)
(***************************************************************************)
VoyageTypeOK ==
    /\ tables \in [Tables -> {"valid", "invalid", "value", "missing"}]
    /\ foreign \in BOOLEAN /\ value.over \in BOOLEAN /\ ToSet(value.raw) \subseteq Chars
    /\ rounds \in 0 .. MaxRounds /\ checked \in {"none", "valid", "invalid"}
    /\ ToSet(wanted) \subseteq Chars

Breaks(n) == [k \in 1 .. n |-> LF]

\* Does it hold a backslash and an n that are not one line break?
SpellsBreak(text) == \E k \in 1 .. Len(text) - 1 : text[k] = Backslash /\ text[k + 1] = LetterN

\* The comment of the user is kept by every answer, as it is when it has no line
\* breaks, and else with more of them at its end, one an answer: the test of the converter
\* compares without these.  Only a text that spells an escape is not kept.
CommentIsKept ==
    \/ LF \in ToSet(wanted) /\ SpellsBreak(wanted)
    \/ Parsed(value) = wanted \o Breaks(IF LF \in ToSet(wanted) THEN Len(Parsed(value)) - Len(wanted) ELSE 0)

\* What check_state calls valid is what an answer goes by: nothing in it is filled
\* in or set back.
CheckTellsTheTruth ==
    checked = "valid" => CompleteComment = Parsed(value) /\ \A t \in Tables : tables[t] = "valid"

=============================================================================
