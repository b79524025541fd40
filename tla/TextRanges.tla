----------------------------- MODULE TextRanges -----------------------------
(***************************************************************************)
(* The text of a buffer (shared/lib/text, ui/pytoy_buffer): ranges of      *)
(* characters and of lines, what they hold, what takes their place, where  *)
(* a text is found, and output appended batch by batch.  Lines and columns *)
(* count from 0, and the end of a range is not in it.  A line is a         *)
(* sequence of characters, and a text holds LF between its lines.          *)
(***************************************************************************)
EXTENDS Integers, FiniteSets, SequencesExt

CONSTANTS
    SomeLines,  \* buffers of a behaviour
    SomeTexts,  \* texts that are written, searched or appended
    LF, None

VARIABLES
    lines,      \* the buffer
    did         \* history: the last operation, what it was given and what it returned

textVars == <<lines, did>>

NoOp == [op |-> "none"]
TextInit == lines \in SomeLines /\ did = NoOp

------------------------------------------------------------------------------
(* Texts.  Python's slices end where the sequence ends.                     *)

Slice(s, i, j) == SubSeq(s, i + 1, IF j > Len(s) THEN Len(s) ELSE j)   \* s[i:j]
From(s, i)     == Slice(s, i, Len(s))
Join(ls) == IF ls = <<>> THEN <<>> ELSE FoldLeft(LAMBDA t, l : t \o <<LF>> \o l, Head(ls), Tail(ls))
Cut(text) ==   \* text.split("\n")
    FoldLeft(LAMBDA ls, c : IF c = LF THEN Append(ls, <<>>)
                            ELSE Append(Front(ls), Append(Last(ls), c)), <<<<>>>>, text)

Pos(l, c) == [line |-> l, col |-> c]
Before(p, q) == p.line < q.line \/ (p.line = q.line /\ p.col < q.col)

\* CharacterRange.__post_init__ is meant to swap a range that is given backwards;
\* both ends become the earlier one.
MakeRange(s, e) == IF Before(e, s) THEN [start |-> e, end |-> e] ELSE [start |-> s, end |-> e]

\* Positions of a cursor in the buffer, and the one behind the last line, where
\* entire_character_range ends.
Positions(ls) == UNION {{Pos(l - 1, c) : c \in 0..Len(ls[l])} : l \in 1..Len(ls)} \cup {Pos(Len(ls), 0)}
Ranges(ls)    == {MakeRange(s, e) : s, e \in Positions(ls)}

------------------------------------------------------------------------------
(* VimBufferRangeHandler, by which Vim, Neovim and VS Code read and write.  *)

\* The lines that a range touches: with its end before a line it leaves that out.
EndLine(r) == IF r.end.col = 0 THEN r.end.line ELSE r.end.line + 1

GetText(ls, r) ==
    LET touched == Slice(ls, r.start.line, EndLine(r))
        n       == Len(touched)
        last    == IF r.end.col = 0 THEN touched ELSE [touched EXCEPT ![n] = Slice(@, 0, r.end.col)]
    IN  IF n = 0 THEN <<>>
        ELSE Join([last EXCEPT ![1] = From(@, r.start.col)])
             \o (IF r.end.col = 0 /\ r.end.line < Len(ls) THEN <<LF>> ELSE <<>>)

\* The lines the text is written as, with what stands before and behind it in
\* the lines that the range touches.
Surrounded_TextOnly(ls, r, text) == Cut(text)
Surrounded(ls, r, text) ==
    LET touched == Slice(ls, r.start.line, EndLine(r))
        prefix  == IF touched = <<>> THEN <<>> ELSE Slice(Head(touched), 0, r.start.col)
        suffix  == IF r.end.col = 0 THEN <<>> ELSE From(Last(touched), r.end.col)
    IN  Cut(prefix \o text \o suffix)

ReplacedRange(r, text) ==
    LET cut == Cut(text)
    IN  [start |-> r.start,
         end |-> Pos(r.start.line + Len(cut) - 1,
                     Len(Last(cut)) + IF Len(cut) = 1 THEN r.start.col ELSE 0)]

\* Document.get_range of VS Code: a position behind the text is its end.
Offset(ls, p) ==
    IF p.line >= Len(ls) THEN Len(Join(ls))
    ELSE Len(Join(SubSeq(ls, 1, p.line))) + (IF p.line = 0 THEN 0 ELSE 1)
         + (IF p.col > Len(ls[p.line + 1]) THEN Len(ls[p.line + 1]) ELSE p.col)
GetRange(ls, r) == Slice(Join(ls), Offset(ls, r.start), Offset(ls, r.end))

Spliced(ls, i, j, new) == Slice(ls, 0, i) \o new \o From(ls, IF j < i THEN i ELSE j)

ReplaceText(r, text) ==
    /\ lines' = Spliced(lines, r.start.line, EndLine(r), Surrounded(lines, r, text))
    /\ did' = [op |-> "replace", range |-> r, text |-> text, old |-> lines,
               returned |-> ReplacedRange(r, text)]

\* replace_lines of VS Code writes the lines it is given; that of Vim puts the
\* whole buffer in the place of the range.
ReplaceLines(i, j, new, vim) ==
    /\ lines' = Spliced(lines, i, j, IF vim THEN lines ELSE new)
    /\ did' = [op |-> "lines", given |-> new, vim |-> vim,
               got |-> Slice(lines', i, i + Len(IF vim THEN lines ELSE new))]

------------------------------------------------------------------------------
(* TextSearcher: it searches in a copy of the range and maps the places back. *)

Searched(ls, r) ==
    IF r = None THEN ls
    ELSE IF r.start.line = r.end.line
    THEN <<Slice(ls[r.start.line + 1], r.start.col, r.end.col)>>
    ELSE <<From(ls[r.start.line + 1], r.start.col)>> \o Slice(ls, r.start.line + 1, r.end.line)
         \o <<Slice(ls[r.end.line + 1], 0, r.end.col)>>

\* _index_to_cursor and _solve_offset: only the first line is moved by columns.
CursorAt(ls, r, index) ==
    LET cut == Cut(Slice(Join(ls), 0, index))
        l   == Len(cut) - 1
    IN  Pos(l + IF r = None THEN 0 ELSE r.start.line,
            Len(Last(cut)) + IF l = 0 /\ r # None THEN r.start.col ELSE 0)

Indexes(text, all) == {i \in 0..Len(all) - Len(text) : Slice(all, i, i + Len(text)) = text}
FoundAt(r, i, n) ==
    MakeRange(CursorAt(Searched(lines, r), r, i), CursorAt(Searched(lines, r), r, i + n))

FindFirst(text, r, reverse) ==
    LET at == Indexes(text, Join(Searched(lines, r)))
    IN  IF text = <<>> \/ at = {} THEN None
        ELSE FoundAt(r, IF reverse THEN Max(at) ELSE Min(at), Len(text))

\* find_all goes on behind what it found.
Skipping(at, n) ==
    FoldLeft(LAMBDA got, i : IF got # <<>> /\ i < Last(got) + n THEN got ELSE Append(got, i),
             <<>>, SetToSortSeq(at, <))
FindAll(text, r) ==
    LET at == Indexes(text, Join(Searched(lines, r)))
    IN  IF text = <<>> THEN <<>>
        ELSE [k \in 1..Len(Skipping(at, Len(text))) |-> FoundAt(r, Skipping(at, Len(text))[k], Len(text))]

\* A range that ends behind the last line cannot be searched: the line is not there.
Search(text, r, reverse) ==
    /\ r # None => r.end.line < Len(lines)
    /\ did' = [op |-> "find", text |-> text, range |-> r, reverse |-> reverse,
               first |-> FindFirst(text, r, reverse), every |-> FindAll(text, r)]
    /\ UNCHANGED lines

------------------------------------------------------------------------------
(* What QueueUpdater took from the queue is appended: a text that is empty   *)
(* is not, and an empty buffer is replaced.  VS Code appends to the text of  *)
(* its document, where a line break comes first unless there is no text.     *)

Appended(ls, text) ==
    IF text = <<>> THEN ls ELSE IF ls = <<<<>>>> THEN Cut(text) ELSE ls \o Cut(text)
Break(document) == IF document = <<>> THEN <<>> ELSE <<LF>>
DocumentAppended(ls, text) ==
    IF text = <<>> THEN ls ELSE Cut(Join(ls) \o Break(Join(ls)) \o text)
AppendText(text, vim) ==
    /\ lines' = IF vim THEN Appended(lines, text) ELSE DocumentAppended(lines, text)
    /\ did' = [op |-> "append", text |-> text, old |-> lines]

\* On VS Code the content that a buffer starts with ends its last line.
InitBuffer(text, vim) ==
    /\ lines' = Cut(IF vim \/ text = <<>> \/ Last(text) = LF THEN text ELSE Append(text, LF))
    /\ did' = [op |-> "init", text |-> text, old |-> <<>>]

\* Each operation on each buffer.
TextNext ==
    /\ did = NoOp
    /\ \E text \in SomeTexts :
        \/ \E r \in Ranges(lines) : ReplaceText(r, text)
        \/ \E i, j \in 0..Len(lines), vim \in BOOLEAN : i <= j /\ ReplaceLines(i, j, Cut(text), vim)
        \/ \E vim \in BOOLEAN : AppendText(text, vim) \/ InitBuffer(text, vim)
        \/ \E r \in Ranges(lines) \cup {None}, reverse \in BOOLEAN : Search(text, r, reverse)

------------------------------------------------------------------------------
(* Properties                                                               *)

TextTypeOK == lines # <<>> /\ LF \notin UNION {Range(l) : l \in Range(lines)}

\* What was written is what the returned range holds, in the buffer and in the
\* document of VS Code, which is waited for; nothing outside of the range that was
\* replaced has changed.
ReplacedIsThere ==
    did.op = "replace" =>
        LET r == did.range
            all == MakeRange(Pos(0, 0), Pos(Len(did.old), 0))
        IN  /\ GetText(lines, did.returned) = did.text
            /\ GetRange(lines, did.returned) = did.text
            /\ IsPrefix(GetText(did.old, [all EXCEPT !.end = r.start]), Join(lines))
            /\ IsSuffix(GetText(did.old, [all EXCEPT !.start = r.end]), Join(lines))

\* A text that is found is there and within the range that was searched; it is
\* the first or the last one, and what is found of it everywhere does not overlap.
FoundIsThere ==
    did.op = "find" =>
        LET Inside(f) == did.range = None \/
                (~Before(f.start, did.range.start) /\ ~Before(did.range.end, f.end))
        IN  /\ \A f \in Range(did.every) \cup ({did.first} \ {None}) :
                   GetText(lines, f) = did.text /\ Inside(f)
            /\ did.first = None <=> did.every = <<>>
            /\ did.first # None /\ ~did.reverse => did.first = did.every[1]
            /\ \A k \in 1..Len(did.every) - 1 : ~Before(did.every[k + 1].start, did.every[k].end)

\* Output is appended in order and whole; only empty lines may be missing or more.
\* VS Code appends as Vim does.
OutputIsAppended ==
    /\ did.op \in {"append", "init"} =>
        LET Solid(ls) == SelectSeq(ls, LAMBDA l : l # <<>>)
        IN  Solid(lines) = Solid(did.old) \o Solid(Cut(did.text))
    /\ did.op = "append" => lines = Appended(did.old, did.text)

\* The lines that were given are what the range holds afterwards, on VS Code.
LinesAreReplaced == did.op = "lines" /\ ~did.vim => did.got = did.given
=============================================================================
