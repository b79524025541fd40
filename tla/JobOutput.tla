------------------------------ MODULE JobOutput ------------------------------
(***************************************************************************)
(* What a command prints on its way into buffers (job_execution/           *)
(* command_runner): the process writes pieces of text to two streams, the  *)
(* editor hands them over as lines, the job keeps the lines and the runner *)
(* appends them to the buffers that were asked for, which may be wiped out *)
(* meanwhile.  CommandJob has the life of the job around this.             *)
(***************************************************************************)
EXTENDS Lines

CONSTANTS
    JobEditors,    \* "vim", "nvim", or "dummy", where threads read the pipes
    Pieces,     \* texts that are written at once
    MaxWrites   \* bound: pieces written to a stream

ASSUME OutAssumption == JobEditors \subseteq {"vim", "nvim", "dummy"} /\ Pieces \subseteq Strings \ {<<>>}

VARIABLES
    jobEditor,  \* the editor
    asked,      \* the buffers asked for: "out", or both
    written,    \* the pieces written to each stream
    taken,      \* how many of them the editor has handed over
    carry,      \* what Vim keeps of a line that is not complete
    captured,   \* the lines of the job, by stream
    appended,   \* the lines in the buffers, by stream
    wired,      \* streams whose lines the runner hears
    gone,       \* buffers that are wiped out
    stage,      \* "running", "exited" or "told"
    errHidden,  \* the buffer of the errors was hidden at the end
    isFiled     \* the manager has the execution

outVars == <<jobEditor, asked, written, taken, carry, captured, appended, wired, gone, stage, errHidden, isFiled>>

Streams == {"out", "err"}

\* The buffers that a request may ask for.
Asked == {{"out"}, {"out", "err"}}

\* The runner listens to the errors only when there is a buffer for them.
OutInit ==
    /\ jobEditor \in JobEditors
    /\ asked \in Asked
    /\ written = [s \in Streams |-> <<>>] /\ taken = [s \in Streams |-> 0]
    /\ carry = [s \in Streams |-> <<>>]
    /\ captured = [s \in Streams |-> <<>>] /\ appended = [s \in Streams |-> <<>>]
    /\ wired = asked /\ gone = {}
    /\ stage = "running" /\ errHidden = FALSE /\ isFiled = TRUE

------------------------------------------------------------------------------
WriteOut(s, piece) ==
    /\ stage = "running" /\ Len(written[s]) < MaxWrites
    /\ written' = [written EXCEPT ![s] = Append(@, piece)]
    /\ UNCHANGED <<jobEditor, asked, taken, carry, captured, appended, wired, gone, stage, errHidden, isFiled>>

EndOut ==
    /\ stage = "running" /\ stage' = "exited"
    /\ UNCHANGED <<jobEditor, asked, written, taken, carry, captured, appended, wired, gone, errHidden, isFiled>>

\* Neovim hands over what it has read, cut at the line breaks: the job takes each
\* part for a line, but not an empty one at the end.
Parts_WithTheLast(piece) == CutLines(piece)
Parts(piece) ==
    LET cut == CutLines(piece) IN IF Last(cut) = <<>> THEN Front(cut) ELSE cut

\* The lines are kept; the runner appends them to their buffer, where an empty
\* line leaves no trace, and a buffer that is gone takes none.
Emit(s, ls) ==
    /\ captured' = [captured EXCEPT ![s] = @ \o ls]
    /\ appended' = [appended EXCEPT ![s] = @ \o IF s \in wired \ gone THEN Solid(ls) ELSE <<>>]

HandOver(s) ==
    /\ taken[s] < Len(written[s])
    /\ taken' = [taken EXCEPT ![s] = @ + 1]
    /\ LET piece == written[s][taken[s] + 1]
           cut   == CutLines(carry[s] \o piece)
       IN  IF jobEditor = "nvim" THEN Emit(s, Parts(piece)) /\ UNCHANGED carry
           ELSE Emit(s, Front(cut)) /\ carry' = [carry EXCEPT ![s] = Last(cut)]
    /\ UNCHANGED <<jobEditor, asked, written, wired, gone, stage, errHidden, isFiled>>

\* With the end of the stream Vim hands over the rest.
HandOverRest(s) ==
    /\ stage # "running" /\ taken[s] = Len(written[s]) /\ carry[s] # <<>>
    /\ Emit(s, <<carry[s]>>)
    /\ carry' = [carry EXCEPT ![s] = <<>>]
    /\ UNCHANGED <<jobEditor, asked, written, taken, wired, gone, stage, errHidden, isFiled>>

\* Both subscriptions go with the buffer of the output, none with that of the errors.
WipeOut(b) ==
    /\ stage # "told" /\ b \in asked \ gone
    /\ gone' = gone \cup {b}
    /\ wired' = IF b = "out" THEN {} ELSE wired
    /\ UNCHANGED <<jobEditor, asked, written, taken, carry, captured, appended, stage, errHidden, isFiled>>

\* hide_empty_error_buffer looks at the errors.  A buffer that is gone has no text
\* but cannot be hidden: the exception keeps the manager from hearing of the exit.
HideEmptyErrors ==
    /\ errHidden' = ("err" \in asked \ gone /\ appended["err"] = <<>>)
    /\ isFiled' = ("err" \in gone)

\* The exit is told: the runner disposes of its subscriptions before the hooks run.
ExitTold ==
    /\ stage = "exited"
    /\ jobEditor = "nvim" => \A s \in Streams : taken[s] = Len(written[s])
    /\ stage' = "told" /\ wired' = {}
    /\ HideEmptyErrors
    /\ UNCHANGED <<jobEditor, asked, written, taken, carry, captured, appended, gone>>

OutNext ==
    \/ \E s \in Streams, piece \in Pieces : WriteOut(s, piece)
    \/ \E s \in Streams : HandOver(s) \/ HandOverRest(s) \/ WipeOut(s)
    \/ EndOut \/ ExitTold

OutSpec == OutInit /\ [][OutNext]_outVars

------------------------------------------------------------------------------
(* Properties                                                               *)

OutTypeOK ==
    /\ asked \subseteq Streams /\ wired \subseteq asked /\ gone \subseteq asked
    /\ \A s \in Streams : taken[s] \in 0..Len(written[s])

EndsItsLines(s) == \A i \in DOMAIN written[s] : Last(written[s][i]) = LF
Read(s) == SubSeq(written[s], 1, taken[s])

\* No character that is handed over is lost or out of order, and the lines are those
\* that were written; on Neovim only as long as no piece ends inside of a line: there
\* the job takes each part of a line for a line.
LinesAreKept ==
    \A s \in Streams :
        LET cut == CutLines(Flat(Read(s)))
        IN  /\ Flat(captured[s]) \o carry[s] = Unbroken(Flat(Read(s)))
            /\ jobEditor # "nvim" \/ EndsItsLines(s) => captured[s] \in {Front(cut), cut}

\* Where lines end, counted in characters without the breaks.
LineEnds(ls) == {Len(Flat(SubSeq(ls, 1, i))) : i \in DOMAIN ls}
PieceEnds(s) == {Len(Unbroken(Flat(SubSeq(written[s], 1, n)))) : n \in 0..taken[s]}

\* Every line break that was written and handed over ends a line of the job, on Neovim
\* as elsewhere, and a line is broken without one only where a piece ends.
BreaksAreKept ==
    \A s \in Streams :
        LET breaks == LineEnds(Front(CutLines(Flat(Read(s)))))
        IN  /\ breaks \subseteq LineEnds(captured[s])
            /\ LineEnds(captured[s]) \subseteq breaks \cup PieceEnds(s)

\* A buffer has every line of its stream that is not empty as long as neither it nor
\* the buffer of the output is gone; what comes when the exit was told is not shown.
BuffersHaveTheLines ==
    /\ \A s \in asked :
           IF stage # "told" /\ gone \cap {s, "out"} = {} THEN appended[s] = Solid(captured[s])
           ELSE IsPrefix(appended[s], Solid(captured[s]))
    /\ errHidden => appended["err"] = <<>>

\* Only a buffer of errors that was wiped out keeps its kind from running again.
FiledOnlyIfErrorsAreGone == stage = "told" /\ isFiled => "err" \in gone
=============================================================================
