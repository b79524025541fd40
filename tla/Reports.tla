------------------------------- MODULE Reports -------------------------------
(***************************************************************************)
(* What tools print, read into the records of the quickfix: the report of  *)
(* pytest (tools/pytest/utils) and the traceback of a script               *)
(* (tools/python).  Of a line there is what the patterns tell apart, and a *)
(* record is known by the lines that its place and its text come from.     *)
(***************************************************************************)
EXTENDS Naturals, SequencesExt

CONSTANTS
    Headings,      \* headings of the items: tests, or the dashes between two frames
    NoHeading,
    MaxLines    \* a bound on the length of a report

VARIABLES
    tool,       \* what prints it
    report      \* the lines printed

reportVars == <<tool, report>>

Sections == {"ERRORS", "FAILURES", "END"}
Line(kind)  == [kind |-> kind, name |-> NoHeading]
PytestLines == {Line(s) : s \in Sections} \cup {Line("place"), Line("reason")}
                   \cup {[kind |-> "item", name |-> n] : n \in Headings}
PythonLines == {Line("frame"), Line("source")}

ReportInit == tool \in {"pytest", "python"} /\ report = <<>>

\* One more line; pytest's are followed from its first section on.
PrintLine ==
    /\ Len(report) < MaxLines
    /\ \E line \in IF tool = "python" THEN PythonLines ELSE PytestLines :
          /\ tool = "pytest" /\ report = <<>> => line.kind \in Sections
          /\ report' = Append(report, line)
    /\ UNCHANGED tool

------------------------------------------------------------------------------
(* PytestDecipher.  Lines are given by their places in the report.          *)

Places == [k \in 1 .. Len(report) |-> k]

\* _to_sections: a section goes on until another begins, also where it was left.
ToSections ==
    FoldLeft(LAMBDA acc, k :
        LET now == IF report[k].kind \in Sections THEN report[k].kind ELSE acc.now
        IN  [now |-> now, of |-> [acc.of EXCEPT ![now] = Append(@, k)]],
        [now |-> "START", of |-> [s \in Sections \cup {"START"} |-> <<>>]], Places).of

\* _to_items: a dictionary, so that items of one name are one.
ToItems(section) ==
    LET read == FoldLeft(LAMBDA acc, k :
            LET item == IF report[k].kind = "item" THEN report[k].name ELSE acc.item
            IN  IF item = NoHeading THEN acc
                ELSE [item  |-> item,
                      order |-> IF item \in ToSet(acc.order) THEN acc.order ELSE Append(acc.order, item),
                      of    |-> [acc.of EXCEPT ![item] = Append(@, k)]],
            [item |-> NoHeading, order |-> <<>>, of |-> [n \in Headings |-> <<>>]], section)
    IN  [i \in 1 .. Len(read.order) |-> read.of[read.order[i]]]

\* Slip: the reasons go on to the next place.
ToRecords_KeepsDetails(item) ==
    LET read == FoldLeft(LAMBDA acc, k :
            CASE report[k].kind = "place" ->
                   [acc EXCEPT !.records = IF acc.place = 0 THEN @
                                           ELSE Append(@, [place |-> acc.place, reasons |-> acc.reasons]),
                               !.place = k]
              [] report[k].kind = "reason" -> [acc EXCEPT !.reasons = Append(@, k)]
              [] OTHER -> acc,
            [place |-> 0, reasons |-> <<>>, records |-> <<>>], item)
    IN  Append(read.records, [place |-> read.place, reasons |-> read.reasons])

\* _to_records: a place is filed when the next one, or the end of the item, is
\* reached, with the reasons in between; an item with no place is one record.
ToRecords(item) ==
    LET read == FoldLeft(LAMBDA acc, k :
            CASE report[k].kind = "place" ->
                   [records |-> IF acc.place = 0 THEN acc.records
                                ELSE Append(acc.records, [place |-> acc.place, reasons |-> acc.reasons]),
                    place |-> k, reasons |-> <<>>]
              [] report[k].kind = "reason" -> [acc EXCEPT !.reasons = Append(@, k)]
              [] OTHER -> acc,
            [place |-> 0, reasons |-> <<>>, records |-> <<>>], item)
    IN  Append(read.records, [place |-> read.place, reasons |-> IF read.place = 0 THEN <<>> ELSE read.reasons])

Records ==
    LET items == ToItems(ToSections["ERRORS"]) \o ToItems(ToSections["FAILURES"])
    IN  FlattenSeq([i \in 1 .. Len(items) |-> ToRecords(items[i])])

------------------------------------------------------------------------------
(* PythonExecutor's quickfix_creator: the line below a frame is its text,   *)
(* whatever it is, and there must be one.                                   *)

ReadFrames ==
    FoldLeft(LAMBDA acc, k :
        IF acc.open # 0 THEN [open |-> 0, frames |-> Append(acc.frames, acc.open)]
        ELSE IF report[k].kind = "frame" THEN [acc EXCEPT !.open = k] ELSE acc,
        [open |-> 0, frames |-> <<>>], Places)
Raises == ReadFrames.open # 0
Frames == Reverse(ReadFrames.frames)

------------------------------------------------------------------------------
(* Properties                                                               *)

ReportTypeOK == report \in Seq(PytestLines \cup PythonLines)

PlacesOf(kinds) == {k \in 1 .. Len(report) : report[k].kind \in kinds}
Once(k) == \A l \in 1 .. Len(report) : report[l] = report[k] => l = k

\* Each heading and each section is there once.
Distinct == \A k \in PlacesOf(Sections \cup {"item"}) : Once(k)

\* Where the headings differ, every test that failed is in the list, at each of its
\* places or, without one, as itself; errors come first, then failures, in their order.
FailuresAreListed ==
    tool = "pytest" /\ Distinct =>
        LET Section(k)   == {s \in PlacesOf(Sections) : s < k /\ PlacesOf(Sections) \cap s + 1 .. k = {}}
            Within(s)    == {h \in PlacesOf({"item"}) : \E b \in Section(h) : report[b].kind = s}
            PlacesIn(h)  == {p \in PlacesOf({"place"}) :
                                p > h /\ PlacesOf(Sections \cup {"item"}) \cap h + 1 .. p = {}}
            Listed(h)    == IF PlacesIn(h) = {} THEN <<0>> ELSE SetToSortSeq(PlacesIn(h), <)
            Listing(s)   == LET hs == SetToSortSeq(Within(s), <)
                            IN  FlattenSeq([i \in 1 .. Len(hs) |-> Listed(hs[i])])
        IN  [i \in 1 .. Len(Records) |-> Records[i].place] = Listing("ERRORS") \o Listing("FAILURES")

\* Where the headings differ, what is said of a place was printed below it, for the
\* same test, and with no other place between.  Frames of two tests that are below
\* dashes of one length share a heading, and may be told for each other.
ReasonsAreItsOwn ==
    tool = "pytest" /\ Distinct =>
        \A i \in 1 .. Len(Records) : \A r \in ToSet(Records[i].reasons) :
            /\ Records[i].place < r
            /\ PlacesOf(Sections \cup {"item", "place"}) \cap Records[i].place + 1 .. r = {}

\* A frame of a traceback is in the list, the innermost first, unless the frame above
\* it shows no source: then it is taken for that.
TracebackIsListed ==
    tool = "python" =>
        /\ \A k \in PlacesOf({"frame"}) \ ToSet(Frames) :
               (k - 1 \in ToSet(Frames)) \/ (Raises /\ k = Len(report))
        /\ \A i, j \in 1 .. Len(Frames) : i < j => Frames[j] < Frames[i]
===============================================================================
