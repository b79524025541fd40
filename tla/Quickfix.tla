------------------------------ MODULE Quickfix ------------------------------
(***************************************************************************)
(* The quickfix (shared/ui/pytoy_quickfix, launcher/quickfix.py): the list *)
(* that every command and tool files what it found in, as Vim, VS Code and *)
(* the dummy keep it, the moves over it, and the buffer in which the       *)
(* presenter shows it, whose keys jump by the number at the end of a line. *)
(***************************************************************************)
EXTENDS Integers, FiniteSets

CONSTANTS
    UIs,        \* a subset of {"vim", "vscode", "dummy"}
    None,
    MaxRuns, MaxFound, MaxShows   \* bounds: runs filed, records of each, times the list is shown

ASSUME QuickAssumption ==
    /\ UIs \subseteq {"vim", "vscode", "dummy"} /\ None \notin Int
    /\ {MaxRuns, MaxFound, MaxShows} \subseteq Nat

VARIABLES
    ui,         \* the UI implementation of the editor
    records,    \* its list: the run the records are of, and how many they are
    index,      \* _index, or the index of Vim's list; None for an empty one
    page,       \* the records that the presenter's buffer shows; None without the buffer
    keys,       \* how often the presenter subscribed to a key of that buffer
    onPage,     \* the cursor is in that buffer
    filed,      \* history: the runs filed, and the last that found anything
    jumped,     \* history: the record that was jumped to, and filed at that time
    failed      \* history: the page on which a key found no record, and the list then

quickVars == <<ui, records, index, page, keys, onPage, filed, jumped, failed>>

NoRecords == [run |-> 0, size |-> 0]

QuickInit ==
    /\ ui \in UIs
    /\ records = NoRecords /\ index = None
    /\ page = None /\ keys = 0 /\ onPage = FALSE
    /\ filed = [last |-> 0, found |-> 0] /\ jumped = None /\ failed = None

------------------------------------------------------------------------------
(* QuickfixState and its resolver.  The index wraps around the list.        *)

MakeState_Unwrapped(i, size) ==
    [size |-> size, index |-> IF size = 0 THEN None ELSE IF i = None THEN 0 ELSE i]
MakeState(i, size) ==
    [size |-> size, index |-> IF size = 0 THEN None ELSE IF i = None THEN 0 ELSE i % size]
State == MakeState(index, records.size)
ShiftIndex(state, d) == IF state.index = None THEN state ELSE MakeState(state.index + d, state.size)
FixIndex(state, i) == IF state.size = 0 THEN state ELSE MakeState(i, state.size)

------------------------------------------------------------------------------
SetRecords(new) ==
    /\ records' = new
    /\ index' = IF ui = "vscode" /\ index # None THEN index ELSE 0

\* VS Code has no list to close; Vim closes its own and empties it.
Close_KeepsList == UNCHANGED <<records, index>>
Close ==
    CASE ui = "vscode" -> UNCHANGED <<records, index>>
      [] ui = "dummy"  -> records' = NoRecords /\ UNCHANGED index
      [] ui = "vim"    -> records' = NoRecords /\ index' = None

\* The hook after a command, and the tools: handle_records.
HandleRecords(n) ==
    /\ filed.last < MaxRuns
    /\ filed' = [last |-> filed.last + 1, found |-> IF n > 0 THEN filed.last + 1 ELSE filed.found]
    /\ IF n > 0 THEN SetRecords([run |-> filed.last + 1, size |-> n]) ELSE Close
    /\ UNCHANGED <<ui, page, keys, onPage, jumped, failed>>

\* jump of each UI.  Without a record Vim raises, VS Code and the dummy return None.
JumpTo(state) ==
    /\ state.index # None
    /\ index' = state.index
    /\ jumped' = [run |-> records.run, index |-> state.index, of |-> records.size, filed |-> filed]
    /\ onPage' = FALSE
    /\ UNCHANGED <<ui, records, page, keys, filed, failed>>

Jump(i) == JumpTo(FixIndex(State, i))
Here    == JumpTo(State)
MoveBy(d) == JumpTo(ShiftIndex(State, d))   \* next and prev

------------------------------------------------------------------------------
(* The presenter.                                                           *)

\* Every show writes the lines again and subscribes again to both keys.
ShowPage ==
    /\ keys < MaxShows
    /\ page' = records /\ keys' = keys + 1 /\ onPage' = TRUE
    /\ UNCHANGED <<ui, records, index, filed, jumped, failed>>

\* A line holds the index of its record: the jump reads the list of now, and raises
\* when that has become shorter.  <CR> takes the focus along, so that the next of its
\* listeners raises; with <SPACE> each of them jumps again.
PressKey(line, withFocus) ==
    /\ onPage /\ page # None /\ keys > 0 /\ line \in 0..page.size - 1
    /\ \/ /\ line < records.size
          /\ jumped' = [run |-> records.run, index |-> line, of |-> records.size, filed |-> filed]
          /\ onPage' = ~withFocus
          /\ UNCHANGED failed
       \/ /\ line >= records.size
          /\ failed' = [page |-> page, list |-> records]
          /\ UNCHANGED <<jumped, onPage>>
    /\ UNCHANGED <<ui, records, index, page, keys, filed>>

WipePage ==
    /\ page # None
    /\ page' = None /\ keys' = 0 /\ onPage' = FALSE
    /\ UNCHANGED <<ui, records, index, filed, jumped, failed>>

QuickNext ==
    \/ \E n \in 0..MaxFound : HandleRecords(n)
    \/ \E i \in -1..MaxFound : Jump(i)
    \/ Here \/ \E d \in {-1, 1} : MoveBy(d)
    \/ ShowPage \/ WipePage
    \/ \E line \in 0..MaxFound, f \in BOOLEAN : PressKey(line, f)

QuickSpec == QuickInit /\ [][QuickNext]_quickVars

------------------------------------------------------------------------------
(* Properties                                                               *)

QuickTypeOK ==
    /\ ui \in UIs
    /\ records \in [run : 0..MaxRuns, size : 0..MaxFound]
    /\ index \in (0..MaxFound - 1) \cup {None}
    /\ page = None \/ page \in [run : 0..MaxRuns, size : 0..MaxFound]
    /\ keys \in 0..MaxShows /\ onPage \in BOOLEAN

\* A jump reaches a record that exists, also when the list became shorter than
\* the index that VS Code keeps, and next and prev undo each other.
JumpsStayInside ==
    /\ jumped # None => jumped.index \in 0..jumped.of - 1
    /\ records.size > 0 =>
           \A d \in {-1, 1} : ShiftIndex(ShiftIndex(State, d), -d) = State

\* No jump goes to what an earlier run found, once a later one has been filed; on
\* VS Code one that found nothing leaves the records before it.
JumpsReachTheLatest ==
    jumped # None =>
        jumped.run = IF ui = "vscode" THEN jumped.filed.found ELSE jumped.filed.last

\* A key on the page finds no record only where the list is another than the page
\* shows: a run was filed, or the list closed, and the page not shown again.  Where the
\* list is as long as the line, it jumps in the list of now, whatever the line says.
OnlyStalePagesFail == failed # None => failed.page # failed.list

\* Together: a jump reaches a record that is there, none of a run that another one has
\* replaced, and a key finds one on a page that shows the list.
JumpsAreFresh == JumpsStayInside /\ JumpsReachTheLatest /\ OnlyStalePagesFail
=============================================================================
