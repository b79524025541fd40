---------------------------- MODULE TerminalScreen ----------------------------
(***************************************************************************)
(* The screen of a terminal on its way into a buffer.  Vim and Neovim call *)
(* back with what the program wrote; on VS Code and without an editor a    *)
(* thread reads the pseudo terminal, feeds the emulator and schedules an   *)
(* update unless one is scheduled.  TerminalJobRunner replaces the text of *)
(* its buffer by the screen.  The emulator is a library's.                 *)
(***************************************************************************)
EXTENDS Lines

CONSTANTS
    Hosts,       \* among "vim", "nvim" and "tty"
    Rows, Cols,  \* the size of the screen
    Outputs,     \* what a program writes at once: sequences of Blank, CR,
                 \* LF and other characters
    MaxOutputs   \* bound: how often it writes

Blank == "_"
CR    == "r"

ASSUME ScreenAssumption ==
    /\ Hosts \subseteq {"vim", "nvim", "tty"}
    /\ {Blank, CR} \subseteq Characters /\ Outputs \subseteq Strings

VARIABLES
    host,
    program,     \* all that the program has written
    chunks,      \* what is not handed over yet, piece by piece
    fed,         \* how much the emulator was fed
    display,     \* the screen of the emulator: rows and cursor, from 0
    running,     \* the program runs
    reader,      \* the thread: "reading", "fed", "set" or "gone"
    chunk,       \* what it has read and not fed yet
    scheduled,   \* _update_scheduled
    fires,       \* one-shot timers that wait
    firing,      \* the main thread is inside of _fire, before the listeners
    holding,     \* the runner has its job
    view         \* lines and cursor of the buffer

screenVars == <<host, program, chunks, fed, display, running, reader, chunk, scheduled, fires,
                firing, holding, view>>

------------------------------------------------------------------------------
(* The emulator                                                             *)

BlankRow    == [c \in 1..Cols |-> Blank]
BlankScreen == [rows |-> [r \in 1..Rows |-> BlankRow], y |-> 0, x |-> 0]
Down(s) == IF s.y = Rows - 1 THEN [s EXCEPT !.rows = Append(Tail(@), BlankRow)]
           ELSE [s EXCEPT !.y = @ + 1]
Put(s, c) ==
    LET t == IF s.x = Cols THEN [Down(s) EXCEPT !.x = 0] ELSE s
    IN  [t EXCEPT !.rows[t.y + 1][t.x + 1] = c, !.x = @ + 1]
Screens  == [rows : StringLists, y : Nat, x : Nat]
FeedStep == [s \in Screens |-> [c \in Characters |->
                IF c = LF THEN Down(s) ELSE IF c = CR THEN [s EXCEPT !.x = 0] ELSE Put(s, c)]]
Feed(s, text) == Folded(FeedStep, s, text)

------------------------------------------------------------------------------
(* What is seen of it                                                       *)

Strip(row) ==
    LET kept == {i \in DOMAIN row : row[i] # Blank}
    IN  IF kept = {} THEN <<>> ELSE SubSeq(row, 1, CHOOSE i \in kept : \A j \in kept : j <= i)

\* VirtualTTY drops the rows below the last one that is not blank, and moves the
\* cursor up to it.
Kept(s) ==
    LET rows == [r \in 1..Rows |-> Strip(s.rows[r])]
        last == {r \in 1..Rows : rows[r] # <<>>}
    IN  IF last = {} THEN <<>> ELSE SubSeq(rows, 1, CHOOSE r \in last : \A q \in last : q <= r)
TtySnapshot_Unclamped(s) ==
    [lines |-> IF Kept(s) = <<>> THEN <<<<>>>> ELSE Kept(s), y |-> s.y, x |-> s.x]
TtySnapshot(s) ==
    LET count == Len(Kept(s))
    IN  [lines |-> IF count = 0 THEN <<<<>>>> ELSE Kept(s),
         y |-> IF count = 0 THEN 0 ELSE IF s.y < count THEN s.y ELSE count - 1, x |-> s.x]

\* Neovim's emulator is shown with every row as wide as the screen.
NvimSnapshot(s) == [lines |-> s.rows, y |-> s.y, x |-> s.x]

\* Vim gives the text of each row of its own terminal.
VimSnapshot(s) == [lines |-> [r \in 1..Rows |-> Strip(s.rows[r])], y |-> s.y, x |-> s.x]

Snapshot(s) == CASE host = "vim"  -> VimSnapshot(s)
                 [] host = "nvim" -> NvimSnapshot(s)
                 [] host = "tty"  -> TtySnapshot(s)

------------------------------------------------------------------------------
ScreenInit ==
    /\ host \in Hosts
    /\ program = <<>> /\ chunks = <<>> /\ fed = 0 /\ display = BlankScreen
    /\ running = TRUE /\ reader = (IF host = "tty" THEN "reading" ELSE "gone")
    /\ chunk = <<>> /\ scheduled = FALSE /\ fires = 0 /\ firing = FALSE /\ holding = TRUE
    /\ view = [lines |-> <<<<>>>>, y |-> 0, x |-> 0]

ProgramWrites(text) ==
    /\ running /\ Len(chunks) < MaxOutputs /\ Len(program) + Len(text) <= 2 * MaxOutputs
    /\ program' = program \o text /\ chunks' = Append(chunks, text)
    /\ UNCHANGED <<host, fed, display, running, reader, chunk, scheduled, fires, firing, holding, view>>

ProgramEnds ==
    /\ running /\ running' = FALSE
    /\ UNCHANGED <<host, program, chunks, fed, display, reader, chunk, scheduled, fires, firing, holding, view>>

\* Neovim hands over the lines of what it has read; the last of them is not
\* complete, and the emulator is fed every other with its line feed again.
Joined(pieces) == JoinLines(pieces)

\* _on_terminal_update replaces the whole text as long as the runner has its job.
Update(s) == view' = IF holding THEN Snapshot(s) ELSE view

OnOutput ==
    /\ host # "tty" /\ chunks # <<>>
    /\ LET text == IF host = "nvim" THEN Joined(CutLines(Head(chunks))) ELSE Head(chunks)
       IN  /\ display' = Feed(display, text)
           /\ fed' = fed + Len(text)
           /\ Update(display')
    /\ chunks' = Tail(chunks)
    /\ UNCHANGED <<host, program, running, reader, chunk, scheduled, fires, firing, holding>>

\* The loop of the reader asks whether the program runs before every read: what it
\* wrote last may stay unread.
ReadPty ==
    /\ reader = "reading" /\ chunk = <<>>
    /\ IF running
       THEN /\ chunks # <<>>
            /\ chunk' = Head(chunks) /\ chunks' = Tail(chunks) /\ UNCHANGED reader
       ELSE reader' = "gone" /\ UNCHANGED <<chunk, chunks>>
    /\ UNCHANGED <<host, program, fed, display, running, scheduled, fires, firing, holding, view>>

\* The emulator takes a character at a time while the main thread may look at it.
FeedStream ==
    /\ reader = "reading" /\ chunk # <<>>
    /\ display' = Feed(display, <<Head(chunk)>>) /\ fed' = fed + 1
    /\ chunk' = Tail(chunk)
    /\ reader' = IF Len(chunk) = 1 THEN "fed" ELSE "reading"
    /\ UNCHANGED <<host, program, chunks, running, scheduled, fires, firing, holding, view>>

ScheduleUpdate ==
    /\ reader = "fed"
    /\ reader' = IF scheduled THEN "reading" ELSE "set"
    /\ scheduled' = TRUE
    /\ UNCHANGED <<host, program, chunks, fed, display, running, chunk, fires, firing, holding, view>>

StartTimer ==
    /\ reader = "set" /\ reader' = "reading" /\ fires' = fires + 1
    /\ UNCHANGED <<host, program, chunks, fed, display, running, chunk, scheduled, firing, holding, view>>

\* Slip: the flag is reset when the listeners have been called.
FireUpdate_ResetsLast ==
    /\ fires > 0 \/ firing
    /\ IF firing THEN firing' = FALSE /\ scheduled' = FALSE /\ UNCHANGED <<fires, view>>
       ELSE firing' = TRUE /\ fires' = fires - 1 /\ Update(display) /\ UNCHANGED scheduled
    /\ UNCHANGED <<host, program, chunks, fed, display, running, reader, chunk, holding>>

\* The timer resets the flag, then the runner looks at the screen.
FireUpdate ==
    /\ fires > 0 \/ firing
    /\ IF firing THEN firing' = FALSE /\ Update(display) /\ UNCHANGED <<fires, scheduled>>
       ELSE firing' = TRUE /\ fires' = fires - 1 /\ scheduled' = FALSE /\ UNCHANGED view
    /\ UNCHANGED <<host, program, chunks, fed, display, running, reader, chunk, holding>>

\* The buffer is wiped out: the runner lets go of its job, which ends.
DisposeRunner ==
    /\ holding /\ ~firing
    /\ holding' = FALSE /\ running' = FALSE
    /\ UNCHANGED <<host, program, chunks, fed, display, reader, chunk, scheduled, fires, firing, view>>

ScreenNext ==
    \/ \E text \in Outputs : ProgramWrites(text)
    \/ ProgramEnds \/ OnOutput
    \/ ReadPty \/ FeedStream \/ ScheduleUpdate \/ StartTimer \/ FireUpdate
    \/ DisposeRunner

ScreenSpec == ScreenInit /\ [][ScreenNext]_screenVars

------------------------------------------------------------------------------
(* Properties                                                               *)

ScreenTypeOK ==
    /\ display.rows \in [1..Rows -> Strings] /\ display.y \in 0..Rows - 1 /\ display.x \in 0..Cols
    /\ fed \in 0..Len(program) /\ fires \in 0..1
    /\ reader \in {"reading", "fed", "set", "gone"}

\* The screen is that of what the program wrote up to some character, and what comes
\* behind is not read yet or is being fed: nothing is skipped.  On VS Code the last of
\* it may never be read, but only when the program has ended.
ScreenIsTheProgrammes == display = Feed(BlankScreen, SubSeq(program, 1, fed))
NothingIsSkipped      == program = SubSeq(program, 1, fed) \o (chunk \o Flat(chunks))
ReadUntilTheEnd       == host = "tty" /\ reader = "gone" => ~running

\* As long as the runner has its job, the buffer shows the screen or an update is
\* on its way: no output waits for the next one to be seen.
SeenOrOnItsWay ==
    holding => \/ view = Snapshot(display) \/ display = BlankScreen
               \/ reader \in {"fed", "set"} \/ (reader = "reading" /\ chunk # <<>>)
               \/ fires > 0 \/ firing

\* The cursor is put on a line that the text has.
CursorIsOnTheText == view.y < Len(view.lines)
===============================================================================
