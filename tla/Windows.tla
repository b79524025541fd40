------------------------------ MODULE Windows ------------------------------
(***************************************************************************)
(* Windows of Vim as the plugin opens and closes them (ui/pytoy_window):   *)
(* tab pages of numbered windows, each showing a buffer, one of them the   *)
(* current one.  A window has an id for life, but closing and anchoring go *)
(* by its number, which the editor counts in the current tab page.         *)
(***************************************************************************)
EXTENDS Naturals, FiniteSets, SequencesExt, TLC

CONSTANTS
    Buffers,    \* names that are opened
    Special,    \* the buffers among them that are not edited (help, a list)
    MaxWindows  \* bound: windows made

VARIABLES
    tabs,       \* the tab pages, each the windows in it in the order of their numbers
    current,    \* the current window
    shows,      \* the buffer in each window
    did         \* history: the last call, what it was given and whether it raised

winVars == <<tabs, current, shows, did>>

NoCall == [call |-> "none"]
WinInit ==
    \E a, b \in Buffers :
        /\ tabs = <<<<1>>, <<2>>>> /\ current = 1
        /\ shows = (1 :> a @@ 2 :> b)
        /\ did = NoCall

------------------------------------------------------------------------------
(* The layout.                                                              *)

Alive(ts)     == UNION {Range(ts[t]) : t \in DOMAIN ts}
TabOf(ts, w)  == CHOOSE t \in DOMAIN ts : w \in Range(ts[t])
Number(ts, w) == CHOOSE i \in 1..Len(ts[TabOf(ts, w)]) : ts[TabOf(ts, w)][i] = w
Here          == tabs[TabOf(tabs, current)]
NewWindow     == Cardinality(DOMAIN shows) + 1

\* The window that `wincmd c` closes for a number: in the tab page of cur, and beyond
\* the last the last.
Numbered(ts, cur, n) ==
    LET here == ts[TabOf(ts, cur)] IN here[IF n > Len(here) THEN Len(here) ELSE n]

\* The layout as a call meets it, with the buffers that the editor does not let go,
\* modified as they are, out of the last window that shows them.
Layout(kept) == [tabs |-> tabs, current |-> current, kept |-> kept, raised |-> FALSE]

Refuses(layout, w) ==
    \/ Cardinality(Alive(layout.tabs)) = 1
    \/ shows[w] \in layout.kept /\ \A x \in Alive(layout.tabs) \ {w} : shows[x] # shows[w]

\* The editor closes w: an empty tab page goes, and the focus moves to a neighbour.
CloseIn(layout, w) ==
    LET t    == TabOf(layout.tabs, w)
        i    == Number(layout.tabs, w)
        rest == RemoveAt(layout.tabs[t], i)
        ts   == IF rest = <<>> THEN RemoveAt(layout.tabs, t) ELSE [layout.tabs EXCEPT ![t] = rest]
    IN  IF layout.raised \/ Refuses(layout, w) THEN [layout EXCEPT !.raised = TRUE]
        ELSE [layout EXCEPT
                !.tabs = ts,
                !.current = IF @ # w THEN @
                            ELSE IF rest = <<>> THEN Head(ts[1]) ELSE rest[IF i > 1 THEN i - 1 ELSE 1]]

\* PytoyWindowVim.close: by its number, when it is not the current one.
CloseWindow(layout, w) ==
    IF layout.raised \/ w \notin Alive(layout.tabs) THEN layout
    ELSE CloseIn(layout, IF w = layout.current THEN w
                         ELSE Numbered(layout.tabs, layout.current, Number(layout.tabs, w)))

\* :tabonly closes the other tab pages, each from its last window, until one stays.
OnlyTab(layout, w) ==
    LET others == SelectSeq(layout.tabs, LAMBDA windows : w \notin Range(windows))
    IN  FoldLeft(CloseIn, [layout EXCEPT !.current = w], FlattenSeq([t \in DOMAIN others |-> Reverse(others[t])]))

Become(layout) == tabs' = layout.tabs /\ current' = layout.current

------------------------------------------------------------------------------
(* Calls of the plugin.                                                     *)

\* What a call that closes windows does, and what it was called with.
Closing(call, w, toClose, layout) ==
    /\ Become(layout)
    /\ did' = [call |-> call, of |-> w, before |-> Alive(tabs), here |-> Range(Here), current |-> current,
               closing |-> toClose, raised |-> layout.raised]
    /\ UNCHANGED shows

Close(w, kept) == w \in DOMAIN shows /\ Closing("close", w, {w}, CloseWindow(Layout(kept), w))

Focus(w) ==
    /\ w \in Alive(tabs) /\ current' = w
    /\ did' = NoCall
    /\ UNCHANGED <<tabs, shows>>

\* _get_window_by_bufname: a window of the current tab page.
Reusable(b) == {w \in Range(Here) : shows[w] = b}
Reuse(b) ==
    /\ Reusable(b) # {}
    /\ did' = [call |-> "open", buffer |-> b, window |-> Min(Reusable(b)), current |-> current,
               raised |-> FALSE]
    /\ UNCHANGED <<tabs, current, shows>>

\* _create_window goes to the anchor, splits, and shows the buffer there; then
\* open_window goes back.  The editor may refuse to leave what the window shows:
\* the focus stays where it is then, and so does the split.
\* win_getid finds no window for a number beyond the last: the focus stays then.
Base(anchor) ==
    IF anchor \notin Alive(tabs) \/ Number(tabs, anchor) > Len(Here) THEN current
    ELSE Here[Number(tabs, anchor)]
OpenWindow_Stays(b, anchor, split, refused) ==
    LET base  == Base(anchor)
        t     == TabOf(tabs, base)
        win   == IF split THEN NewWindow ELSE base
    IN  /\ split => NewWindow <= MaxWindows
        /\ tabs'  = IF split THEN [tabs EXCEPT ![t] = InsertAt(@, Number(tabs, base) + 1, win)] ELSE tabs
        /\ shows' = IF refused THEN (IF split THEN shows @@ (win :> shows[base]) ELSE shows)
                    ELSE (win :> b) @@ shows
        /\ current' = win
        /\ did' = [call |-> "open", buffer |-> b, window |-> win, current |-> current, raised |-> refused]
OpenWindow(b, anchor, split, refused) ==
    LET base  == Base(anchor)
        t     == TabOf(tabs, base)
        win   == IF split THEN NewWindow ELSE base
    IN  /\ split => NewWindow <= MaxWindows
        /\ tabs'  = IF split THEN [tabs EXCEPT ![t] = InsertAt(@, Number(tabs, base) + 1, win)] ELSE tabs
        /\ shows' = IF refused THEN (IF split THEN shows @@ (win :> shows[base]) ELSE shows)
                    ELSE (win :> b) @@ shows
        /\ current' = IF refused THEN win ELSE current
        /\ did' = [call |-> "open", buffer |-> b, window |-> win, current |-> current, raised |-> refused]

\* Who does not ask for reuse, or finds nothing to reuse, opens a window.
Open(b) == Reuse(b) \/ \E anchor \in DOMAIN shows, split, refused \in BOOLEAN : OpenWindow(b, anchor, split, refused)

Ascending(numbers) == SelectSeq([i \in 1..MaxWindows |-> i], LAMBDA i : i \in numbers)
CloseAll(layout, windows) == FoldLeft(CloseWindow, layout, Ascending(windows))

\* deduplicate closes the other windows of the tab page that show the buffer, and
\* takes the focus when it was in one of them.
Twins(w) == Reusable(shows[w]) \ {w}
Refocused(layout, w) ==
    IF current \in Twins(w) /\ ~layout.raised THEN [layout EXCEPT !.current = w] ELSE layout

\* Slip: the numbers are read before anything is closed.
Deduplicate_ByNumbersRead(w, kept) ==
    LET numbers == {Number(tabs, x) : x \in Twins(w)}
        ByNumber(layout, n) == CloseIn(layout, Numbered(layout.tabs, layout.current, n))
    IN  /\ w \in Alive(tabs)
        /\ Closing("deduplicate", w, Twins(w),
                   Refocused(FoldLeft(ByNumber, Layout(kept), Ascending(numbers)), w))

Deduplicate(w, kept) ==
    /\ w \in Alive(tabs)
    /\ Closing("deduplicate", w, Twins(w), Refocused(CloseAll(Layout(kept), Twins(w)), w))

\* retain_unique_window closes, within windows, all the edited windows of the tab page
\* but one, and then, within tabs, every other tab page.
Edited == {x \in Range(Here) : shows[x] \notin Special}
Unique(w, withinTabs, withinWindows, kept) ==
    LET here   == IF withinWindows THEN Edited \ {w} ELSE {}
        closed == CloseAll(Layout(kept), here)
    IN  /\ w \in Alive(tabs)
        /\ Closing("unique", w, here \cup IF withinTabs THEN Alive(tabs) \ Range(tabs[TabOf(tabs, w)]) ELSE {},
                   IF withinTabs /\ ~closed.raised THEN OnlyTab(closed, w) ELSE closed)

\* The user opens and closes windows too, and goes from one to another (Focus).
UserCloses(w) ==
    /\ w \in Alive(tabs) /\ ~CloseIn(Layout({}), w).raised
    /\ Become(CloseIn(Layout({}), w))
    /\ did' = NoCall /\ UNCHANGED shows

\* One call after the other: the last one is over before the next begins.
Returns == did # NoCall /\ did' = NoCall /\ UNCHANGED <<tabs, current, shows>>

WinNext ==
    \/ Returns
    \/ /\ did = NoCall
       /\ \/ \E w \in DOMAIN shows :
              \/ Focus(w) \/ UserCloses(w)
              \/ \E kept \in {{}} \cup {{shows[x]} : x \in Alive(tabs)} :
                    \/ Close(w, kept) \/ Deduplicate(w, kept) \/ Unique(w, TRUE, FALSE, kept)
                    \/ \E withinTabs \in BOOLEAN : Unique(w, withinTabs, TRUE, kept)
          \/ \E b \in Buffers : Open(b)

------------------------------------------------------------------------------
(* Properties                                                               *)

WinTypeOK ==
    /\ current \in Alive(tabs) /\ Alive(tabs) \subseteq DOMAIN shows
    /\ \A t \in DOMAIN tabs : tabs[t] # <<>> /\ IsInjective(tabs[t])
    /\ \A t, u \in DOMAIN tabs : t # u => Range(tabs[t]) \cap Range(tabs[u]) = {}
    /\ \A w \in DOMAIN shows : shows[w] \in Buffers

\* Opening a window leaves the focus where it was and gives the window that shows
\* the buffer, unless the editor refused.
OpenKeepsFocus ==
    did.call = "open" /\ ~did.raised =>
        current = did.current /\ shows[did.window] = did.buffer /\ did.window \in Alive(tabs)

\* A call takes the windows it is to close and no other, of whatever buffer and on
\* whatever tab page, and all of them unless the editor refused one: after deduplicate
\* a buffer of the tab page is shown once in it, after unique no other window is edited
\* there, or none is left on another tab page.  But a window is closed by its number
\* among those of the current tab page (impls/vim/__init__.py:87): one that is on
\* another page stays, and exactly one of the current page goes in its place.
OnlyTheseClose ==
    did.call \in {"close", "deduplicate", "unique"} =>
        LET gone      == did.before \ Alive(tabs)
            elsewhere == did.call = "close" /\ did.of \in did.before \ did.here
        IN  /\ Alive(tabs) \subseteq did.before
            /\ elsewhere => gone \subseteq did.here /\ (did.raised \/ Cardinality(gone) = 1)
            /\ ~elsewhere => gone \subseteq did.closing /\ (did.raised \/ gone = did.closing \cap did.before)
            /\ did.call # "close" => did.of \in Alive(tabs)

\* Deduplicating never fails, and leaves the focus where it was, or where the buffer of
\* the window that had it is shown now.
DeduplicateKeepsFocus ==
    did.call = "deduplicate" =>
        /\ ~did.raised
        /\ current = IF did.current \in did.closing THEN did.of ELSE did.current
=============================================================================
