---------------------------- MODULE VSCodeWindows ----------------------------
(***************************************************************************)
(* Windows on VS Code (ui/pytoy_window/impls/vscode, ui/vscode): columns   *)
(* of tabs, the first of each shown in an editor.  Neovim has a window for *)
(* each editor, but what the plugin does to a window goes by its document: *)
(* it reaches some editor that shows it.  A document without a file loses  *)
(* its text, and all its tabs, when it is reverted.                        *)
(***************************************************************************)
EXTENDS Naturals, FiniteSets, SequencesExt

CONSTANTS
    Files, Untitled,    \* documents with and without a file
    MaxColumns          \* bound: columns a behaviour starts with

VARIABLES
    columns,    \* the columns, each its tabs in the order they were last used
    focus,      \* the column that has the focus
    texts,      \* documents without a file that have text
    known,      \* documents that Neovim has a buffer for
    did         \* history: the last call, what it was given and what was there before

viewVars == <<columns, focus, texts, known, did>>

Docs  == Files \cup Untitled
Tabs  == {s \in UNION {[1..n -> Docs] : n \in 1..Cardinality(Docs)} : IsInjective(s)}
NoAct == [call |-> "none"]

\* A column has an identity: its number changes when one before it goes.
ViewInit ==
    /\ \E n \in 1..MaxColumns : \E shown \in [1..n -> Tabs] :
           columns = [c \in 1..n |-> [id |-> c, tabs |-> shown[c]]]
    /\ focus \in {columns[c].id : c \in DOMAIN columns}
    /\ texts \in SUBSET Untitled
    /\ known \in {k \in SUBSET Docs : Files \cup {Head(columns[c].tabs) : c \in DOMAIN columns} \subseteq k}
    /\ did = NoAct

------------------------------------------------------------------------------
(* What the editor does: a layout is made of columns, focus and texts.      *)

Layout      == [columns |-> columns, focus |-> focus, texts |-> texts]
Has(l, id)  == \E c \in DOMAIN l.columns : l.columns[c].id = id
Col(l, id)  == CHOOSE c \in DOMAIN l.columns : l.columns[c].id = id
Shows(l, c) == Head(l.columns[c].tabs)
Fresh(l)    == Max({0} \cup {l.columns[c].id : c \in DOMAIN l.columns}) + 1
OnTop(s, d) == <<d>> \o SelectSeq(s, LAMBDA x : x # d)

\* showTextDocument; beyond the last column it opens one.
Show(l, d, c) ==
    IF c \in DOMAIN l.columns
    THEN [l EXCEPT !.columns[c].tabs = OnTop(@, d), !.focus = l.columns[c].id]
    ELSE [l EXCEPT !.columns = Append(@, [id |-> Fresh(l), tabs |-> <<d>>]), !.focus = Fresh(l)]

\* Tabs go, and with its last tab a column; the focus moves to one that is left.
Keeping(l, Stays(_, _)) ==
    LET tabs == [c \in DOMAIN l.columns |->
                     [l.columns[c] EXCEPT !.tabs = SelectSeq(@, LAMBDA d : Stays(l.columns[c].id, d))]]
        left == SelectSeq(tabs, LAMBDA g : g.tabs # <<>>)
    IN  [l EXCEPT !.columns = left,
                  !.focus = IF left = <<>> \/ \E c \in DOMAIN left : left[c].id = @ THEN @ ELSE left[1].id]
CloseActive(l) ==
    LET d == Shows(l, Col(l, l.focus)) IN Keeping(l, LAMBDA id, x : id # l.focus \/ x # d)
Revert(l, d)   == [Keeping(l, LAMBDA id, x : x # d) EXCEPT !.texts = @ \ {d}]

\* A document is shown again in its column, wherever that is now, or where the
\* focus is when the column is gone.
Restore(l, id, d) ==
    Show(l, d, IF Has(l, id) THEN Col(l, id) ELSE IF l.columns = <<>> THEN 1 ELSE Col(l, l.focus))

------------------------------------------------------------------------------
(* Editor and EditorCleaner.                                                *)

CloseEditor(l, c) ==
    LET d     == Shows(l, c)
        was   == l.focus
        doc   == Shows(l, Col(l, was))
        shown == Show(l, d, c)
        gone  == IF d \in l.texts THEN Revert(shown, d) ELSE CloseActive(shown)
    IN  IF l.columns[c].id = was THEN gone ELSE Restore(gone, was, doc)

\* The columns with the document go from the last to the first, but not the one
\* that has the focus and shows it, or the one that was asked for.
DeduplicateEditor(l, c) ==
    LET d      == Shows(l, c)
        self   == IF Shows(l, Col(l, l.focus)) = d THEN l.focus ELSE l.columns[c].id
        others == {x \in DOMAIN l.columns : d \in Range(l.columns[x].tabs) /\ l.columns[x].id # self}
        closed == FoldLeft(LAMBDA m, x : CloseActive(Show(m, d, x)), l, SetToSortSeq(others, >))
    IN  Restore(closed, l.focus, Shows(l, Col(l, l.focus)))

\* get_clean_target_uris_for_unique: documents without a file that keep no tab.
InRemovalZone(same, isTarget, withinTabs, withinWindows) ==
    (withinWindows /\ ~same) \/ (withinTabs /\ same /\ ~isTarget)
CleanTargets_AllOthers(l, c, withinTabs, withinWindows) == Untitled \ {Shows(l, c)}
CleanTargets(l, c, withinTabs, withinWindows) ==
    {u \in Untitled : \A x \in DOMAIN l.columns :
        u \in Range(l.columns[x].tabs) => InRemovalZone(x = c, u = Shows(l, c), withinTabs, withinWindows)}

\* The window empties those that Neovim knows, so that they close without a
\* question; the editor reverts the others that have text, and goes by the number
\* of the column it was asked for.
UniqueEditor(l, c, withinTabs, withinWindows) ==
    LET d       == Shows(l, c)
        targets == CleanTargets(l, c, withinTabs, withinWindows)
        emptied == [l EXCEPT !.texts = @ \ (targets \cap known)]
        clean   == FoldLeft(Revert, emptied, SetToSeq(targets \cap emptied.texts))
        active  == Show(clean, d, c)
        alone   == IF withinTabs THEN Keeping(active, LAMBDA id, x : id # active.focus \/ x = d) ELSE active
        only    == IF withinWindows THEN Keeping(alone, LAMBDA id, x : id = active.focus) ELSE alone
    IN  Show(only, d, Col(only, only.focus))

------------------------------------------------------------------------------
(* PytoyWindowVSCode, PytoyWindowProviderVSCode.  The window of a document   *)
(* is that of some editor that shows it.                                    *)

Editors(d) == {c \in DOMAIN columns : Shows(Layout, c) = d}

Become(l) ==
    /\ columns' = l.columns /\ focus' = l.focus /\ texts' = l.texts
    /\ known' = known \cup {Head(l.columns[c].tabs) : c \in DOMAIN l.columns}
Done(call, d, c, more) == did' = [call |-> call, doc |-> d, col |-> c, was |-> Layout, more |-> more]

Close(d)       == \E c \in Editors(d) : Become(CloseEditor(Layout, c)) /\ Done("close", d, c, {})
Focus(d)       == \E c \in Editors(d) : Become(Show(Layout, d, c)) /\ Done("focus", d, c, {})
Deduplicate(d) == \E c \in Editors(d) : Become(DeduplicateEditor(Layout, c)) /\ Done("deduplicate", d, c, {})
Unique(d, withinTabs, withinWindows) ==
    \E c \in Editors(d) :
        /\ Become(UniqueEditor(Layout, c, withinTabs, withinWindows))
        /\ Done("unique", d, c, (IF withinTabs THEN {"tabs"} ELSE {})
                                \cup IF withinWindows THEN {"windows"} ELSE {})

\* "Beside" is the next column; below there is always a new one, of which all but
\* the document is closed.
Placed(l, d, c, how) ==
    CASE how = "in-place" -> Show(l, d, c)
      [] how = "vertical" -> Show(Show(l, Shows(l, c), c), d, c + 1)
      [] how = "horizontal" ->
           [l EXCEPT !.columns = InsertAt(@, c + 1, [id |-> Fresh(l), tabs |-> <<d>>]), !.focus = Fresh(l)]

\* open_window.  The focus goes back to an editor of the document that the window
\* of before shows by then.
Open(d, anchor, how, reuse) ==
    IF reuse /\ Editors(d) # {}
    THEN UNCHANGED <<columns, focus, texts, known>> /\ Done("open", d, 0, {"reuse"})
    ELSE \E c \in Editors(anchor) :
            LET placed == Placed(Layout, d, c, how)
                doc    == Shows(placed, Col(placed, focus))
            IN  \E x \in {y \in DOMAIN placed.columns : Shows(placed, y) = doc} :
                    Become(Show(placed, doc, x)) /\ Done("open", d, c, {how})

ViewNext ==
    /\ did = NoAct
    /\ \E d \in Docs :
        \/ Close(d) \/ Focus(d) \/ Deduplicate(d)
        \/ \E t, w \in BOOLEAN : Unique(d, t, w)
        \/ \E a \in Docs, how \in {"in-place", "vertical", "horizontal"}, reuse \in BOOLEAN : Open(d, a, how, reuse)

------------------------------------------------------------------------------
(* Properties                                                               *)

ViewTypeOK ==
    /\ \A c \in DOMAIN columns : columns[c].tabs \in Tabs
    /\ columns # <<>> => Has(Layout, focus)
    /\ texts \subseteq Untitled /\ known \subseteq Docs

On(l)  == UNION {Range(l.columns[c].tabs) : c \in DOMAIN l.columns}
Rest(l, c) == [l EXCEPT !.columns = RemoveAt(@, c)]
Count(l, d) == Cardinality({c \in DOMAIN l.columns : d \in Range(l.columns[c].tabs)})

FocusIsOnAnother(l, d, c) == Shows(l, Col(l, l.focus)) = d /\ l.columns[c].id # l.focus

\* Closing takes one tab of its document, or all when it had text and no file: it
\* comes back, empty, where the focus was on another of its tabs.  deduplicate
\* leaves exactly one, and neither takes away another document or text.
OnlyTheDocumentGoes ==
    did.call \in {"close", "deduplicate"} =>
        /\ \A d \in Docs \ {did.doc} : Count(Layout, d) = Count(did.was, d) /\ (d \in texts <=> d \in did.was.texts)
        /\ did.call = "close" =>
               Count(Layout, did.doc) = IF did.doc \notin did.was.texts THEN Count(did.was, did.doc) - 1
                                        ELSE IF FocusIsOnAnother(did.was, did.doc, did.col) THEN 1 ELSE 0
        /\ did.call = "deduplicate" =>
               Count(Layout, did.doc) = 1 /\ texts = did.was.texts

\* What unique keeps a tab of keeps its text, and what it is to keep has its tab:
\* the rest of the column unless it closes tabs, other columns unless it closes them.
UniqueSparesTheRest ==
    did.call = "unique" =>
        LET was   == did.was
            here  == Range(was.columns[did.col].tabs)
            keeps == {did.doc} \cup (IF "tabs" \in did.more THEN {} ELSE here)
                     \cup (IF "windows" \in did.more THEN {} ELSE On(Rest(was, did.col)))
        IN  /\ On(Layout) = keeps /\ texts \cap keeps = was.texts \cap keeps
            /\ Shows(Layout, Col(Layout, focus)) = did.doc
            /\ "windows" \in did.more => Len(columns) = 1

\* Opening a window shows the document and leaves the focus in its column, if the
\* document that is shown there is shown in no other.
OpenKeepsTheColumn ==
    did.call = "open" =>
        /\ Editors(did.doc) # {}
        /\ Cardinality(Editors(Shows(Layout, Col(Layout, did.was.focus)))) = 1 => focus = did.was.focus
=============================================================================
