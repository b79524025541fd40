----------------------------- MODULE StatusLine -----------------------------
(***************************************************************************)
(* The status line of a window (shared/ui/status_line).  The editor keeps  *)
(* it as one string: an item is turned into nodes and written behind those *)
(* that are parsed from the string, and it is found again by its nodes.    *)
(* Texts that stand next to each other are one text when they are parsed.  *)
(* A function is registered with the editor under a name of its window.    *)
(***************************************************************************)
EXTENDS Naturals, FiniteSets, SequencesExt

CONSTANTS
    Texts, Shown, Highlights, None,   \* texts, functions and highlights of items
    UsersLines,                       \* what the user may have on the line
    MaxHeld, MaxSize                  \* bounds: items held, texts and other nodes of the line

VARIABLES
    status,     \* the option of the window, parsed into nodes
    calls,      \* the functions registered
    held        \* history: the items that were registered and not deregistered

statusVars == <<status, calls, held>>

Node(kind, v) == [kind |-> kind, v |-> v]
Items == [kind : {"text"}, v : Texts, highlight : Highlights \cup {None}]
         \cup [kind : {"expr"}, v : Shown, highlight : Highlights \cup {None}]

StatusInit == status \in UsersLines /\ calls = {} /\ held = <<>>

\* VimTextNodeConverter, VimExprNodeConverter: a highlight is a node before.
NodesOf(item) ==
    (IF item.highlight = None THEN <<>> ELSE <<Node("highlight", <<item.highlight>>)>>)
    \o <<Node(item.kind, <<item.v>>)>>

\* to_statusline, and parse_statusline of what it wrote.
AddNode(nodes, n) ==
    IF nodes # <<>> /\ Last(nodes).kind = "text" /\ n.kind = "text"
    THEN Append(Front(nodes), Node("text", Last(nodes).v \o n.v))
    ELSE Append(nodes, n)
Written(nodes) == FoldLeft(AddNode, <<>>, nodes)
Size(nodes)    == FoldLeft(LAMBDA n, node : n + Len(node.v), 0, nodes)

\* The nodes there become items and nodes again, which changes nothing.  A
\* function that is registered already is refused: its name is taken.
RegisterItem(item) ==
    /\ item.kind = "expr" => item.v \notin calls
    /\ Len(held) < MaxHeld /\ Size(status) + Len(NodesOf(item)) <= MaxSize
    /\ calls'  = IF item.kind = "expr" THEN calls \cup {item.v} ELSE calls
    /\ status' = Written(status \o NodesOf(item))
    /\ held'   = Append(held, item)

Places(nodes, part) ==
    {i \in 1..Len(nodes) : i + Len(part) - 1 <= Len(nodes)
                           /\ SubSeq(nodes, i, i + Len(part) - 1) = part}
Without_Following(nodes, i, n) == SubSeq(nodes, 1, i - 1) \o SubSeq(nodes, i + n + 1, Len(nodes))
Without(nodes, i, n) == SubSeq(nodes, 1, i - 1) \o SubSeq(nodes, i + n, Len(nodes))

\* deregister: the function goes first; then the first place that has the nodes
\* of the item, if there is one.
DeregisterItem(item) ==
    /\ item \in Range(held)
    /\ calls' = IF item.kind = "expr" THEN calls \ {item.v} ELSE calls
    /\ LET places == Places(status, NodesOf(item))
       IN  status' = IF places = {} THEN status
                     ELSE Written(Without(status, Min(places), Len(NodesOf(item))))
    /\ held' = Remove(held, item)

StatusNext == \E item \in Items : RegisterItem(item) \/ DeregisterItem(item)

------------------------------------------------------------------------------
(* Properties                                                               *)

StatusTypeOK ==
    /\ status = Written(status) /\ Size(status) <= MaxSize
    /\ calls \subseteq Shown /\ Range(held) \subseteq Items

Occurs(kind, x) ==
    FoldLeft(LAMBDA n, node : n + IF node.kind = kind THEN Len(SelectSeq(node.v, LAMBDA a : a = x)) ELSE 0,
             0, status)
Held(kind, x) == Len(SelectSeq(held, LAMBDA item : item.kind = kind /\ item.v = x))

\* Whatever is taken off the line, what others put there stays: every text that
\* is still held is on it, and every function is called once, and never when it
\* is gone.
OthersStay ==
    /\ \A a \in Texts : Occurs("text", a) >= Held("text", a)
    /\ \A f \in Shown : Occurs("expr", f) = Held("expr", f) /\ (Occurs("expr", f) > 0 <=> f \in calls)
=============================================================================
