------------------------------ MODULE Keymaps ------------------------------
(***************************************************************************)
(* Keys of a buffer (shared/lib/keymap, function, events/action_events):   *)
(* the event of a key is made when it is first asked for, as a function of *)
(* the editor that a mapping of the buffer calls.  Mapping and unmapping   *)
(* need a window that shows the buffer; they raise when there is none, and *)
(* what was done before stays.                                             *)
(***************************************************************************)
EXTENDS Naturals, FiniteSets

CONSTANTS Keys, Buffers

VARIABLES
    shown,      \* buffers in a window
    wiped,      \* buffers that are gone
    keymaps,    \* _keymaps of the manager
    functions,  \* functions of the registry, by the name generated for their key
    mapped,     \* mappings of the editor
    events,     \* _events of each buffer's KeyActionEvents
    hidden      \* history: keys that were asked for or deleted while the buffer had no window

keyVars == <<shown, wiped, keymaps, functions, mapped, events, hidden>>

Specs == Keys \X Buffers
Of(b) == Keys \X {b}

KeyInit ==
    /\ shown = Buffers /\ wiped = {}
    /\ keymaps = {} /\ functions = {} /\ mapped = {} /\ events = {} /\ hidden = {}

\* KeyActionEvents.__getitem__, and KeymapManager.register for a key it does not
\* know.  A name that is taken raises; so does a buffer without a window, when
\* the function is there already.
GetItem(k, b) ==
    LET spec == <<k, b>>
    IN  /\ b \notin wiped /\ spec \notin events
        /\ hidden' = IF b \in shown THEN hidden ELSE hidden \cup {spec}
        /\ \/ /\ spec \in keymaps
              /\ events' = events \cup {spec}
              /\ UNCHANGED <<keymaps, functions, mapped>>
           \/ /\ spec \notin keymaps /\ spec \notin functions
              /\ functions' = functions \cup {spec}
              /\ IF b \in shown
                 THEN /\ mapped'  = mapped \cup {spec}
                      /\ keymaps' = keymaps \cup {spec}
                      /\ events'  = events \cup {spec}
                 ELSE UNCHANGED <<keymaps, mapped, events>>
        /\ UNCHANGED <<shown, wiped>>

\* KeyActionEvents.__delitem__: the manager forgets the key first, then unmaps it.
DelItem_KeepsFunction(k, b) ==
    LET spec == <<k, b>>
    IN  /\ b \notin wiped
        /\ hidden' = IF b \in shown THEN hidden ELSE hidden \cup {spec}
        /\ keymaps' = keymaps \ {spec}
        /\ IF spec \in keymaps /\ b \notin shown
           THEN UNCHANGED <<functions, mapped, events>>
           ELSE /\ events' = events \ {spec}
                /\ mapped' = IF spec \in keymaps THEN mapped \ {spec} ELSE mapped
                /\ UNCHANGED functions
        /\ UNCHANGED <<shown, wiped>>
DelItem(k, b) ==
    LET spec == <<k, b>>
    IN  /\ b \notin wiped
        /\ hidden' = IF b \in shown THEN hidden ELSE hidden \cup {spec}
        /\ keymaps' = keymaps \ {spec}
        /\ IF spec \in keymaps /\ b \notin shown
           THEN UNCHANGED <<functions, mapped, events>>
           ELSE /\ events' = events \ {spec}
                /\ mapped' = IF spec \in keymaps THEN mapped \ {spec} ELSE mapped
                /\ functions' = IF spec \in keymaps THEN functions \ {spec} ELSE functions
        /\ UNCHANGED <<shown, wiped>>

\* The end of a buffer clears its events, and nothing of the manager.
Wipe(b) ==
    /\ b \notin wiped
    /\ wiped'  = wiped \cup {b}
    /\ shown'  = shown \ {b}
    /\ events' = events \ Of(b)
    /\ mapped' = mapped \ Of(b)
    /\ UNCHANGED <<keymaps, functions, hidden>>

Hide(b) == b \in shown /\ shown' = shown \ {b}
           /\ UNCHANGED <<wiped, keymaps, functions, mapped, events, hidden>>
Show(b) == b \notin shown \cup wiped /\ shown' = shown \cup {b}
           /\ UNCHANGED <<wiped, keymaps, functions, mapped, events, hidden>>

KeyNext ==
    \/ \E k \in Keys, b \in Buffers : GetItem(k, b) \/ DelItem(k, b)
    \/ \E b \in Buffers : Wipe(b) \/ Hide(b) \/ Show(b)

KeySpec == KeyInit /\ [][KeyNext]_keyVars

------------------------------------------------------------------------------
(* Properties                                                               *)

KeyTypeOK ==
    /\ shown \subseteq Buffers \ wiped /\ wiped \subseteq Buffers
    /\ keymaps \cup functions \cup mapped \cup events \cup hidden \subseteq Specs

\* An event that was handed out is fired by its key as long as the buffer is
\* there, whatever was asked for and deleted in between.
HandedOutIsFired == events \subseteq mapped /\ mapped \subseteq functions

\* A key that was never touched while its buffer had no window can be asked for:
\* its function is registered exactly when the manager knows of it.
CanBeAskedFor == \A spec \in Specs \ hidden : spec \in functions <=> spec \in keymaps
=============================================================================
