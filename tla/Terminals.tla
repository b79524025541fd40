------------------------------ MODULE Terminals ------------------------------
(***************************************************************************)
(* Terminals: their life (Terminal) and what is typed into them            *)
(* (TerminalInput).  They share the editor.  part says which of the two a  *)
(* behaviour is about; the other one rests in its initial state.           *)
(***************************************************************************)
EXTENDS Terminal

CONSTANTS
    Sends, Ops, \* the sends, and the operations of each
    Parts       \* the parts looked at

VARIABLES
    part,
    running, known, thread, alive, queue, op, payload, posted, at, requested, sent,
    overtaken

typingVars == <<running, known, thread, alive, queue, op, payload, posted, at, requested, sent,
                overtaken>>
allVars    == <<part, vars, typingVars>>

Typing == INSTANCE TerminalInput WITH handle <- known

ASSUME TypingAssumption == Typing!ConstantsOK

BothInit == part \in Parts /\ Init /\ Typing!Init

BothNext ==
    \/ part = "life"   /\ Next        /\ UNCHANGED <<part, typingVars>>
    \/ part = "typing" /\ Typing!Next /\ UNCHANGED <<part, process, wiring, main, history>>

BothSpec == BothInit /\ [][BothNext]_allVars

\* The input thread is the only one that would run in a part that is at rest.
BothFairSpec ==
    /\ BothSpec /\ Fairness /\ Typing!MainFairness
    /\ WF_allVars(part = "typing" /\ Typing!LoopStep /\ UNCHANGED <<part, vars>>)

-----------------------------------------------------------------------------
(***************************************************************************)
(* The properties of the input, and those that go together.                *)
(***************************************************************************)

\* The state of each part is well formed.
BothTypeOK == TypeOK /\ Typing!TypeOK

\* Neovim never writes behind what was asked for, and writes exactly that unless
\* payload changed under a waiting lambda; VSCode keeps the order of each send,
\* Vim that of all.
WritesInOrder == Typing!WritesInOrder

\* A terminal whose process died gives up its buffer and its functions.
EndedIsFreed == BufferIsFreed /\ FunctionsAreDropped

\* Texts are written while the process runs, but for those that Neovim's thread
\* has changed under a waiting lambda; the input thread ends with the process.
EveryTextIsWritten == Typing!EveryTextIsWritten /\ Typing!ThreadEnds

\* A terminal is sent the texts as they are and in their order.
SentAsRequested == Typing!SentAsRequested
===============================================================================
