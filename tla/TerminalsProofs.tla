--------------------------- MODULE TerminalsProofs ---------------------------
(***************************************************************************)
(* Proofs about Terminals: each part does, beside the other, only what its *)
(* own specification says, so what is proved of a part holds of the two.   *)
(***************************************************************************)
EXTENDS Terminals, TerminalProofs

\* What is proved of the input.
TypingProofs == INSTANCE TerminalInputProofs WITH handle <- known

-----------------------------------------------------------------------------
(***************************************************************************)
(* The steps.                                                              *)
(***************************************************************************)

\* Nothing that is typed changes the editor ...
LEMMA TypingSparesTheEditor == Typing!Next => UNCHANGED editor
<1>. SUFFICES ASSUME Typing!Next  PROVE UNCHANGED editor
  OBVIOUS
<1>1. CASE \E s \in Sends : Typing!Send(s) \/ Typing!SendStep(s)
  BY <1>1 DEF Typing!Send, Typing!SendStep
<1>2. CASE Typing!RunPosted \/ Typing!Terminate \/ Typing!Dies \/ Typing!Dispose
  BY <1>2 DEF Typing!RunPosted, Typing!Terminate, Typing!Dies, Typing!Dispose
<1>3. CASE Typing!LoopStep
  BY <1>3 DEF Typing!LoopStep, Typing!Check, Typing!Get, Typing!Deal, Typing!PostPayload
<1>. QED  BY <1>1, <1>2, <1>3 DEF Typing!Next

\* ... and nothing in the life of a terminal does.
LEMMA LifeSparesTheEditor == Next => UNCHANGED editor
<1>. SUFFICES ASSUME Next  PROVE UNCHANGED editor
  OBVIOUS
<1>1. ASSUME NEW j \in Jobs, NEW b \in Buffers, Launch(j, b) \/ LaunchFails(j, b)
      PROVE  UNCHANGED editor
  BY <1>1 DEF Launch, LaunchFails, Start
<1>2. ASSUME NEW j \in Jobs, Dies(j) \/ ReportExit(j) \/ Wipe(j) \/ Terminate(j) \/ Cleanup(j)
      PROVE  UNCHANGED editor
  BY <1>2 DEF Dies, ReportExit, Wipe, Terminate, Cleanup
<1>3. ASSUME NEW j \in Jobs, MainStep(j)  PROVE UNCHANGED editor
  BY <1>3 DEF MainStep, StopProcess, TooDeep, NothingToStop, Fire, DisposeJob, Release,
     CallHooks, HookRaises, Deregister, DisposeTerminal
<1>. QED  BY <1>1, <1>2, <1>3 DEF Next

\* A step of both is a step of the life of a terminal, or leaves it as it is.
LEMMA LifeStep == [BothNext]_allVars => [Next]_vars
<1>. SUFFICES ASSUME [BothNext]_allVars  PROVE [Next]_vars
  OBVIOUS
<1>1. CASE part = "typing" /\ Typing!Next /\ UNCHANGED <<part, process, wiring, main, history>>
  BY <1>1, TypingSparesTheEditor DEF vars
<1>. QED  BY <1>1 DEF BothNext, allVars

-----------------------------------------------------------------------------
(***************************************************************************)
(* The definitions of TerminalInput say the same wherever they are taken   *)
(* from.                                                                   *)
(***************************************************************************)
LEMMA SameData ==
    /\ Typing!NoText = TypingProofs!NoText
    /\ \A o : Typing!IsText(o) <=> TypingProofs!IsText(o)
    /\ \A s : Typing!Operations(s) = TypingProofs!Operations(s)
    /\ \A os : Typing!Texts(os) = TypingProofs!Texts(os)
    /\ \A os, n : Typing!TextsUpTo(os, n) = TypingProofs!TextsUpTo(os, n)
    /\ Typing!AllOperations = TypingProofs!AllOperations
<1>1. Typing!NoText = TypingProofs!NoText
  BY DEF Typing!NoText, TypingProofs!NoText
<1>2. ASSUME NEW o  PROVE Typing!IsText(o) <=> TypingProofs!IsText(o)
  BY <1>1 DEF Typing!IsText, TypingProofs!IsText
<1>3. ASSUME NEW s  PROVE Typing!Operations(s) = TypingProofs!Operations(s)
  BY DEF Typing!Operations, TypingProofs!Operations
<1>4. ASSUME NEW os  PROVE Typing!Texts(os) = TypingProofs!Texts(os)
  BY <1>2 DEF Typing!Texts, TypingProofs!Texts
<1>5. ASSUME NEW os, NEW n  PROVE Typing!TextsUpTo(os, n) = TypingProofs!TextsUpTo(os, n)
  <2>1. {m \in 1 .. n : Typing!IsText(os[m])} = {m \in 1 .. n : TypingProofs!IsText(os[m])}
    BY <1>2
  <2>. QED  BY <2>1 DEF Typing!TextsUpTo, TypingProofs!TextsUpTo, Typing!Cardinality,
                         TypingProofs!Cardinality
<1>6. Typing!AllOperations = TypingProofs!AllOperations
  BY DEF Typing!AllOperations, TypingProofs!AllOperations
<1>. QED  BY <1>1, <1>2, <1>3, <1>4, <1>5, <1>6

LEMMA SameSteps == Typing!Next => TypingProofs!Next
<1>. SUFFICES ASSUME Typing!Next  PROVE TypingProofs!Next
  OBVIOUS
<1>. USE SameData DEF Typing!job, Typing!loop, TypingProofs!job, TypingProofs!loop
<1>1. ASSUME NEW s \in Sends, Typing!Send(s)  PROVE TypingProofs!Send(s)
  BY <1>1 DEF Typing!Send, TypingProofs!Send
<1>2. ASSUME NEW s \in Sends, Typing!SendStep(s)  PROVE TypingProofs!SendStep(s)
  BY <1>2 DEF Typing!SendStep, TypingProofs!SendStep
<1>3. Typing!RunPosted => TypingProofs!RunPosted
  BY DEF Typing!RunPosted, TypingProofs!RunPosted
<1>4. Typing!Terminate => TypingProofs!Terminate
  BY DEF Typing!Terminate, TypingProofs!Terminate
<1>5. Typing!Dies => TypingProofs!Dies
  BY DEF Typing!Dies, TypingProofs!Dies
<1>6. Typing!Dispose => TypingProofs!Dispose
  BY DEF Typing!Dispose, TypingProofs!Dispose
<1>7. Typing!Check => TypingProofs!Check
  BY DEF Typing!Check, TypingProofs!Check
<1>8. Typing!Get => TypingProofs!Get
  BY DEF Typing!Get, TypingProofs!Get
<1>9. Typing!Deal => TypingProofs!Deal
  BY DEF Typing!Deal, TypingProofs!Deal
<1>10. Typing!PostPayload => TypingProofs!PostPayload
  BY DEF Typing!PostPayload, TypingProofs!PostPayload
<1>. QED
  BY <1>1, <1>2, <1>3, <1>4, <1>5, <1>6, <1>7, <1>8, <1>9, <1>10
     DEF Typing!Next, TypingProofs!Next, Typing!LoopStep, TypingProofs!LoopStep

LEMMA SameInit == Typing!Init => TypingProofs!Init
BY SameData DEF Typing!Init, TypingProofs!Init

LEMMA SameConstants == TypingProofs!ConstantsOK
BY TypingAssumption DEF Typing!ConstantsOK, TypingProofs!ConstantsOK

LEMMA SameProperties ==
    /\ TypingProofs!TypeOK => Typing!TypeOK
    /\ TypingProofs!WritesInOrder => Typing!WritesInOrder
<1>. USE SameData
<1>1. TypingProofs!TypeOK => Typing!TypeOK
  BY DEF Typing!TypeOK, TypingProofs!TypeOK
<1>2. ASSUME NEW texts, NEW os
      PROVE  Typing!NoneOlder(texts, os) <=> TypingProofs!NoneOlder(texts, os)
  BY DEF Typing!NoneOlder, TypingProofs!NoneOlder
<1>3. ASSUME NEW texts
      PROVE  Typing!InTheirOrder(texts) <=> TypingProofs!InTheirOrder(texts)
  BY DEF Typing!InTheirOrder, TypingProofs!InTheirOrder
<1>5. ASSUME NEW texts, NEW os
      PROVE  Typing!InPlace(texts, os) <=> TypingProofs!InPlace(texts, os)
  BY DEF Typing!InPlace, TypingProofs!InPlace
<1>4. TypingProofs!WritesInOrder => Typing!WritesInOrder
  BY <1>2, <1>3, <1>5 DEF Typing!WritesInOrder, TypingProofs!WritesInOrder,
     Typing!InPlaceUnlessOvertaken, TypingProofs!InPlaceUnlessOvertaken,
     Typing!VimWrites, TypingProofs!VimWrites,
     Typing!NeverSendsOlder, TypingProofs!NeverSendsOlder,
     Typing!EachSendInOrder, TypingProofs!EachSendInOrder
<1>. QED  BY <1>1, <1>4

-----------------------------------------------------------------------------
(***************************************************************************)
(* The theorems.                                                           *)
(***************************************************************************)

\* A step of both is a step of the input, or leaves that as it is.
LEMMA TypingStep == [BothNext]_allVars => [TypingProofs!Next]_(TypingProofs!vars)
<1>. SUFFICES ASSUME [BothNext]_allVars
              PROVE  TypingProofs!Next \/ UNCHANGED TypingProofs!vars
  OBVIOUS
<1>1. CASE part = "life" /\ Next /\ UNCHANGED <<part, typingVars>>
  BY <1>1, LifeSparesTheEditor
     DEF typingVars, TypingProofs!vars, TypingProofs!job, TypingProofs!loop
<1>2. CASE UNCHANGED allVars
  BY <1>2 DEF allVars, vars, typingVars, TypingProofs!vars, TypingProofs!job, TypingProofs!loop
<1>3. CASE part = "typing" /\ Typing!Next /\ UNCHANGED <<part, process, wiring, main, history>>
  BY <1>3, SameSteps
<1>. QED  BY <1>1, <1>2, <1>3 DEF BothNext

\* Beside the input, the life of a terminal is what its own specification says.
THEOREM LifeImplements == BothSpec => Spec
<1>1. BothInit => Init
  BY DEF BothInit
<1>. QED  BY <1>1, LifeStep, PTL DEF BothSpec, Spec

\* Beside the life of the terminals, the input is what its own says.
THEOREM TypingImplements == BothSpec => TypingProofs!Spec
<1>1. BothInit => TypingProofs!Init
  BY SameInit DEF BothInit
<1>. QED  BY <1>1, TypingStep, PTL DEF BothSpec, TypingProofs!Spec

\* The state of both is well formed.
THEOREM BothTypeCorrect == BothSpec => []BothTypeOK
<1>1. TypeOK /\ TypingProofs!TypeOK => BothTypeOK
  BY SameProperties DEF BothTypeOK
<1>. QED
  BY <1>1, LifeImplements, TypingImplements, TypeCorrect, SameConstants,
     TypingProofs!TypeCorrect, PTL

\* With the terminals coming and going: Neovim never writes behind what was asked
\* for, and just that as long as payload was not changed under a waiting lambda;
\* VSCode keeps the order of each send, Vim that of all (loop, threadsafe_call,
\* _send_thread, send).
THEOREM BothWriteInOrder == BothSpec => []WritesInOrder
<1>1. TypingProofs!WritesInOrder => WritesInOrder
  BY SameProperties DEF WritesInOrder
<1>. QED
  BY <1>1, TypingImplements, SameConstants, TypingProofs!Ordered, PTL

\* With what is typed going on, a buffer has one writer, no terminal is lost and
\* hooks come after release (execute, terminate, _on_vim_exit, on_exit).
THEOREM BothKeepLife ==
    BothSpec => [](OneUpdaterPerBuffer /\ NoneIsLost /\ HooksComeAfterRelease)
BY LifeImplements, OneWriter, NoTerminalIsLost, HooksInTheirPlace, PTL
===============================================================================
