---------------------------- MODULE StdoutProxy ----------------------------
(***************************************************************************)
(* StdoutProxy (timertask/vim/stdout_rescuer.py): while threads are used,  *)
(* what is printed goes into a bounded queue that a timer on the main      *)
(* thread empties and shows.  A print is a write of the text and one of    *)
(* the end of the line, so that threads may come in between.  One of the   *)
(* two streams is modelled; they are alike.                                *)
(***************************************************************************)
EXTENDS Naturals, FiniteSets, SequencesExt

CONSTANTS Writers, QueueSize, MaxPrints

ASSUME SizesAssumption == QueueSize \in Nat /\ MaxPrints \in Nat

VARIABLES
    pipe,       \* sys.stdout is the pipe of the proxy
    queue,      \* _stdout_queue
    timer,      \* the timer task is registered
    printed,    \* how often each thread has written
    holds,      \* threads that go on with the pipe they once took
    screen,     \* what was shown
    lost        \* history: what was dropped, at a full queue or by an activation

proxyVars == <<pipe, queue, timer, printed, holds, screen, lost>>

ProxyInit ==
    /\ pipe = FALSE /\ timer = FALSE
    /\ queue = <<>> /\ screen = <<>> /\ lost = {}
    /\ printed = [w \in Writers |-> 0]
    /\ holds = {}

\* ensure_activate: what is left in the queue is thrown away.
EnsureActivate ==
    /\ ~timer
    /\ timer' = TRUE /\ pipe' = TRUE
    /\ lost' = lost \cup Range(queue) /\ queue' = <<>>
    /\ UNCHANGED <<printed, holds, screen>>

Deactivate ==
    /\ timer
    /\ timer' = FALSE /\ pipe' = FALSE
    /\ UNCHANGED <<queue, printed, holds, screen, lost>>

\* A thread takes sys.stdout and keeps it, as the loggers do.
HoldPipe(w) ==
    /\ pipe /\ w \notin holds
    /\ holds' = holds \cup {w}
    /\ UNCHANGED <<pipe, queue, timer, printed, screen, lost>>

\* _DummyPipe.write.  A full queue drops the message; the writer does not wait.
Write(w) ==
    /\ printed[w] < MaxPrints /\ (pipe \/ w \in holds)
    /\ LET message == <<w, printed[w] + 1>>
       IN  IF Len(queue) < QueueSize
           THEN queue' = Append(queue, message) /\ UNCHANGED lost
           ELSE lost' = lost \cup {message} /\ UNCHANGED queue
    /\ printed' = [printed EXCEPT ![w] = @ + 1]
    /\ UNCHANGED <<pipe, timer, holds, screen>>

\* loop_function: get_nowait until the queue is empty, and one message of it all.
\* Writers may come in between any two of its steps.
FetchText_Once == screen' = Append(screen, Head(queue)) /\ queue' = <<>>
FetchText == screen' = Append(screen, Head(queue)) /\ queue' = Tail(queue)
LoopFunction ==
    /\ timer /\ queue # <<>>
    /\ FetchText
    /\ UNCHANGED <<pipe, timer, printed, holds, lost>>

ProxyNext ==
    \/ EnsureActivate \/ Deactivate \/ LoopFunction
    \/ \E w \in Writers : HoldPipe(w) \/ Write(w)

ProxySpec == ProxyInit /\ [][ProxyNext]_proxyVars

------------------------------------------------------------------------------
(* Properties                                                               *)

ProxyTypeOK ==
    /\ printed \in [Writers -> 0..MaxPrints] /\ holds \subseteq Writers
    /\ Len(queue) <= QueueSize /\ pipe = timer

\* What a thread printed is shown once, in its order, or waits in the queue, or
\* was dropped because the queue was full or the proxy was started again.
PrintedIsShown ==
    LET all == screen \o queue
    IN  /\ \A i, j \in 1 .. Len(all) :
               i < j /\ all[i][1] = all[j][1] => all[i][2] < all[j][2]
        /\ Range(all) \cap lost = {}
        /\ Range(all) \cup lost
             = {m \in Writers \X (1 .. MaxPrints) : m[2] <= printed[m[1]]}
=============================================================================
