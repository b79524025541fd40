---------------------------- MODULE TerminalInput ----------------------------
(***************************************************************************)
(* What is typed into a terminal.  A driver turns one send into operations: *)
(* texts to write, and waits.  Vim carries them out in the call of send;    *)
(* VSCode starts a thread for every send; Neovim has one thread             *)
(* (_InputSolverTask) that takes them from a queue and posts the writing to *)
(* the main thread, as a lambda that reads the thread's variable payload    *)
(* only when it runs.                                                       *)
(***************************************************************************)
EXTENDS Integers, Sequences, SequencesExt

CONSTANTS
    Sends,      \* the calls of send of a behaviour
    Editors,    \* the editors considered: "vim", "nvim", "vscode"
    Ops         \* the operations of each: a sequence of "text", "wait", "until"

ConstantsOK ==
    /\ Editors \subseteq {"vim", "nvim", "vscode"}
    /\ Ops \in [Sends -> Seq({"text", "wait", "until"})]

VARIABLES
    editor,     \* the one the plugin runs in
    running,    \* is the terminal's process running?
    handle,     \* does the job know its process (alive can be true)?
    thread,     \* Neovim's input thread: "check", "get", "deal", "post", "ended"
    alive,      \* its alive flag
    queue,      \* its queue
    op,         \* the operation it took
    payload,    \* its variable of that name
    posted,     \* lambdas the main thread has not run yet
    at,         \* VSCode: operations done by the thread of each send, or -1
    requested,  \* history: the operations asked for, in order
    sent,       \* history: the texts written, in order
    overtaken   \* history: has payload changed under a lambda that was waiting?

job  == <<running, handle>>
loop == <<thread, alive, queue, op, payload>>
vars == <<editor, job, loop, posted, at, requested, sent, overtaken>>

NoText == <<>>      \* None: in the queue the end, in payload no text
\* The operations of a send, by their places, and the texts among operations.
Operations(s) == [i \in 1..Len(Ops[s]) |-> <<s, i>>]
IsText(o)     == o # NoText /\ Ops[o[1]][o[2]] = "text"
Texts(os)     ==
    LET upTo[n \in 0..Len(os)] ==
            IF n = 0 THEN <<>>
            ELSE IF IsText(os[n]) THEN Append(upTo[n - 1], os[n]) ELSE upTo[n - 1]
    IN  upTo[Len(os)]

Init ==
    /\ editor \in Editors
    /\ running   = TRUE
    /\ handle    = TRUE
    /\ thread    = IF editor = "nvim" THEN "check" ELSE "ended"
    /\ alive     = TRUE
    /\ queue     = <<>>
    /\ op        = NoText
    /\ payload   = NoText
    /\ posted    = 0
    /\ at        = [s \in Sends |-> -1]
    /\ requested = <<>>
    /\ sent      = <<>>
    /\ overtaken = FALSE

-----------------------------------------------------------------------------
(***************************************************************************)
(* The main thread.                                                        *)
(***************************************************************************)

\* Only a live terminal takes input, but VSCode's does not look.  On Vim
\* everything is written before send returns.
Send(s) ==
    /\ at[s] = -1
    /\ editor = "vscode" \/ (handle /\ running)
    /\ at'        = [at EXCEPT ![s] = 0]
    /\ requested' = requested \o Operations(s)
    /\ queue' = IF editor = "nvim" THEN queue \o Operations(s) ELSE queue
    /\ sent'  = IF editor = "vim" THEN sent \o Texts(Operations(s)) ELSE sent
    /\ UNCHANGED <<editor, job, thread, alive, op, payload, posted, overtaken>>

\* The main thread runs a lambda: chansend of what payload holds by now, an
\* error that is only reported when the process is gone.
RunPosted ==
    /\ posted > 0
    /\ posted' = posted - 1
    /\ sent'   = IF running THEN Append(sent, payload) ELSE sent
    /\ UNCHANGED <<editor, job, loop, at, requested, overtaken>>

\* terminate: the process is stopped; Neovim's job forgets it at once.
Terminate ==
    /\ handle /\ running
    /\ handle'  = (editor # "nvim")
    /\ UNCHANGED <<editor, running, loop, posted, at, requested, sent, overtaken>>

Dies ==
    /\ running
    /\ running' = FALSE
    /\ UNCHANGED <<editor, handle, loop, posted, at, requested, sent, overtaken>>

\* Slip: dispose forgets the input thread.
Dispose_OnlyForgets ==
    /\ alive /\ ~running /\ editor # "vscode"
    /\ handle' = FALSE
    /\ UNCHANGED <<editor, running, loop, posted, at, requested, sent, overtaken>>

\* The exit is reported, and the job disposed of; not so on VSCode.
Dispose ==
    /\ alive /\ ~running /\ editor # "vscode"
    /\ handle' = FALSE
    /\ alive'  = FALSE
    /\ queue'  = Append(queue, NoText)
    /\ UNCHANGED <<editor, running, thread, op, payload, posted, at, requested, sent, overtaken>>

-----------------------------------------------------------------------------
(***************************************************************************)
(* Neovim's input thread.                                                  *)
(***************************************************************************)
Check ==
    /\ thread = "check"
    /\ thread' = IF alive THEN "get" ELSE "ended"
    /\ UNCHANGED <<editor, job, alive, queue, op, payload, posted, at, requested, sent, overtaken>>

\* queue.get: an operation, the end, or nothing within a second.
Get ==
    /\ thread = "get"
    /\ IF queue = <<>> THEN thread' = "check" /\ UNCHANGED <<queue, op>>
       ELSE /\ op'     = Head(queue)
            /\ queue'  = Tail(queue)
            /\ thread' = IF op' = NoText THEN "ended" ELSE "deal"
    /\ UNCHANGED <<editor, job, alive, payload, posted, at, requested, sent, overtaken>>

\* deal_operation: a text becomes the payload; a wait, which takes its time,
\* leaves None there; wait_until raises, for the snapshot_getter wants an
\* argument, and the operation is skipped.
Deal ==
    /\ thread = "deal"
    /\ LET kind == Ops[op[1]][op[2]] IN
       /\ payload' = CASE kind = "text" -> op [] kind = "wait" -> NoText [] OTHER -> payload
       /\ thread'  = IF kind = "text" THEN "post" ELSE "check"
       /\ overtaken' = (overtaken \/ (posted > 0 /\ kind # "until"))
    /\ UNCHANGED <<editor, job, alive, queue, op, posted, at, requested, sent>>

\* Slip: after the payload is posted the thread takes it up again.
PostPayload_Again ==
    /\ thread = "post"
    /\ posted' = posted + 1
    /\ thread' \in {"check", "deal"}
    /\ UNCHANGED <<editor, job, alive, queue, op, payload, at, requested, sent, overtaken>>

\* Slip: the payload is dropped when the main thread is still busy.
PostPayload_UnlessBusy ==
    /\ thread = "post"
    /\ posted' = 1
    /\ thread' = "check"
    /\ UNCHANGED <<editor, job, alive, queue, op, payload, at, requested, sent, overtaken>>

PostPayload ==
    /\ thread = "post"
    /\ posted' = posted + 1
    /\ thread' = "check"
    /\ UNCHANGED <<editor, job, alive, queue, op, payload, at, requested, sent, overtaken>>

LoopStep == Check \/ Get \/ Deal \/ PostPayload

-----------------------------------------------------------------------------
(***************************************************************************)
(* VSCode's threads, one for each send.                                    *)
(***************************************************************************)

\* Slip: the thread may take an operation up again after it has written.
SendStep_Retries(s) ==
    /\ editor = "vscode"
    /\ at[s] \in 0..(Len(Ops[s]) - 1)
    /\ at' \in {at, [at EXCEPT ![s] = @ + 1]}
    /\ sent' = IF running /\ IsText(<<s, at[s] + 1>>) THEN Append(sent, <<s, at[s] + 1>>)
               ELSE sent
    /\ UNCHANGED <<editor, job, loop, posted, requested, overtaken>>

SendStep(s) ==
    /\ editor = "vscode"
    /\ at[s] \in 0..(Len(Ops[s]) - 1)
    /\ at' = [at EXCEPT ![s] = @ + 1]
    /\ sent' = IF running /\ IsText(<<s, at'[s]>>) THEN Append(sent, <<s, at'[s]>>)
               ELSE sent
    /\ UNCHANGED <<editor, job, loop, posted, requested, overtaken>>

Next ==
    \/ \E s \in Sends : Send(s) \/ SendStep(s)
    \/ RunPosted \/ Terminate \/ Dies \/ Dispose
    \/ LoopStep

Spec == Init /\ [][Next]_vars

\* Threads are scheduled, the main thread runs what was posted to it, and the
\* editor reports the exit.
MainFairness ==
    /\ WF_vars(RunPosted) /\ WF_vars(Dispose)
    /\ \A s \in Sends : WF_vars(SendStep(s))
FairSpec == Spec /\ MainFairness /\ WF_vars(LoopStep)

-----------------------------------------------------------------------------
(***************************************************************************)
(* Properties.                                                             *)
(***************************************************************************)
AllOperations == UNION {{<<s, i>> : i \in 1..Len(Ops[s])} : s \in Sends}

\* The state is well formed, and the thread deals with an operation only.
TypeOK ==
    /\ editor \in Editors
    /\ running \in BOOLEAN /\ handle \in BOOLEAN /\ alive \in BOOLEAN
    /\ thread \in {"check", "get", "deal", "post", "ended"}
    /\ queue \in Seq(AllOperations \cup {NoText})
    /\ {op, payload} \subseteq AllOperations \cup {NoText}
    /\ thread \in {"deal", "post"} => op # NoText
    /\ posted \in Nat /\ overtaken \in BOOLEAN
    /\ at \in [Sends -> Int]
    /\ requested \in Seq(AllOperations) /\ sent \in Seq(AllOperations \cup {NoText})

\* The number of texts among the first n of some operations.
TextsUpTo(os, n) == Cardinality({m \in 1..n : IsText(os[m])})

\* Texts never run behind the operations asked for: there are no more than were
\* asked for, the i-th is the i-th text, one asked for later, or none, and what
\* is written after a text was asked for no earlier.  A text may still be missing
\* or be there twice.
NoneOlder(texts, os) ==
    /\ Len(texts) <= TextsUpTo(os, Len(os))
    /\ \A i \in 1..Len(texts) : texts[i] = NoText \/
          \E n \in 1..Len(os) :
             /\ IsText(os[n]) /\ texts[i] = os[n]
             /\ i <= TextsUpTo(os, n)
             /\ \A k \in 1..i : texts[k] = NoText \/ \E m \in 1..n : texts[k] = os[m]

\* The texts of one send come in order: none twice, and none before those that
\* come first in it.
InTheirOrder(texts) ==
    \A k \in 1..Len(texts) :
        /\ IsText(texts[k])
        /\ \A i \in 1..(k - 1) : texts[i] # texts[k]
        /\ \A n \in 1..(texts[k][2] - 1) : IsText(<<texts[k][1], n>>) =>
               \E i \in 1..(k - 1) : texts[i] = <<texts[k][1], n>>

\* The i-th text written is the i-th that was asked for.
InPlace(texts, os) ==
    \A i \in 1..Len(texts) :
        \E n \in 1..Len(os) : IsText(os[n]) /\ texts[i] = os[n] /\ i = TextsUpTo(os, n)

\* What Neovim writes never runs behind what was asked for, whatever payload
\* holds when a lambda runs; and as long as payload was never changed under a
\* lambda that waited, what is written is what was asked for, without a gap
\* (loop, threadsafe_call).
NeverSendsOlder == editor = "nvim" => NoneOlder(sent, requested)
InPlaceUnlessOvertaken == editor = "nvim" /\ ~overtaken => InPlace(sent, requested)

\* VSCode's threads may mix the texts of two sends, but write each send's own in
\* order (_send_thread).
EachSendInOrder == editor = "vscode" => InTheirOrder(sent)

\* Vim has written everything, in its order, when send is back (send).
VimWrites == editor = "vim" => sent = Texts(requested)

\* What each editor keeps of the order in which texts were asked for.
WritesInOrder == NeverSendsOlder /\ InPlaceUnlessOvertaken /\ EachSendInOrder /\ VimWrites

\* The terminal is sent the texts it was asked to send, as they are and in
\* their order (deal_operation: "Send the str as is").
SentAsRequested == IsPrefix(sent, Texts(requested))

\* While the process runs a text that was asked for is written some time, unless,
\* on Neovim, payload was changed under a waiting lambda: it may be lost then,
\* and all that holds is that as many writes are made as texts were asked for.
EveryTextIsWritten ==
    /\ \A o \in {a \in AllOperations : IsText(a)} :
           at[o[1]] # -1 ~>
               \/ \E i \in 1..Len(sent) : sent[i] = o
               \/ ~running
               \/ editor = "nvim" /\ overtaken
    /\ \A n \in 1..Cardinality({o \in AllOperations : IsText(o)}) :
           TextsUpTo(requested, Len(requested)) >= n ~> Len(sent) >= n \/ ~running

\* When the process is gone the input thread ends, wherever it was: neither a
\* queue that stays empty nor a backlog keeps it (dispose, loop).
ThreadEnds == ~running ~> thread = "ended"
===============================================================================
