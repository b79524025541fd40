------------------------------- MODULE Terminal -------------------------------
(***************************************************************************)
(* The life of interactive terminals: TerminalController, TerminalExecutor, *)
(* TerminalExecutionManager, TerminalJobRunner and the TerminalJob of Vim,  *)
(* Neovim and VSCode.  A job's exit event is what releases the runner,      *)
(* calls the hooks and frees the buffer for the next terminal.  On Neovim   *)
(* the exit comes from the editor; on Vim terminate fires it too, from      *)
(* inside the very listener that terminates; on VSCode nobody fires it.     *)
(* Only the processes run beside the main thread, whose nested calls are    *)
(* kept as the list of steps it still has to take.                          *)
(***************************************************************************)
EXTENDS Integers, Sequences, SequencesExt

CONSTANTS
    Jobs,       \* the terminals of a behaviour
    Buffers,    \* the buffers they are shown in
    None,       \* no job, no buffer
    Editors,    \* the editors considered: "vim", "nvim", "vscode"
    MaxSteps    \* bound: steps the main thread may have before it when it goes
                \* deeper (stands for Python's recursion limit)

ASSUME NoneAssumption    == None \notin Jobs \cup Buffers
ASSUME EditorsAssumption == Editors \subseteq {"vim", "nvim", "vscode"}
ASSUME StepsAssumption   == MaxSteps \in Nat

VARIABLES
    editor,     \* the one the plugin runs in
    proc,       \* the process: "none", "running", "dead" (the editor's exit
                \* callback is to come), "reported" or "failed" to start
    asked,      \* processes that were told to stop
    buffer,     \* the buffer of each job
    handle,     \* jobs that know their process (_bufnr > 0, _job_id, _tty)
    attached,   \* jobs whose runner holds them and is subscribed to them
    listeners,  \* the listeners of each job's exit event
    functions,  \* jobs whose callback functions are registered
    cleanups,   \* jobs whose functions are to be deregistered by a one-shot
    executions, \* _executions and _contexts of the manager
    main,       \* the job the main thread works on, and its steps to come
    hooked,     \* history: how often each job's hooks were called
    cut         \* history: jobs whose exit listeners were not all called

process == <<proc, asked, buffer>>
wiring  == <<handle, attached, listeners, functions, cleanups, executions>>
history == <<hooked, cut>>
vars    == <<editor, process, wiring, main, history>>

Idle       == [job |-> None, todo |-> <<>>]
OnBuffer(b) == {j \in executions : buffer[j] = b}
Alive(j)   == j \in handle /\ proc[j] = "running"
Reported   == editor # "vscode"     \* the editor calls back at the exit

Init ==
    /\ editor \in Editors
    /\ proc       = [j \in Jobs |-> "none"]
    /\ asked      = {}
    /\ buffer     = [j \in Jobs |-> None]
    /\ handle     = {}
    /\ attached   = {}
    /\ listeners  = [j \in Jobs |-> <<>>]
    /\ functions  = {}
    /\ cleanups   = {}
    /\ executions = {}
    /\ main       = Idle
    /\ hooked     = [j \in Jobs |-> 0]
    /\ cut        = {}

-----------------------------------------------------------------------------
(***************************************************************************)
(* Launching.                                                              *)
(***************************************************************************)

\* Slip: the hooks are subscribed before the runner's listener.
Subscribed_HooksFirst == <<"hooks", "runner", "deregister">>

\* The runner's listener, the request's on_exit, the manager's.
Subscribed == <<"runner", "hooks", "deregister">>

\* The callback functions are registered, the process starts, the listeners
\* subscribe and the manager files the execution.
Start(j, b) ==
    /\ main = Idle
    /\ proc[j] = "none"
    /\ proc'       = [proc EXCEPT ![j] = "running"]
    /\ buffer'     = [buffer EXCEPT ![j] = b]
    /\ handle'     = handle \cup {j}
    /\ attached'   = attached \cup {j}
    /\ listeners'  = [listeners EXCEPT ![j] = Subscribed]
    /\ functions'  = functions \cup {j}
    /\ executions' = executions \cup {j}
    /\ UNCHANGED <<editor, asked, cleanups, main, history>>

\* Slip: execute does not ask whether the buffer is taken.
Launch_AnyBuffer(j, b) == Start(j, b)

\* Slip: the manager files one execution per buffer, and the new one
\* replaces the old.
Launch_Replaces(j, b) ==
    /\ main = Idle
    /\ proc[j] = "none"
    /\ proc'       = [proc EXCEPT ![j] = "running"]
    /\ buffer'     = [buffer EXCEPT ![j] = b]
    /\ handle'     = handle \cup {j}
    /\ attached'   = attached \cup {j}
    /\ listeners'  = [listeners EXCEPT ![j] = Subscribed]
    /\ functions'  = functions \cup {j}
    /\ executions' = (executions \ OnBuffer(b)) \cup {j}
    /\ UNCHANGED <<editor, asked, cleanups, main, history>>

\* Otherwise the terminal of the buffer is used again, or refused.
Launch(j, b) ==
    /\ OnBuffer(b) = {}
    /\ Start(j, b)

\* Slip: the execution is filed before the process is known to have started.
LaunchFails_Filed(j, b) ==
    /\ main = Idle
    /\ proc[j] = "none"
    /\ OnBuffer(b) = {}
    /\ proc'       = [proc EXCEPT ![j] = "failed"]
    /\ functions'  = functions \cup {j}
    /\ executions' = executions \cup {j}
    /\ UNCHANGED <<editor, asked, buffer, handle, attached, listeners, cleanups,
                   main, history>>

LaunchFails(j, b) ==
    /\ main = Idle
    /\ proc[j] = "none"
    /\ OnBuffer(b) = {}
    /\ proc'      = [proc EXCEPT ![j] = "failed"]
    /\ functions' = functions \cup {j}
    /\ UNCHANGED <<editor, asked, buffer, handle, attached, listeners, cleanups,
                   executions, main, history>>

-----------------------------------------------------------------------------
(***************************************************************************)
(* The process, and what the main thread starts on.                        *)
(***************************************************************************)
Dies(j) ==
    /\ proc[j] = "running"
    /\ proc' = [proc EXCEPT ![j] = "dead"]
    /\ UNCHANGED <<editor, asked, buffer, wiring, main, history>>

\* The editor calls _on_vim_exit, if the function is still registered.
ReportExit(j) ==
    /\ main = Idle
    /\ Reported
    /\ proc[j] = "dead"
    /\ proc' = [proc EXCEPT ![j] = "reported"]
    /\ main' = IF j \in functions THEN [job |-> j, todo |-> <<"fire", "dispose">>]
                                  ELSE Idle
    /\ UNCHANGED <<editor, asked, buffer, wiring, history>>

\* The user wipes out the buffer: dispose of the runner.
Wipe(j) ==
    /\ main = Idle
    /\ j \in attached
    /\ main' = [job |-> j, todo |-> <<"runner">>]
    /\ UNCHANGED <<editor, process, wiring, history>>

\* TerminalController.terminate, for the execution found on the buffer.
Terminate(j) ==
    /\ main = Idle
    /\ j \in executions \cap attached
    /\ main' = [job |-> j, todo |-> <<"terminate">>]
    /\ UNCHANGED <<editor, process, wiring, history>>

\* The one-shot of dispose deregisters both functions.
Cleanup(j) ==
    /\ main = Idle
    /\ j \in cleanups
    /\ cleanups'  = cleanups \ {j}
    /\ functions' = functions \ {j}
    /\ UNCHANGED <<editor, process, handle, attached, listeners, executions, main, history>>

-----------------------------------------------------------------------------
(***************************************************************************)
(* The steps of the main thread.                                           *)
(***************************************************************************)
Doing(j, step) == main.todo # <<>> /\ main.job = j /\ Head(main.todo) = step

\* The step is over, and the calls it makes come before the rest.
Then(calls) ==
    LET todo == calls \o Tail(main.todo) IN
    main' = IF todo = <<>> THEN Idle ELSE [main EXCEPT !.todo = todo]

\* terminate of a running process.  On Vim the exit is fired at once, and the
\* job is disposed of twice; on Neovim the job only forgets its process.
StopProcess(j) ==
    /\ Doing(j, "terminate")
    /\ Alive(j)
    /\ Len(main.todo) < MaxSteps
    /\ asked' = asked \cup {j}
    /\ handle' = IF editor = "nvim" THEN handle \ {j} ELSE handle
    /\ Then(IF editor = "vim" THEN <<"fire", "dispose", "dispose">> ELSE <<>>)
    /\ UNCHANGED <<editor, proc, buffer, attached, listeners, functions, cleanups,
                   executions, history>>

\* On Vim terminate is called again by the listener of the exit it fires, for
\* as long as the process is seen running: Python's recursion limit ends it.
TooDeep(j) ==
    /\ Doing(j, "terminate")
    /\ Alive(j)
    /\ Len(main.todo) >= MaxSteps
    /\ asked' = asked \cup {j}
    /\ cut'   = cut \cup {j}
    /\ main'  = Idle
    /\ UNCHANGED <<editor, proc, buffer, wiring, hooked>>

\* terminate of one that is not.  Vim disposes of the job all the same, which
\* drops the listeners: if the exit is still to be reported, and no call of
\* theirs is under way, they are never called.
NothingToStop(j) ==
    /\ Doing(j, "terminate")
    /\ ~Alive(j)
    /\ handle' = IF editor = "nvim" THEN handle \ {j} ELSE handle
    /\ cut' = IF editor = "vim" /\ proc[j] = "dead" /\ ~Contains(main.todo, "deregister")
              THEN cut \cup {j} ELSE cut
    /\ Then(IF editor = "vim" THEN <<"dispose">> ELSE <<>>)
    /\ UNCHANGED <<editor, process, attached, listeners, functions, cleanups,
                   executions, hooked>>

\* The listeners are copied: those that unsubscribe meanwhile are called.
Fire(j) ==
    /\ Doing(j, "fire")
    /\ Then(listeners[j])
    /\ UNCHANGED <<editor, process, wiring, history>>

\* Slip: the runner disposes of the job where it should terminate it.
DisposeJob_Disposes(j) ==
    /\ Doing(j, "runner")
    /\ Then(IF j \in attached THEN <<"dispose", "release">> ELSE <<"release">>)
    /\ UNCHANGED <<editor, process, wiring, history>>

\* _dispose_job of the runner: terminate, while it holds the job ...
DisposeJob(j) ==
    /\ Doing(j, "runner")
    /\ Then(IF j \in attached THEN <<"terminate", "release">> ELSE <<"release">>)
    /\ UNCHANGED <<editor, process, wiring, history>>

\* ... then let go of it and of the subscriptions, on_exit's among them: the
\* manager's is left, unless the job was disposed of.
Release(j) ==
    /\ Doing(j, "release")
    /\ attached'  = attached \ {j}
    /\ listeners' = [listeners EXCEPT ![j] = IF @ = <<>> THEN <<>> ELSE <<"deregister">>]
    /\ Then(<<>>)
    /\ UNCHANGED <<editor, process, handle, functions, cleanups, executions, history>>

CallHooks(j) ==
    /\ Doing(j, "hooks")
    /\ hooked' = [hooked EXCEPT ![j] = @ + 1]
    /\ Then(<<>>)
    /\ UNCHANGED <<editor, process, wiring, cut>>

\* A hook raises: everything the main thread was doing is given up.
HookRaises(j) ==
    /\ Doing(j, "hooks")
    /\ hooked' = [hooked EXCEPT ![j] = @ + 1]
    /\ cut'    = cut \cup {j}
    /\ main'   = Idle
    /\ UNCHANGED <<editor, process, wiring>>

\* Slip: the listener of the manager forgets to take the execution out.
Deregister_Never(j) ==
    /\ Doing(j, "deregister")
    /\ Then(<<>>)
    /\ UNCHANGED <<editor, process, wiring, history>>

Deregister(j) ==
    /\ Doing(j, "deregister")
    /\ executions' = executions \ {j}
    /\ Then(<<>>)
    /\ UNCHANGED <<editor, process, handle, attached, listeners, functions, cleanups, history>>

\* Slip: dispose of the job does not schedule the deregistration.
DisposeTerminal_NoCleanup(j) ==
    /\ Doing(j, "dispose")
    /\ handle'    = handle \ {j}
    /\ listeners' = [listeners EXCEPT ![j] = <<>>]
    /\ Then(<<>>)
    /\ UNCHANGED <<editor, process, attached, functions, cleanups, executions, history>>

\* dispose of the job itself: the buffer of Vim's terminal is deleted, or
\* Neovim's process stopped, and every listener dropped.
DisposeTerminal(j) ==
    /\ Doing(j, "dispose")
    /\ asked'     = IF editor = "nvim" /\ Alive(j) THEN asked \cup {j} ELSE asked
    /\ handle'    = handle \ {j}
    /\ listeners' = [listeners EXCEPT ![j] = <<>>]
    /\ cleanups'  = cleanups \cup {j}
    /\ Then(<<>>)
    /\ UNCHANGED <<editor, proc, buffer, attached, functions, executions, history>>

MainStep(j) ==
    \/ StopProcess(j) \/ TooDeep(j) \/ NothingToStop(j) \/ Fire(j)
    \/ DisposeJob(j) \/ Release(j)
    \/ CallHooks(j) \/ HookRaises(j) \/ Deregister(j)
    \/ DisposeTerminal(j)

Next ==
    \/ \E j \in Jobs, b \in Buffers : Launch(j, b) \/ LaunchFails(j, b)
    \/ \E j \in Jobs : Dies(j) \/ ReportExit(j) \/ Wipe(j) \/ Terminate(j) \/ Cleanup(j)
    \/ \E j \in Jobs : MainStep(j)

Spec == Init /\ [][Next]_vars

\* The main thread goes on with what it does, and between the commands of the
\* user the editor gets to report every exit and to fire every one-shot.
Fairness ==
    \A j \in Jobs : WF_vars(MainStep(j)) /\ SF_vars(ReportExit(j)) /\ SF_vars(Cleanup(j))
FairSpec == Spec /\ Fairness

-----------------------------------------------------------------------------
(***************************************************************************)
(* Properties.                                                             *)
(***************************************************************************)
Steps == {"terminate", "fire", "runner", "release", "hooks", "deregister", "dispose"}
Begun(j) == proc[j] \notin {"none", "failed"}

\* The state is well formed, only jobs that were started are wired or filed,
\* and the main thread has steps to take only for a job.
TypeOK ==
    /\ editor \in Editors
    /\ proc \in [Jobs -> {"none", "running", "dead", "reported", "failed"}]
    /\ buffer \in [Jobs -> Buffers \cup {None}]
    /\ handle \cup attached \cup executions \cup cleanups \cup asked \subseteq
           {j \in Jobs : Begun(j)}
    /\ functions \subseteq Jobs /\ cut \subseteq Jobs
    /\ listeners \in [Jobs -> Seq({"runner", "hooks", "deregister"})]
    /\ main = Idle \/ main \in [job : Jobs, todo : Seq(Steps) \ {<<>>}]
    /\ hooked \in [Jobs -> Nat]

\* No two runners write the screens of their terminals into one buffer: a
\* buffer is given to the next terminal only once the runner of the last one
\* has let go (can_execute, _on_terminal_update).
OneUpdaterPerBuffer ==
    \A i, j \in attached : buffer[i] = buffer[j] => i = j

\* A terminal nobody can find any more is not left running: it was told to
\* stop, or has ended (_deregister against terminate).
UnfiledIsStopped ==
    \A j \in Jobs : Begun(j) /\ j \notin executions => proc[j] # "running" \/ j \in asked

\* A hook is called only after the runner has let go of the job, so it never
\* sees the buffer still being written by the terminal that ended (order of
\* the subscriptions in _wire_events); on Neovim it is called at most once,
\* though the terminal may be terminated, wiped out and disposed of in any order.
HooksComeAfterRelease ==
    \A j \in Jobs : hooked[j] > 0 =>
        j \notin attached /\ (editor = "nvim" => hooked[j] = 1)

\* As long as a terminal is filed and its exit has not been reported, the
\* function the editor will call for it is registered, unless its listeners
\* were cut short (dispose and its delayed deregistration).
ExitIsHeard ==
    \A j \in executions \ cut : proc[j] \in {"running", "dead"} => j \in functions

\* No terminal runs that nobody can find, and none ends unheard.
NoneIsLost == UnfiledIsStopped /\ ExitIsHeard

\* When a terminal's process has died its buffer is free again, unless its
\* listeners were cut short, in the editors that report the exit (_deregister).
BufferIsFreed ==
    \A j \in Jobs : Reported /\ proc[j] = "dead" ~> j \in cut \/ j \notin executions

\* When a process has died its callback functions are deregistered in the end,
\* unless its listeners were cut short (the one-shot of dispose).
FunctionsAreDropped ==
    \A j \in Jobs : Reported /\ proc[j] = "dead" ~> j \in cut \/ j \notin functions
===============================================================================
