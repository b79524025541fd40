------------------------------ MODULE CommandJob ------------------------------
(***************************************************************************)
(* A command run in a buffer: CommandLauncher, CommandExecutor,            *)
(* CommandExecutionManager, CommandRunner and the OutputJob of Vim and     *)
(* Neovim.  Launching and every editor callback happen on the main thread; *)
(* the process runs beside it.  What follows a process's end is done by    *)
(* the listeners of the job's exit event, in the order they subscribed,    *)
(* and a listener that raises keeps the later ones from being called.      *)
(***************************************************************************)
EXTENDS Naturals

CONSTANTS
    Jobs,          \* the jobs of a behaviour
    Kinds,         \* the execution kinds of the launchers
    None,          \* no job, no kind
    Editors,       \* the editors considered: "vim", "nvim"
    MaxLines       \* bound: lines a process writes

ASSUME NoneAssumption  == None \notin Jobs \cup Kinds
ASSUME EditorsAssumption == Editors \subseteq {"vim", "nvim"}
ASSUME LinesAssumption == MaxLines \in Nat

VARIABLES
    editor,     \* the one the plugin runs in
    proc,       \* the process: "none", "running", "exited" (the callback is
                \* still to come), "reported", or "failed" to start
    kind,       \* the kind each job was launched for
    written,    \* lines the process has written
    unread,     \* those the editor has not handed over yet
    captured,   \* stdout_lines of the job
    shown,      \* lines the runner appended to its buffer
    functions,  \* jobs whose callbacks are registered with the editor
    listeners,  \* those who listen to each job's exit event
    attached,   \* runners that hold their job
    appending,  \* runners that append the lines of their job to the buffer
    executions, \* _executions and _contexts of the manager
    last,       \* _last_context_by_kind
    firing,     \* the exit event being fired: its job and who is still to be called
    hooked,     \* history: how often each job's hooks were called
    result,     \* lines in the snapshot its hooks were given
    cleanups,   \* jobs whose one-shot cleanup is scheduled
    rerun,      \* history: jobs launched by rerun
    raised      \* history: jobs one of whose hooks raised

output == <<written, unread, captured, shown>>
wiring == <<functions, listeners, attached, appending, cleanups>>
manager == <<executions, last>>
history == <<hooked, result, rerun, raised>>
vars    == <<editor, proc, kind, output, wiring, manager, firing, history>>

Idle   == [job |-> None, todo |-> {}, inHooks |-> FALSE]
Parts  == {"cleanup", "runner", "hooks", "deregister"}
OfKind(k) == {j \in executions : kind[j] = k}

Init ==
    /\ proc       = [j \in Jobs |-> "none"]
    /\ kind       = [j \in Jobs |-> None]
    /\ written    = [j \in Jobs |-> 0]
    /\ unread     = [j \in Jobs |-> 0]
    /\ captured   = [j \in Jobs |-> 0]
    /\ shown      = [j \in Jobs |-> 0]
    /\ functions  = {}
    /\ listeners  = [j \in Jobs |-> {}]
    /\ attached   = {}
    /\ appending  = {}
    /\ executions = {}
    /\ last       = [k \in Kinds |-> None]
    /\ firing     = Idle
    /\ hooked     = [j \in Jobs |-> 0]
    /\ result     = [j \in Jobs |-> 0]
    /\ cleanups   = {}
    /\ editor \in Editors
    /\ rerun      = {}
    /\ raised     = {}

-----------------------------------------------------------------------------
(***************************************************************************)
(* Launching, from a command of the user or from inside a hook.            *)
(***************************************************************************)
MainFree == firing = Idle \/ firing.inHooks

\* Slip: the cleanup is subscribed after everything else.
Subscribed_CleanupLast == [cleanup |-> 4, runner |-> 1, hooks |-> 2, deregister |-> 3]

\* The listeners of the exit event, in the order of their subscription: the
\* job's own, the runner's two, the manager's.
Subscribed == [cleanup |-> 1, runner |-> 2, hooks |-> 3, deregister |-> 4]

\* The callback functions are registered, the process starts, the listeners
\* subscribe, and the manager files the execution.
Execute(j, k) ==
    /\ proc[j] = "none"
    /\ proc'       = [proc EXCEPT ![j] = "running"]
    /\ kind'       = [kind EXCEPT ![j] = k]
    /\ functions'  = functions \cup {j}
    /\ listeners'  = [listeners EXCEPT ![j] = Parts]
    /\ attached'   = attached \cup {j}
    /\ appending'  = appending \cup {j}
    /\ executions' = executions \cup {j}
    /\ last'       = [last EXCEPT ![k] = j]
    /\ UNCHANGED <<editor, output, cleanups, firing, hooked, result, raised>>

\* Slip: run does not look for a running execution of its kind.
Run_Unchecked(j, k) ==
    /\ MainFree
    /\ Execute(j, k)
    /\ UNCHANGED rerun

Run(j, k) ==
    /\ MainFree
    /\ OfKind(k) = {}
    /\ Execute(j, k)
    /\ UNCHANGED rerun

\* rerun repeats the last request of the kind, whether one is running or not.
Rerun(j, k) ==
    /\ MainFree
    /\ last[k] # None
    /\ Execute(j, k)
    /\ rerun' = rerun \cup {j}

\* The editor cannot start what run or rerun asks for: ValueError leaves the
\* constructor of the job with its callback functions registered.
SpawnFails(j, k) ==
    /\ MainFree
    /\ proc[j] = "none"
    /\ proc'      = [proc EXCEPT ![j] = "failed"]
    /\ kind'      = [kind EXCEPT ![j] = k]
    /\ functions' = functions \cup {j}
    /\ UNCHANGED <<editor, output, listeners, attached, appending, cleanups,
                   manager, firing, history>>

\* stop terminates what the manager has filed for the kind; a process that
\* ignores the request goes on as if nothing had been asked.
Stop(k) ==
    /\ MainFree
    /\ proc' = [j \in Jobs |->
                  IF j \in OfKind(k) /\ j \in attached /\ proc[j] = "running"
                  THEN "exited" ELSE proc[j]]
    /\ UNCHANGED <<editor, kind, output, wiring, manager, firing, history>>

-----------------------------------------------------------------------------
(***************************************************************************)
(* The process and the editor.                                             *)
(***************************************************************************)
Write(j) ==
    /\ proc[j] = "running"
    /\ written[j] < MaxLines
    /\ written' = [written EXCEPT ![j] = @ + 1]
    /\ unread'  = [unread EXCEPT ![j] = @ + 1]
    /\ UNCHANGED <<editor, proc, kind, captured, shown, wiring, manager, firing,
                   history>>

Exit(j) ==
    /\ proc[j] = "running"
    /\ proc' = [proc EXCEPT ![j] = "exited"]
    /\ UNCHANGED <<editor, kind, output, wiring, manager, firing, history>>

\* The buffer is wiped: the runner's subscription to the lines is disposed.
Wipe(j) ==
    /\ MainFree
    /\ j \in appending
    /\ appending' = appending \ {j}
    /\ UNCHANGED <<editor, proc, kind, output, functions, listeners, attached, cleanups,
                   manager, firing, history>>

\* Slip: the last, unfinished line is emitted a second time.
Read_EmitsTwice(j) ==
    /\ firing = Idle
    /\ unread[j] > 0
    /\ unread'   = [unread EXCEPT ![j] = @ - 1]
    /\ captured' = [captured EXCEPT ![j] = IF j \in functions THEN @ + 2 ELSE @]
    /\ shown'    = [shown EXCEPT ![j] =
                      IF j \in functions \cap appending THEN @ + 2 ELSE @]
    /\ UNCHANGED <<editor, proc, kind, written, wiring, manager, firing,
                   history>>

\* A line reaches emit_stdout, as long as the callback function exists; the
\* runner appends it to the buffer as long as it is subscribed.
Read(j) ==
    /\ firing = Idle
    /\ unread[j] > 0
    /\ unread'   = [unread EXCEPT ![j] = @ - 1]
    /\ captured' = [captured EXCEPT ![j] = IF j \in functions THEN @ + 1 ELSE @]
    /\ shown'    = [shown EXCEPT ![j] =
                      IF j \in functions \cap appending THEN @ + 1 ELSE @]
    /\ UNCHANGED <<editor, proc, kind, written, wiring, manager, firing,
                   history>>

\* Slip: the result is what the buffer shows.
EmitExit_FromBuffer(j) ==
    /\ firing = Idle
    /\ proc[j] = "exited"
    /\ editor = "nvim" => unread[j] = 0
    /\ proc'   = [proc EXCEPT ![j] = "reported"]
    /\ firing' = [job |-> j, todo |-> listeners[j], inHooks |-> FALSE]
    /\ result' = [result EXCEPT ![j] = shown[j]]
    /\ UNCHANGED <<editor, kind, output, wiring, manager, hooked, rerun, raised>>

\* The editor calls the exit function: emit_exit takes the snapshot and fires
\* the event to those who listen now.
EmitExit(j) ==
    /\ firing = Idle
    /\ proc[j] = "exited"
    /\ editor = "nvim" => unread[j] = 0
    /\ proc'   = [proc EXCEPT ![j] = "reported"]
    /\ firing' = [job |-> j, todo |-> listeners[j], inHooks |-> FALSE]
    /\ result' = [result EXCEPT ![j] = captured[j]]
    /\ UNCHANGED <<editor, kind, output, wiring, manager, hooked, rerun, raised>>

-----------------------------------------------------------------------------
(***************************************************************************)
(* The listeners of the exit event.                                        *)
(***************************************************************************)
\* It is the turn of the one that subscribed first, of those not yet called.
Turn(part) ==
    /\ firing # Idle
    /\ ~firing.inHooks
    /\ part \in firing.todo
    /\ \A p \in firing.todo : Subscribed[part] <= Subscribed[p]

Called(part) == firing' = [firing EXCEPT !.todo = @ \ {part}, !.inHooks = FALSE]

ScheduleCleanup ==
    /\ Turn("cleanup")
    /\ cleanups' = cleanups \cup {firing.job}
    /\ Called("cleanup")
    /\ UNCHANGED <<editor, proc, kind, output, functions, listeners, attached, appending,
                   manager, history>>

\* Slip: the runner disposes its own subscriptions before it is fired, so that
\* the list being walked is the shortened one.
DisposeJob_CutsWalk ==
    /\ Turn("runner")
    /\ attached'  = attached \ {firing.job}
    /\ appending' = appending \ {firing.job}
    /\ listeners' = [listeners EXCEPT ![firing.job] = @ \ {"runner", "hooks"}]
    /\ firing' = [firing EXCEPT !.todo = @ \ {"runner", "hooks"}]
    /\ UNCHANGED <<editor, proc, kind, output, functions, cleanups, manager,
                   history>>

\* _dispose_job: the runner lets go of the job and of its subscriptions; the
\* walk goes on over the list as it was.
DisposeJob ==
    /\ Turn("runner")
    /\ attached'  = attached \ {firing.job}
    /\ appending' = appending \ {firing.job}
    /\ listeners' = [listeners EXCEPT ![firing.job] = @ \ {"runner", "hooks"}]
    /\ Called("runner")
    /\ UNCHANGED <<editor, proc, kind, output, functions, cleanups, manager,
                   history>>

\* _on_exit calls the hooks; they may launch and stop commands.
CallHooks ==
    /\ Turn("hooks")
    /\ hooked' = [hooked EXCEPT ![firing.job] = @ + 1]
    /\ firing' = [firing EXCEPT !.inHooks = TRUE]
    /\ UNCHANGED <<editor, proc, kind, output, wiring, manager, result, rerun, raised>>

HooksReturn ==
    /\ firing.inHooks
    /\ Called("hooks")
    /\ UNCHANGED <<editor, proc, kind, output, wiring, manager, history>>

\* The exception passes through fire: the rest of the walk is dropped.
HookRaises ==
    /\ firing.inHooks
    /\ firing' = Idle
    /\ raised' = raised \cup {firing.job}
    /\ UNCHANGED <<editor, proc, kind, output, wiring, manager, hooked, result, rerun>>

\* Slip: the manager never forgets an execution.
Deregister_Never ==
    /\ Turn("deregister")
    /\ Called("deregister")
    /\ UNCHANGED <<editor, proc, kind, output, wiring, manager, history>>

Deregister ==
    /\ Turn("deregister")
    /\ executions' = executions \ {firing.job}
    /\ Called("deregister")
    /\ UNCHANGED <<editor, proc, kind, output, wiring, last, history>>

EndOfWalk ==
    /\ firing # Idle
    /\ ~firing.inHooks
    /\ firing.todo = {}
    /\ firing' = Idle
    /\ UNCHANGED <<editor, proc, kind, output, wiring, manager, history>>

\* The one-shot timer task: the functions go, dispose clears the emitters.
Cleanup(j) ==
    /\ firing = Idle
    /\ j \in cleanups
    /\ cleanups'  = cleanups \ {j}
    /\ functions' = functions \ {j}
    /\ listeners' = [listeners EXCEPT ![j] = {}]
    /\ UNCHANGED <<editor, proc, kind, output, attached, appending, manager, firing,
                   history>>

-----------------------------------------------------------------------------
Walk == ScheduleCleanup \/ DisposeJob \/ CallHooks \/ Deregister \/ EndOfWalk

Next ==
    \/ \E j \in Jobs, k \in Kinds : Run(j, k) \/ Rerun(j, k) \/ SpawnFails(j, k)
    \/ \E k \in Kinds : Stop(k)
    \/ \E j \in Jobs : Write(j) \/ Exit(j) \/ Wipe(j) \/ Read(j) \/ EmitExit(j)
                    \/ Cleanup(j)
    \/ Walk \/ HooksReturn \/ HookRaises

\* The editor hands over what it has read and reports what has exited, hooks
\* return, and one-shot timer tasks run.
Fairness ==
    /\ \A j \in Jobs : SF_vars(Read(j)) /\ SF_vars(EmitExit(j)) /\ SF_vars(Cleanup(j))
    /\ WF_vars(Walk)
    /\ WF_vars(HooksReturn)

Spec     == Init /\ [][Next]_vars
FairSpec == Spec /\ Fairness

-----------------------------------------------------------------------------
(***************************************************************************)
(* Properties.                                                             *)
(***************************************************************************)
TypeOK ==
    /\ proc \in [Jobs -> {"none", "running", "exited", "reported", "failed"}]
    /\ kind \in [Jobs -> Kinds \cup {None}]
    /\ written \in [Jobs -> 0 .. MaxLines] /\ unread \in [Jobs -> 0 .. MaxLines]
    /\ captured \in [Jobs -> 0 .. MaxLines] /\ shown \in [Jobs -> 0 .. MaxLines]
    /\ result \in [Jobs -> 0 .. MaxLines]
    /\ functions \subseteq Jobs /\ attached \subseteq Jobs /\ appending \subseteq Jobs
    /\ executions \subseteq Jobs /\ cleanups \subseteq Jobs
    /\ listeners \in [Jobs -> SUBSET Parts]
    /\ last \in [Kinds -> Jobs \cup {None}]
    /\ firing \in [job : Jobs \cup {None}, todo : SUBSET Parts, inHooks : BOOLEAN]
    /\ hooked \in [Jobs -> Nat]
    /\ rerun \subseteq Jobs /\ raised \subseteq Jobs
    /\ editor \in Editors

\* Every process that runs is filed, so that stop and is_running see it; and as
\* long as no hook raised, a kind counts as running only while a process of it
\* runs or its end is being handled.  Without rerun a kind has one execution at
\* a time, also when hooks launch commands of their own.
FiledWhileItRuns ==
    \A j \in Jobs :
        /\ proc[j] = "running" => j \in executions
        /\ j \in executions \ raised => proc[j] \in {"running", "exited"} \/ firing.job = j
        /\ \A i \in executions \ rerun : j \in executions \ rerun /\ kind[i] = kind[j] => i = j

\* run refuses with "Already `kind` is running." only what is running, whatever
\* the hooks did.
RefusesOnlyRunning ==
    \A j \in executions : proc[j] \in {"running", "exited"} \/ firing.job = j

\* No line appears in the buffer that the hooks were not given: once they are
\* called, the late lines of the command stay out of its buffer.  On Neovim the
\* hooks are told all that the command has written.
HooksKnowTheLines ==
    \A j \in Jobs : hooked[j] > 0 =>
        shown[j] <= result[j] /\ (editor = "nvim" => result[j] = written[j])

\* The hooks of an exited command are called and, whatever they do, its callback
\* functions and its subscriptions go away.
EverythingIsCleaned ==
    \A j \in Jobs :
        proc[j] = "exited" ~> (hooked[j] = 1 /\ j \notin functions /\ listeners[j] = {})

===============================================================================
