------------------------------ MODULE TimerTask ------------------------------
(***************************************************************************)
(* The timer tasks of pytoy.shared.timertask on the editors that embed     *)
(* Python (class TimerTaskImplVim).  A task is registered under a name;    *)
(* the editor runs an endless timer for it, and every tick looks the name  *)
(* up again and runs whatever task it finds there.  Counting the repeats   *)
(* and removing a task that is done happen in Python.                      *)
(*                                                                         *)
(* On Vim the bookkeeping is done at once (Async = FALSE).  On Neovim and  *)
(* VSCode it is posted to the editor's loop with threadsafe_call, so that  *)
(* ticks and other calls can come before it (Async = TRUE).                *)
(***************************************************************************)
EXTENDS Integers, Sequences

CONSTANTS
    Names,        \* the task names the callers use
    Repeats,      \* the repeat counts they ask for; -1 is endless
    Async,        \* is bookkeeping posted with threadsafe_call?
    Naming,       \* how callers choose names: "fresh" (AUTONAME), "checked"
                  \* (only names that are not registered) or "any"
    SelfRegister, \* do task functions register their own name again?
    MaxTasks,     \* bound: registrations in a behaviour
    MaxCalls      \* bound: posted calls not yet executed

ASSUME RepeatsAssumption == Repeats \subseteq Int
ASSUME FlagsAssumption   == /\ {Async, SelfRegister} \subseteq BOOLEAN
                            /\ Naming \in {"fresh", "checked", "any"}
ASSUME BoundsAssumption  == MaxTasks \in Nat /\ MaxCalls \in Nat

VARIABLES
    task,       \* task[g]: the RegisteredTask made by the g-th registration,
                \* with what is left of its TaskStatus.repeat
    current,    \* tasks, statuses and _timer_map: the id under each name, or 0
    timers,     \* the editor's running timers, by the id of their registration
    stopping,   \* those whose 1 ms stopper has been started
    calls,      \* bookkeeping posted to the editor's loop, oldest first
    running,    \* the registration whose function is executing, or 0
    asked,      \* history: the registration last asked for under each name, or 0
                \* when its removal was scheduled after that
    runs,       \* history: times a counted function was started
    ended       \* history: times on_finish or on_error was reached

vars == <<task, current, timers, stopping, calls, running, asked, runs, ended>>

Ids    == 1 .. MaxTasks
NoTask == 0

Task == [name : Names, repeat : Repeats, left : Int]
Call == [op : {"register", "deregister"}, name : Names, id : Ids]

Counted(g) == task[g].repeat > 0

\* The histories saturate one above what the properties allow.
CountRun(g) == runs' = IF Counted(g) /\ runs[g] <= task[g].repeat
                       THEN [runs EXCEPT ![g] = @ + 1] ELSE runs
CountEnd(g) == ended' = IF ended[g] < 2
                        THEN [ended EXCEPT ![g] = @ + 1] ELSE ended

Init ==
    /\ task     = <<>>
    /\ current  = [n \in Names |-> NoTask]
    /\ timers   = {}
    /\ stopping = {}
    /\ calls    = <<>>
    /\ running  = NoTask
    /\ asked    = [n \in Names |-> NoTask]
    /\ runs     = [g \in Ids |-> 0]
    /\ ended    = [g \in Ids |-> 0]

-----------------------------------------------------------------------------
(***************************************************************************)
(* Bookkeeping: the two closures named _impl_function, and how they are    *)
(* handed to the editor.                                                   *)
(***************************************************************************)
Install(c) ==
    /\ current' = [current EXCEPT ![c.name] = c.id]
    /\ timers'  = timers \cup {c.id}
    /\ UNCHANGED stopping

\* Slip: the editor's timer is left running.
Remove_LeavesTimer(c) ==
    /\ current' = [current EXCEPT ![c.name] = NoTask]
    /\ UNCHANGED <<timers, stopping>>

\* Slip: the timer is stopped but the task stays in the dictionaries.
Remove_LeavesName(c) ==
    /\ stopping' = stopping \cup ({c.id} \cap timers)
    /\ UNCHANGED <<current, timers>>

\* The stopper of the timer is started before the name is popped.  Popping a
\* name that is already gone raises KeyError, which only ends the call.
Remove(c) ==
    /\ stopping' = stopping \cup ({c.id} \cap timers)
    /\ current'  = [current EXCEPT ![c.name] = NoTask]
    /\ UNCHANGED timers

Perform(c) == \/ c.op = "register"   /\ Install(c)
              \/ c.op = "deregister" /\ Remove(c)

\* Slip: only removals are posted to the loop.
Hand_RegistersAtOnce(c) ==
    \/ /\ ~Async \/ c.op = "register"
       /\ Perform(c)
       /\ UNCHANGED calls
    \/ /\ Async /\ c.op = "deregister"
       /\ Len(calls) < MaxCalls
       /\ calls' = Append(calls, c)
       /\ UNCHANGED <<current, timers, stopping>>

Hand(c) ==
    \/ /\ ~Async
       /\ Perform(c)
       /\ UNCHANGED calls
    \/ /\ Async
       /\ Len(calls) < MaxCalls
       /\ calls' = Append(calls, c)
       /\ UNCHANGED <<current, timers, stopping>>

\* The id to remove is read when the removal is scheduled.
ScheduleDeregister(n) ==
    \/ /\ current[n] = NoTask
       /\ UNCHANGED <<current, timers, stopping, calls, asked>>
    \/ /\ current[n] # NoTask
       /\ asked' = [asked EXCEPT ![n] = NoTask]
       /\ Hand([op |-> "deregister", name |-> n, id |-> current[n]])

\* The editor's loop reaches the oldest posted call.
RunPosted ==
    /\ calls # <<>>
    /\ Perform(Head(calls))
    /\ calls' = Tail(calls)
    /\ UNCHANGED <<task, running, asked, runs, ended>>

-----------------------------------------------------------------------------
(***************************************************************************)
(* What callers do, between ticks or from inside a task function.          *)
(***************************************************************************)
IsRegistered(n) == current[n] # NoTask

MayRegister(n) ==
    /\ Naming = "checked" => ~IsRegistered(n)
    /\ Naming = "fresh"   => \A g \in 1 .. Len(task) : task[g].name # n
    /\ ~SelfRegister => ~(running # NoTask /\ task[running].name = n)

Register(n, r) ==
    /\ MayRegister(n)
    /\ Len(task) < MaxTasks
    /\ task' = Append(task, [name |-> n, repeat |-> r, left |-> r])
    /\ Hand([op |-> "register", name |-> n, id |-> Len(task) + 1])
    /\ asked' = [asked EXCEPT ![n] = Len(task) + 1]
    /\ UNCHANGED <<running, runs, ended>>

Deregister(n) ==
    /\ ScheduleDeregister(n)
    /\ UNCHANGED <<task, running, runs, ended>>

-----------------------------------------------------------------------------
(***************************************************************************)
(* A tick of the timer made for registration g runs _execute_task with     *)
(* g's name.  A tick that finds no task under the name does nothing.       *)
(***************************************************************************)
\* Slip: the tick runs the task it was made for instead of looking it up.
Tick_NoLookup(g) ==
    /\ g \in timers
    /\ running = NoTask
    /\ running' = g
    /\ CountRun(g)
    /\ UNCHANGED <<task, current, timers, stopping, calls, asked, ended>>

Tick(g) ==
    /\ g \in timers
    /\ running = NoTask
    /\ LET found == current[task[g].name]
       IN  /\ found # NoTask
           /\ running' = found
           /\ CountRun(found)
    /\ UNCHANGED <<task, current, timers, stopping, calls, asked, ended>>

\* Slip: the removal is forgotten.
Conclude_NoRemoval ==
    /\ CountEnd(running)
    /\ running' = NoTask
    /\ UNCHANGED <<current, timers, stopping, calls, asked, runs>>

\* on_finish or on_error follows the scheduling of the removal.
Conclude ==
    /\ ScheduleDeregister(task[running].name)
    /\ CountEnd(running)
    /\ running' = NoTask
    /\ UNCHANGED runs

\* The function returns and its last repeat is used up.
FuncFinishes ==
    /\ running # NoTask
    /\ task[running].left = 1
    /\ task' = [task EXCEPT ![running].left = 0]
    /\ Conclude

\* Slip: the remaining repeats are not counted down.
FuncReturns_NoCountdown ==
    /\ running # NoTask
    /\ task[running].left # 1
    /\ running' = NoTask
    /\ UNCHANGED <<task, current, timers, stopping, calls, asked, runs, ended>>

\* The function returns and is to be called again.
FuncReturns ==
    /\ running # NoTask
    /\ task[running].left # 1
    /\ task' = [task EXCEPT ![running].left = IF @ > 0 THEN @ - 1 ELSE @]
    /\ running' = NoTask
    /\ UNCHANGED <<current, timers, stopping, calls, asked, runs, ended>>

\* The function raises TimerStopException or any other exception.
FuncRaises ==
    /\ running # NoTask
    /\ Conclude
    /\ UNCHANGED task

\* Slip: the stopper forgets to stop the timer.
StopTimer_OnlyDeletes(g) ==
    /\ g \in stopping
    /\ running = NoTask
    /\ stopping' = stopping \ {g}
    /\ UNCHANGED <<task, current, timers, calls, running, asked, runs, ended>>

\* Slip: the stopper runs again and again.
StopTimer_Repeats(g) ==
    /\ g \in stopping
    /\ running = NoTask
    /\ timers' = timers \ {g}
    /\ UNCHANGED <<task, current, stopping, calls, running, asked, runs, ended>>

\* The 1 ms stopper fires: timer_stop and delfunction.
StopTimer(g) ==
    /\ g \in stopping
    /\ running = NoTask
    /\ timers'   = timers \ {g}
    /\ stopping' = stopping \ {g}
    /\ UNCHANGED <<task, current, calls, running, asked, runs, ended>>

Next ==
    \/ \E n \in Names, r \in Repeats : Register(n, r)
    \/ \E n \in Names : Deregister(n)
    \/ \E g \in Ids : Tick(g) \/ StopTimer(g)
    \/ FuncFinishes \/ FuncReturns \/ FuncRaises
    \/ RunPosted

\* The editor serves every timer that is due, executes posted calls in order,
\* and task functions come to an end.
Fairness ==
    /\ \A g \in Ids : SF_vars(Tick(g)) /\ SF_vars(StopTimer(g))
    /\ WF_vars(FuncFinishes \/ FuncReturns \/ FuncRaises)
    /\ WF_vars(RunPosted)

Spec     == Init /\ [][Next]_vars
FairSpec == Spec /\ Fairness

-----------------------------------------------------------------------------
(***************************************************************************)
(* Properties.                                                             *)
(***************************************************************************)
TypeOK ==
    /\ task \in Seq(Task) /\ Len(task) <= MaxTasks
    /\ current \in [Names -> Ids \cup {NoTask}]
    /\ timers \subseteq 1 .. Len(task)
    /\ stopping \subseteq timers
    /\ calls \in Seq(Call) /\ Len(calls) <= MaxCalls
    /\ running \in 0 .. Len(task)
    /\ asked \in [Names -> Ids \cup {NoTask}]
    /\ runs \in [Ids -> Nat]
    /\ ended \in [Ids -> 0 .. 2]

\* A name that is registered is driven by its own timer, which nobody is about
\* to stop: no step of any caller or tick silences a registered task.
RegisteredIsDriven ==
    \A n \in Names : current[n] # NoTask => current[n] \in timers \ stopping

\* A timer that nobody is about to stop belongs to the task registered under
\* its name: no timer is left behind to drive a later task of that name twice.
NoStrayTimer ==
    \A g \in timers \ stopping : current[task[g].name] = g

\* A task with a repeat count is never started more often than that; a
\* one-shot (execute_oneshot) is "executed only one time".
RunsWithinRepeat ==
    \A g \in 1 .. Len(task) : Counted(g) => runs[g] <= task[g].repeat

\* on_finish or on_error is reached at most once for a registration.
EndsOnce == \A g \in Ids : ended[g] <= 1

\* The last word on a name holds.  Registrations and removals are posted apart,
\* by callers, by functions that register their own name again, and by the ends of
\* tasks; a removal carries the id of the task it found, which may be another one
\* by the time it is carried out, or be removed twice.  When nothing is left to
\* carry out, a name has the task registered last unless its removal was scheduled
\* after that.
LastWordHolds == calls = <<>> => current = asked

\* The end of one task never takes another task's registration away.
EndTouchesOnlyOwnName ==
    [][\A g, h \in Ids : g # h /\ ended'[g] # ended[g]
          => \A n \in Names : current[n] = h => current'[n] = h]_vars

\* A task with a repeat count does not stay registered for ever: it runs out,
\* raises, or is deregistered.  And the editor's timer of a task that has ended
\* is stopped in the end, unless its name was taken again.
Alone(g) == \A h \in 1 .. Len(task) : task[h].name = task[g].name => h = g
EveryTaskSettles ==
    /\ \A g \in Ids :
           (g <= Len(task) /\ Counted(g) /\ current[task[g].name] = g)
               ~> (\A n \in Names : current[n] # g)
    /\ \A g \in Ids : (ended[g] > 0 /\ Alone(g)) ~> (g \notin timers \/ ~Alone(g))

-----------------------------------------------------------------------------
(***************************************************************************)
(* The abstract promise a timer task keeps on Vim, and the mapping of the  *)
(* state above to the promise's.                                           *)
(***************************************************************************)
PhaseOf(g) ==
    CASE g > Len(task)              -> "new"
      [] g <= Len(task) /\ ended[g] > 0 -> "ended"
      [] g <= Len(task) /\ ended[g] = 0 ->
            IF current[task[g].name] = g THEN "armed" ELSE "dropped"

Promise == INSTANCE TimerPromise WITH
    phase  <- [g \in Ids |-> PhaseOf(g)],
    wanted <- [g \in Ids |-> IF g <= Len(task) THEN task[g].repeat ELSE 0],
    count  <- runs,
    busy   <- running

\* Every registration on Vim behaves as TimerPromise says: it is run no more
\* often than asked, not after it was dropped or ended, and ends once.
KeepsPromise == Promise!Spec

=============================================================================
