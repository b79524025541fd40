--------------------------- MODULE ThreadExecution ---------------------------
(***************************************************************************)
(* Background work of pytoy.shared.timertask.thread_executor.  The main    *)
(* thread starts a worker thread per request and files the request under   *)
(* the thread's native id.  The worker puts its result, with its id, into  *)
(* a queue.  A timer task, _polling, is registered when work starts; it    *)
(* drains the queue on the main thread, hands each result to the callback  *)
(* filed under the id, and stops itself when nothing is filed any more.    *)
(***************************************************************************)
EXTENDS Integers, Sequences

CONSTANTS
    Requests,   \* the ThreadExecutionRequests of a behaviour
    Tids,       \* native thread ids of the operating system
    None,       \* stands for no request
    Async,      \* does the editor stop a timer task late (see TimerTask)?
    Faults      \* what else may happen: a subset of AllFaults

AllFaults == {"id reused",          \* the id of a dead thread is given out again
              "callback raises",    \* on_finish or on_error raises
              "worker dies"}        \* main_func ends in a BaseException

ASSUME NoneAssumption   == None \notin Requests \cup Tids
ASSUME FaultsAssumption == Faults \subseteq AllFaults
ASSUME AsyncAssumption  == Async \in BOOLEAN

VARIABLES
    thread,     \* of each request: "new", "running", "posted" or "dead"
    tid,        \* the native id its thread has or had
    executions, \* _executions: the request filed under each id, or None
    queue,      \* _queue: results not yet polled, with the request they are of
    started,    \* _started
    live,       \* timer registrations of _polling
    stopped,    \* those that raised, and that an Async editor may still run
    registered, \* how often _polling was registered
    pc,         \* the main thread: "idle", "polling" or "callback"
    poller,     \* the registration _polling runs for, or 0
    handling,   \* the result whose callback runs, and the request it went to
    delivered,  \* history: the results each request's callbacks were given
    faulted     \* history: what of Faults has happened

timer   == <<live, stopped, registered>>
history == <<delivered, faulted>>
vars    == <<thread, tid, executions, queue, started, timer, pc, poller, handling,
             history>>

Result  == [id : Tids, of : Requests]
NoWork  == [id |-> None, of |-> None, to |-> None]
Filed   == {t \in Tids : executions[t] # None}

Init ==
    /\ thread     = [r \in Requests |-> "new"]
    /\ tid        = [r \in Requests |-> None]
    /\ executions = [t \in Tids |-> None]
    /\ queue      = <<>>
    /\ started    = FALSE
    /\ live       = {}
    /\ stopped    = {}
    /\ registered = 0
    /\ pc         = "idle"
    /\ poller     = 0
    /\ handling   = NoWork
    /\ delivered  = [r \in Requests |-> <<>>]
    /\ faulted    = {}

-----------------------------------------------------------------------------
(***************************************************************************)
(* The main thread starts work, between ticks or from inside a callback.   *)
(***************************************************************************)
\* Slip: the name of the new registration is not kept.
Start_Unnamed ==
    \/ /\ started
       /\ UNCHANGED <<started, timer>>
    \/ /\ ~started
       /\ live'    = live \cup {registered + 1}
       /\ started' = TRUE
       /\ UNCHANGED <<stopped, registered>>

Start ==
    \/ /\ started
       /\ UNCHANGED <<started, timer>>
    \/ /\ ~started
       /\ registered' = registered + 1
       /\ live'       = live \cup {registered'}
       /\ started'    = TRUE
       /\ UNCHANGED stopped

\* Ids of threads that are alive are distinct; the id of a dead one may return.
FreeId(t) ==
    \A r \in Requests : tid[r] = t =>
        thread[r] = "dead" /\ "id reused" \in Faults

\* execute and start_and_register: the thread runs before it is filed, but
\* nothing looks at _executions before the main thread comes to _polling.
Execute(r, t) ==
    /\ pc \in {"idle", "callback"}
    /\ thread[r] = "new"
    /\ FreeId(t)
    /\ Start
    /\ thread'     = [thread EXCEPT ![r] = "running"]
    /\ tid'        = [tid EXCEPT ![r] = t]
    /\ executions' = [executions EXCEPT ![t] = r]
    /\ faulted'    = faulted \cup {f \in {"id reused"} : \E s \in Requests : tid[s] = t}
    /\ UNCHANGED <<queue, pc, poller, handling, delivered>>

-----------------------------------------------------------------------------
(***************************************************************************)
(* The worker thread, _run.                                                *)
(***************************************************************************)
Post(r) ==
    /\ thread[r] = "running"
    /\ queue'  = Append(queue, [id |-> tid[r], of |-> r])
    /\ thread' = [thread EXCEPT ![r] = "posted"]
    /\ UNCHANGED <<tid, executions, started, timer, pc, poller, handling, history>>

Exit(r) ==
    /\ thread[r] = "posted"
    /\ thread' = [thread EXCEPT ![r] = "dead"]
    /\ UNCHANGED <<tid, executions, queue, started, timer, pc, poller, handling, history>>

Die(r) ==
    /\ "worker dies" \in Faults
    /\ thread[r] = "running"
    /\ thread'  = [thread EXCEPT ![r] = "dead"]
    /\ faulted' = faulted \cup {"worker dies"}
    /\ UNCHANGED <<tid, executions, queue, started, timer, pc, poller, handling, delivered>>

-----------------------------------------------------------------------------
(***************************************************************************)
(* _polling, on a tick of one of its registrations.                        *)
(***************************************************************************)
Poll(p) ==
    /\ pc = "idle"
    /\ p \in live \cup stopped
    /\ pc'     = "polling"
    /\ poller' = p
    /\ UNCHANGED <<thread, tid, executions, queue, started, timer, handling, history>>

\* A result whose id is not filed is dropped.
DropResult ==
    /\ pc = "polling"
    /\ queue # <<>>
    /\ executions[Head(queue).id] = None
    /\ queue' = Tail(queue)
    /\ UNCHANGED <<thread, tid, executions, started, timer, pc, poller, handling, history>>

\* Slip: results are matched to what is filed in any order, not by id.
CallBack_Unmatched ==
    /\ pc = "polling"
    /\ queue # <<>>
    /\ \E t \in Filed :
          /\ handling'  = [id |-> t, of |-> Head(queue).of, to |-> executions[t]]
          /\ delivered' = [delivered EXCEPT ![executions[t]] = Append(@, Head(queue).of)]
    /\ queue' = Tail(queue)
    /\ pc'    = "callback"
    /\ UNCHANGED <<thread, tid, executions, started, timer, poller, faulted>>

\* on_finish or on_error of what is filed under the id is called.
CallBack ==
    /\ pc = "polling"
    /\ queue # <<>>
    /\ LET result == Head(queue)
           to     == executions[result.id]
       IN  /\ to # None
           /\ handling'  = [id |-> result.id, of |-> result.of, to |-> to]
           /\ delivered' = [delivered EXCEPT ![to] = Append(@, result.of)]
    /\ queue' = Tail(queue)
    /\ pc'    = "callback"
    /\ UNCHANGED <<thread, tid, executions, started, timer, poller, faulted>>

\* Slip: every execution is taken out with the one that was called.
CallbackReturns_ClearsAll ==
    /\ pc = "callback"
    /\ executions' = [t \in Tids |-> None]
    /\ pc' = "polling"
    /\ handling' = NoWork
    /\ UNCHANGED <<thread, tid, queue, started, timer, poller, history>>

\* Slip: the execution is not taken out.
CallbackReturns_KeepsFiled ==
    /\ pc = "callback"
    /\ pc' = "polling"
    /\ handling' = NoWork
    /\ UNCHANGED <<thread, tid, executions, queue, started, timer, poller, history>>

\* The id is taken out after its callback returned.
CallbackReturns ==
    /\ pc = "callback"
    /\ executions' = [executions EXCEPT ![handling.id] = None]
    /\ pc' = "polling"
    /\ handling' = NoWork
    /\ UNCHANGED <<thread, tid, queue, started, timer, poller, history>>

\* The timer task ends: it is gone, or an Async editor will see to it later.
EndPoller ==
    /\ live'    = live \ {poller}
    /\ stopped' = IF Async /\ poller \in live THEN stopped \cup {poller} ELSE stopped
    /\ poller'  = 0
    /\ UNCHANGED registered

\* The exception leaves _polling and ends the timer task; nothing else is
\* undone.
CallbackRaises ==
    /\ "callback raises" \in Faults
    /\ pc = "callback"
    /\ pc' = "idle"
    /\ handling' = NoWork
    /\ EndPoller
    /\ faulted' = faulted \cup {"callback raises"}
    /\ UNCHANGED <<thread, tid, executions, queue, started, delivered>>

\* The queue is drained and nothing is filed: TimerStopException.
PollStops ==
    /\ pc = "polling"
    /\ queue = <<>>
    /\ Filed = {}
    /\ started' = FALSE
    /\ pc' = "idle"
    /\ EndPoller
    /\ UNCHANGED <<thread, tid, executions, queue, handling, history>>

\* Slip: the poller stops whenever the queue is empty.
PollReturns_Stops ==
    /\ pc = "polling"
    /\ queue = <<>>
    /\ Filed # {}
    /\ started' = FALSE
    /\ pc' = "idle"
    /\ EndPoller
    /\ UNCHANGED <<thread, tid, executions, queue, handling, history>>

\* The queue is drained and work is still out.
PollReturns ==
    /\ pc = "polling"
    /\ queue = <<>>
    /\ Filed # {}
    /\ pc' = "idle"
    /\ poller' = 0
    /\ UNCHANGED <<thread, tid, executions, queue, started, timer, handling, history>>

\* An Async editor gets round to removing a stopped registration.
Forget(p) ==
    /\ p \in stopped
    /\ stopped' = stopped \ {p}
    /\ UNCHANGED <<thread, tid, executions, queue, started, live, registered,
                   pc, poller, handling, history>>

-----------------------------------------------------------------------------
Pollers == 1 .. registered

Next ==
    \/ \E r \in Requests : \/ \E t \in Tids : Execute(r, t)
                           \/ Post(r) \/ Exit(r) \/ Die(r)
    \/ \E p \in Pollers  : Poll(p) \/ Forget(p)
    \/ DropResult \/ CallBack \/ CallbackReturns \/ CallbackRaises
    \/ PollStops \/ PollReturns

\* Work comes to an end, the editor keeps ticking registered timers and stops
\* those that asked for it, and callbacks return.
Fairness ==
    /\ \A r \in Requests : WF_vars(Post(r))
    /\ WF_vars(\E p \in Pollers : p \in live /\ Poll(p))
    /\ WF_vars(\E p \in Pollers : Forget(p))
    /\ WF_vars(DropResult \/ CallBack \/ CallbackReturns \/ PollStops \/ PollReturns)

Spec     == Init /\ [][Next]_vars
FairSpec == Spec /\ Fairness

-----------------------------------------------------------------------------
(***************************************************************************)
(* Properties.                                                             *)
(***************************************************************************)
TypeOK ==
    /\ thread \in [Requests -> {"new", "running", "posted", "dead"}]
    /\ tid \in [Requests -> Tids \cup {None}]
    /\ executions \in [Tids -> Requests \cup {None}]
    /\ queue \in Seq(Result)
    /\ started \in BOOLEAN
    /\ registered \in Nat
    /\ live \subseteq 1 .. registered
    /\ stopped \subseteq 1 .. registered
    /\ pc \in {"idle", "polling", "callback"}
    /\ poller \in 0 .. registered
    /\ handling \in [id : Tids, of : Requests, to : Requests] \cup {NoWork}
    /\ delivered \in [Requests -> Seq(Requests)]
    /\ faulted \subseteq Faults

\* A request's callbacks are called at most once, and with the result of its
\* own thread.
DeliversOwnResult ==
    \A r \in Requests : delivered[r] \in {<<>>, <<r>>}

\* Whoever has work filed is polled for it, as long as no callback raised: the
\* manager knows it has started, and a registration of _polling is there that
\* nobody is about to stop.
FiledIsPolled ==
    Filed # {} => started /\ (live # {} \/ "callback raises" \in faulted)

\* A result in the queue finds its request filed under its id, unless its
\* callbacks have been called and one raised.
ResultFindsRequest ==
    \A i \in 1 .. Len(queue) : executions[queue[i].id] = queue[i].of

\* The callbacks of work that came to an end are called, unless one raised
\* before or an id was given out again.
EndedIsDelivered ==
    \A r \in Requests :
        thread[r] = "posted" ~>
            \/ delivered[r] = <<r>>
            \/ faulted \cap {"callback raises", "id reused"} # {}

\* Polling costs nothing when there is no work: once no new work comes, no
\* registration of _polling is left, and nothing is filed.
PollersGo ==
    <>[](faulted # {} \/ (live \cup stopped = {} /\ Filed = {}))

-----------------------------------------------------------------------------
(***************************************************************************)
(* What a caller may rely on: Delivery.                                    *)
(***************************************************************************)
StateOf(r) ==
    CASE thread[r] = "new"     -> "new"
      [] thread[r] = "running" -> "started"
      [] thread[r] \in {"posted", "dead"} ->
            IF delivered[r] = <<r>> THEN "delivered" ELSE "done"

Promise == INSTANCE Delivery WITH state <- [r \in Requests |-> StateOf(r)]

\* The callbacks of a request are called at most once, after its own work has
\* ended and with its result: ThreadExecutor implements Delivery, up to the
\* moment an id is given out again.
DeliversOnce ==
    /\ Promise!Init
    /\ [][Promise!Next \/ "id reused" \in faulted']_[r \in Requests |-> StateOf(r)]
=============================================================================
