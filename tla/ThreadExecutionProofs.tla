------------------------ MODULE ThreadExecutionProofs ------------------------
(***************************************************************************)
(* Proofs about ThreadExecution.  As long as no native id has been given   *)
(* out again, an id stands for one request: the table, the queue and the   *)
(* running callback agree with it, and what is in the queue has not been   *)
(* delivered.                                                              *)
(***************************************************************************)
EXTENDS ThreadExecution, TLAPS

\* A thread has no id before its start, and shares it with none.
IdsAreOwn ==
    /\ \A r \in Requests : thread[r] = "new" => tid[r] = None
    /\ \A r, s \in Requests : tid[r] = tid[s] /\ tid[r] # None => r = s

\* A request is filed under the id of its thread, from the start of the thread
\* to the delivery of its result.
FiledUnderOwnId ==
    /\ \A t \in Tids : executions[t] # None => tid[executions[t]] = t
    /\ \A r \in Requests : thread[r] = "running" => executions[tid[r]] = r

\* A result in the queue is of a thread that has ended its work, carries that
\* thread's id, has not been delivered and is there once.
QueueIsOwn ==
    /\ \A i \in 1 .. Len(queue) :
          /\ queue[i].id = tid[queue[i].of]
          /\ thread[queue[i].of] \in {"posted", "dead"}
          /\ delivered[queue[i].of] = <<>>
    /\ \A i, j \in 1 .. Len(queue) : queue[i].of = queue[j].of => i = j

\* Nothing is delivered to a request whose work is not done.
NoneTooEarly ==
    \A r \in Requests : thread[r] \in {"new", "running"} => delivered[r] = <<>>

\* While a callback runs, it is that of the request the id stands for, and the
\* delivery is on record.
HandlingIsOwn ==
    pc = "callback" =>
        /\ handling \in [id : Tids, of : Requests, to : Requests]
        /\ handling.id = tid[handling.to]
        /\ delivered[handling.to] # <<>>

OwnInv == /\ IdsAreOwn
          /\ FiledUnderOwnId
          /\ QueueIsOwn
          /\ NoneTooEarly
          /\ HandlingIsOwn
          /\ ResultFindsRequest
          /\ DeliversOwnResult

\* Of what follows, nothing depends on ids: threads have one from their start,
\* what a callback in progress was given is known, what is filed has started
\* the poller, and a started poller is registered.
HasId == \A r \in Requests : thread[r] # "new" => tid[r] \in Tids

CallbackHasWork ==
    pc = "callback" => handling \in [id : Tids, of : Requests, to : Requests]

FiledHasStarted == \A t \in Tids : executions[t] # None => started

StartedIsLive == started => (live # {} \/ "callback raises" \in faulted)

TimersOK == /\ registered \in Nat
            /\ live \subseteq 1 .. registered
            /\ stopped \subseteq 1 .. registered
            /\ poller \in 0 .. registered

PollInv == TypeOK /\ HasId /\ CallbackHasWork /\ FiledHasStarted /\ StartedIsLive

-----------------------------------------------------------------------------
\* Registrations of the poller are numbered from 1.
LEMMA TimersStep == ASSUME TimersOK, [Next]_vars PROVE TimersOK'
<1>. USE DEF TimersOK, timer
<1>1. ASSUME NEW r \in Requests, NEW t \in Tids, Execute(r, t) PROVE TimersOK'
  <2>1. Start /\ poller' = poller
    BY <1>1 DEF Execute
  <2>2. CASE started
    BY <2>1, <2>2 DEF Start
  <2>3. CASE ~started
    <3>1. /\ registered' = registered + 1 /\ live' = live \cup {registered'}
          /\ stopped' = stopped /\ poller' = poller
      BY <2>1, <2>3 DEF Start
    <3>2. \A p \in 0 .. registered : p \in 0 .. registered'
      BY <3>1
    <3>3. live' \subseteq 1 .. registered'
      BY <3>1
    <3>. QED  BY <3>1, <3>2, <3>3
  <2>. QED  BY <2>2, <2>3
<1>2. ASSUME NEW r \in Requests, Post(r) \/ Exit(r) \/ Die(r) PROVE TimersOK'
  BY <1>2 DEF Post, Exit, Die
<1>3. ASSUME NEW p \in Pollers, Poll(p) PROVE TimersOK'
  BY <1>3 DEF Poll, Pollers
<1>4. ASSUME NEW p \in Pollers, Forget(p) PROVE TimersOK'
  BY <1>4 DEF Forget
<1>5. CASE EndPoller
  BY <1>5 DEF EndPoller
<1>6. CASE DropResult \/ CallBack \/ CallbackReturns
  BY <1>6 DEF DropResult, CallBack, CallbackReturns
<1>7. CASE PollReturns
  BY <1>7 DEF PollReturns
<1>8. CASE UNCHANGED vars
  BY <1>8 DEF vars
<1>. QED  BY <1>1, <1>2, <1>3, <1>4, <1>5, <1>6, <1>7, <1>8
          DEF Next, CallbackRaises, PollStops

\* The parts of TypeOK that are not about timers.
WorkOK == /\ thread \in [Requests -> {"new", "running", "posted", "dead"}]
          /\ tid \in [Requests -> Tids \cup {None}]
          /\ executions \in [Tids -> Requests \cup {None}]
          /\ queue \in Seq(Result)
          /\ delivered \in [Requests -> Seq(Requests)]

ControlOK == /\ started \in BOOLEAN
             /\ pc \in {"idle", "polling", "callback"}
             /\ handling \in [id : Tids, of : Requests, to : Requests] \cup {NoWork}
             /\ faulted \subseteq Faults

\* The worker of a request that has started has an id, which is what it puts
\* into the queue.
LEMMA WorkStep == ASSUME WorkOK, HasId, [Next]_vars PROVE WorkOK' /\ HasId'
<1>. USE NoneAssumption DEF WorkOK, HasId, history
<1>1. ASSUME NEW r \in Requests, NEW t \in Tids, Execute(r, t) PROVE WorkOK' /\ HasId'
  BY <1>1 DEF Execute
<1>2. ASSUME NEW r \in Requests, Post(r) PROVE WorkOK' /\ HasId'
  <2>1. [id |-> tid[r], of |-> r] \in Result
    BY <1>2 DEF Post, Result
  <2>. QED  BY <1>2, <2>1 DEF Post
<1>3. ASSUME NEW r \in Requests, Exit(r) \/ Die(r) PROVE WorkOK' /\ HasId'
  BY <1>3 DEF Exit, Die
<1>4. ASSUME NEW p \in Pollers, Poll(p) \/ Forget(p) PROVE WorkOK' /\ HasId'
  BY <1>4 DEF Poll, Forget
<1>5. CASE DropResult
  BY <1>5 DEF DropResult
<1>6. CASE CallBack
  <2>1. Head(queue) \in Result /\ queue' \in Seq(Result)
    BY <1>6 DEF CallBack
  <2>2. /\ executions[Head(queue).id] \in Requests
        /\ Head(queue).of \in Requests
        /\ delivered' = [delivered EXCEPT ![executions[Head(queue).id]] =
                            Append(@, Head(queue).of)]
    BY <1>6, <2>1 DEF CallBack, Result
  <2>3. delivered' \in [Requests -> Seq(Requests)]
    BY <2>2
  <2>. QED  BY <1>6, <2>1, <2>3 DEF CallBack
<1>7. CASE CallbackReturns
  BY <1>7 DEF CallbackReturns
<1>8. CASE CallbackRaises \/ PollStops \/ PollReturns
  BY <1>8 DEF CallbackRaises, PollStops, PollReturns
<1>9. CASE UNCHANGED vars
  BY <1>9 DEF vars
<1>. QED  BY <1>1, <1>2, <1>3, <1>4, <1>5, <1>6, <1>7, <1>8, <1>9 DEF Next

\* What a callback is given is the head of the queue and what is filed for it.
LEMMA ControlStep ==
    ASSUME WorkOK, ControlOK, CallbackHasWork, [Next]_vars
    PROVE  ControlOK' /\ CallbackHasWork'
<1>. USE DEF ControlOK, CallbackHasWork, NoWork, history
<1>1. ASSUME NEW r \in Requests, NEW t \in Tids, Execute(r, t)
      PROVE  ControlOK' /\ CallbackHasWork'
  <2>1. started' \in BOOLEAN
    BY <1>1 DEF Execute, Start
  <2>2. faulted' \subseteq Faults
    BY <1>1 DEF Execute, FreeId
  <2>. QED  BY <1>1, <2>1, <2>2 DEF Execute
<1>2. ASSUME NEW r \in Requests, Post(r) \/ Exit(r) \/ Die(r)
      PROVE  ControlOK' /\ CallbackHasWork'
  BY <1>2 DEF Post, Exit, Die
<1>3. ASSUME NEW p \in Pollers, Poll(p) \/ Forget(p)
      PROVE  ControlOK' /\ CallbackHasWork'
  BY <1>3 DEF Poll, Forget
<1>4. CASE CallBack
  <2>1. Head(queue) \in Result
    BY <1>4 DEF CallBack, WorkOK
  <2>2. handling' \in [id : Tids, of : Requests, to : Requests]
    BY <1>4, <2>1 DEF CallBack, Result, WorkOK
  <2>. QED  BY <1>4, <2>2 DEF CallBack
<1>5. CASE DropResult \/ CallbackReturns \/ CallbackRaises
  BY <1>5 DEF DropResult, CallbackReturns, CallbackRaises
<1>6. CASE PollStops \/ PollReturns
  BY <1>6 DEF PollStops, PollReturns
<1>7. CASE UNCHANGED vars
  BY <1>7 DEF vars
<1>. QED  BY <1>1, <1>2, <1>3, <1>4, <1>5, <1>6, <1>7 DEF Next

\* Filing starts the poller, and only an empty table or an exception stops it.
PollerOK == FiledHasStarted /\ StartedIsLive

LEMMA PollerStep ==
    ASSUME WorkOK, PollerOK, [Next]_vars
    PROVE  PollerOK'
<1>. USE DEF PollerOK, FiledHasStarted, StartedIsLive, timer, history
<1>1. ASSUME NEW r \in Requests, NEW t \in Tids, Execute(r, t) PROVE PollerOK'
  <2>1. started' = TRUE /\ (started \/ live' # {}) /\ (started => live' = live)
    BY <1>1 DEF Execute, Start
  <2>. QED  BY <1>1, <2>1 DEF Execute
<1>2. ASSUME UNCHANGED <<executions, started, live>>, faulted \subseteq faulted'
      PROVE  PollerOK'
  BY <1>2
<1>3. ASSUME NEW r \in Requests, Post(r) \/ Exit(r) \/ Die(r) PROVE PollerOK'
  BY <1>2, <1>3 DEF Post, Exit, Die
<1>4. ASSUME NEW p \in Pollers, Poll(p) \/ Forget(p) PROVE PollerOK'
  BY <1>2, <1>4 DEF Poll, Forget
<1>5. CASE DropResult \/ CallBack \/ PollReturns
  BY <1>2, <1>5 DEF DropResult, CallBack, PollReturns
<1>6. CASE CallbackReturns
  BY <1>6 DEF CallbackReturns, WorkOK
<1>7. CASE CallbackRaises
  BY <1>7 DEF CallbackRaises
<1>8. CASE PollStops
  BY <1>8 DEF PollStops, Filed
<1>9. CASE UNCHANGED vars
  BY <1>9 DEF vars
<1>. QED  BY <1>1, <1>2, <1>3, <1>4, <1>5, <1>6, <1>7, <1>8, <1>9 DEF Next

LEMMA InitPoll == Init => PollInv
<1>. SUFFICES ASSUME Init PROVE PollInv
  OBVIOUS
<1>1. WorkOK
  BY DEF Init, WorkOK
<1>2. HasId /\ CallbackHasWork /\ FiledHasStarted /\ StartedIsLive
  BY DEF Init, HasId, CallbackHasWork, FiledHasStarted, StartedIsLive
<1>3. ControlOK
  BY DEF Init, ControlOK
<1>4. TimersOK
  BY DEF Init, TimersOK
<1>. QED  BY <1>1, <1>2, <1>3, <1>4 DEF PollInv, TypeOK, WorkOK, ControlOK, TimersOK

\* Whatever ids are given out and whatever fails, what is filed has a poller.
THEOREM PollInvariance == Spec => []PollInv
<1>1. ASSUME PollInv, [Next]_vars PROVE PollInv'
  <2>1. WorkOK /\ ControlOK /\ TimersOK /\ HasId /\ CallbackHasWork /\ PollerOK
    BY <1>1 DEF PollInv, PollerOK, TypeOK, WorkOK, ControlOK, TimersOK
  <2>2. /\ WorkOK' /\ ControlOK' /\ TimersOK'
        /\ HasId' /\ CallbackHasWork' /\ PollerOK'
    BY <1>1, <2>1, TimersStep, WorkStep, ControlStep, PollerStep
  <2>. QED  BY <2>2 DEF PollInv, PollerOK, TypeOK, WorkOK, ControlOK, TimersOK
<1>. QED  BY InitPoll, <1>1, PTL DEF Spec

\* TypeOK holds in every reachable state.
THEOREM TypeCorrect == Spec => []TypeOK
<1>1. PollInv => TypeOK
  BY DEF PollInv
<1>. QED  BY <1>1, PollInvariance, PTL

\* FiledIsPolled holds in every reachable state.
THEOREM FiledWorkIsPolled == Spec => []FiledIsPolled
<1>1. PollInv => FiledIsPolled
  BY DEF PollInv, FiledHasStarted, StartedIsLive, FiledIsPolled, Filed
<1>. QED  BY <1>1, PollInvariance, PTL

-----------------------------------------------------------------------------
LEMMA InQueue ==
    ASSUME WorkOK, NEW i \in 1 .. Len(queue)
    PROVE  queue[i] \in Result
BY DEF WorkOK

\* A thread that starts gets an id that nothing refers to: not the table, not
\* the queue, not the callback in progress.
LEMMA OwnExecute ==
    ASSUME "id reused" \notin faulted', WorkOK, HasId, OwnInv,
           NEW r \in Requests, NEW t \in Tids, Execute(r, t)
    PROVE  OwnInv'
<1>. USE NoneAssumption DEF WorkOK, history
<1>0. /\ thread[r] = "new" /\ tid[r] = None
      /\ \A s \in Requests : tid[s] # t
      /\ thread' = [thread EXCEPT ![r] = "running"]
      /\ tid' = [tid EXCEPT ![r] = t]
      /\ executions' = [executions EXCEPT ![t] = r]
      /\ UNCHANGED <<queue, pc, handling, delivered>>
  BY DEF Execute, FreeId, OwnInv, IdsAreOwn
<1>1. IdsAreOwn'
  BY <1>0 DEF OwnInv, IdsAreOwn
<1>2. FiledUnderOwnId'
  BY <1>0 DEF OwnInv, FiledUnderOwnId, HasId
<1>3. ASSUME NEW i \in 1 .. Len(queue)
      PROVE  queue[i].id \in Tids /\ queue[i].of \in Requests /\ queue[i].of # r
  <2>1. queue[i] \in Result
    BY InQueue
  <2>2. thread[queue[i].of] \in {"posted", "dead"}
    BY DEF OwnInv, QueueIsOwn
  <2>. QED  BY <1>0, <2>1, <2>2 DEF Result
<1>4. QueueIsOwn'
  BY <1>0, <1>3 DEF OwnInv, QueueIsOwn
<1>5. NoneTooEarly'
  BY <1>0 DEF OwnInv, NoneTooEarly
<1>6. HandlingIsOwn'
  BY <1>0 DEF OwnInv, HandlingIsOwn, NoneTooEarly
<1>7. \A i \in 1 .. Len(queue) :
        /\ queue[i].id = tid[queue[i].of]
        /\ executions[queue[i].id] = queue[i].of
  BY DEF OwnInv, QueueIsOwn, ResultFindsRequest
<1>9. ResultFindsRequest'
  BY <1>0, <1>3, <1>7 DEF ResultFindsRequest
<1>8. DeliversOwnResult'
  BY <1>0 DEF OwnInv, DeliversOwnResult
<1>. QED  BY <1>1, <1>2, <1>4, <1>5, <1>6, <1>8, <1>9 DEF OwnInv

\* The worker puts its result behind those of other threads.
LEMMA OwnPost ==
    ASSUME WorkOK, HasId, OwnInv, NEW r \in Requests, Post(r)
    PROVE  OwnInv'
<1>. USE NoneAssumption DEF WorkOK, history
<1>. DEFINE result == [id |-> tid[r], of |-> r]
<1>0. /\ thread[r] = "running"
      /\ queue' = Append(queue, result)
      /\ thread' = [thread EXCEPT ![r] = "posted"]
      /\ UNCHANGED <<tid, executions, pc, handling, delivered>>
  BY DEF Post
<1>1. result \in Result /\ result.id = tid[r] /\ result.of = r
  BY <1>0 DEF HasId, Result
<1>. HIDE DEF result
<1>2. /\ Len(queue) \in Nat /\ Len(queue') = Len(queue) + 1
      /\ \A i \in 1 .. Len(queue) : queue'[i] = queue[i]
      /\ queue'[Len(queue) + 1] = result
  BY <1>0, <1>1
<1>3. \A i \in 1 .. Len(queue') : i \in 1 .. Len(queue) \/ i = Len(queue) + 1
  BY <1>2
<1>4. ASSUME NEW i \in 1 .. Len(queue)
      PROVE  queue[i] \in Result /\ queue[i].of # r
  <2>1. queue[i] \in Result
    BY InQueue
  <2>2. thread[queue[i].of] \in {"posted", "dead"}
    BY DEF OwnInv, QueueIsOwn
  <2>. QED  BY <1>0, <2>1, <2>2
<1>5. IdsAreOwn' /\ NoneTooEarly' /\ DeliversOwnResult'
  BY <1>0 DEF OwnInv, IdsAreOwn, NoneTooEarly, DeliversOwnResult
<1>6. FiledUnderOwnId' /\ HandlingIsOwn'
  BY <1>0 DEF OwnInv, FiledUnderOwnId, HandlingIsOwn
<1>7. ASSUME NEW i \in 1 .. Len(queue')
      PROVE  /\ queue'[i].id = tid'[queue'[i].of]
             /\ thread'[queue'[i].of] \in {"posted", "dead"}
             /\ delivered'[queue'[i].of] = <<>>
             /\ executions'[queue'[i].id] = queue'[i].of
  <2>1. CASE i \in 1 .. Len(queue)
    BY <1>0, <1>2, <1>4, <2>1 DEF OwnInv, QueueIsOwn, ResultFindsRequest, Result
  <2>2. CASE i = Len(queue) + 1
    BY <1>0, <1>1, <1>2, <2>2 DEF OwnInv, FiledUnderOwnId, NoneTooEarly
  <2>. QED  BY <1>3, <2>1, <2>2
<1>8. \A i, j \in 1 .. Len(queue') : queue'[i].of = queue'[j].of => i = j
  BY <1>1, <1>2, <1>3, <1>4 DEF OwnInv, QueueIsOwn
<1>. QED  BY <1>5, <1>6, <1>7, <1>8 DEF OwnInv, QueueIsOwn, ResultFindsRequest

\* Taking the first result out of the queue keeps what is said of the others.
LEMMA OwnTail ==
    ASSUME WorkOK, queue # <<>>, queue' = Tail(queue)
    PROVE  /\ Len(queue) \in Nat
           /\ Len(queue') = Len(queue) - 1
           /\ \A i \in 1 .. Len(queue') :
                 i + 1 \in 1 .. Len(queue) /\ queue'[i] = queue[i + 1]
           /\ 1 \in 1 .. Len(queue) /\ Head(queue) = queue[1]
BY DEF WorkOK

\* A callback is called with the result of its own request, for the first time.
LEMMA OwnCallBack ==
    ASSUME WorkOK, OwnInv, CallBack
    PROVE  OwnInv'
<1>. USE NoneAssumption DEF history
<1>. DEFINE to == queue[1].of
<1>1. /\ Len(queue) \in Nat /\ Len(queue') = Len(queue) - 1
      /\ \A i \in 1 .. Len(queue') :
            i + 1 \in 1 .. Len(queue) /\ queue'[i] = queue[i + 1]
      /\ 1 \in 1 .. Len(queue) /\ Head(queue) = queue[1]
  BY OwnTail DEF CallBack
<1>2. /\ queue[1].id \in Tids /\ to \in Requests
      /\ queue[1].id = tid[to] /\ executions[queue[1].id] = to
      /\ thread[to] \in {"posted", "dead"} /\ delivered[to] = <<>>
  <2>1. queue[1] \in Result
    BY <1>1, InQueue
  <2>. QED  BY <1>1, <2>1 DEF OwnInv, QueueIsOwn, ResultFindsRequest, Result
<1>3. /\ pc' = "callback"
      /\ handling' = [id |-> tid[to], of |-> to, to |-> to]
      /\ delivered' = [delivered EXCEPT ![to] = Append(@, to)]
      /\ UNCHANGED <<thread, tid, executions>>
  BY <1>1, <1>2 DEF CallBack
<1>. HIDE DEF to
<1>4. delivered'[to] = <<to>> /\ \A r \in Requests : r # to => delivered'[r] = delivered[r]
  BY <1>2, <1>3 DEF WorkOK
<1>5. IdsAreOwn' /\ FiledUnderOwnId'
  BY <1>3 DEF OwnInv, IdsAreOwn, FiledUnderOwnId
<1>6. NoneTooEarly'
  BY <1>2, <1>3, <1>4 DEF OwnInv, NoneTooEarly
<1>7. HandlingIsOwn'
  BY <1>2, <1>3, <1>4 DEF HandlingIsOwn
<1>8. DeliversOwnResult'
  BY <1>2, <1>4 DEF OwnInv, DeliversOwnResult
<1>9. ASSUME NEW i \in 1 .. Len(queue')
      PROVE  /\ queue'[i].id = tid'[queue'[i].of]
             /\ thread'[queue'[i].of] \in {"posted", "dead"}
             /\ delivered'[queue'[i].of] = <<>>
             /\ executions'[queue'[i].id] = queue'[i].of
  <2>1. i + 1 \in 1 .. Len(queue) /\ queue'[i] = queue[i + 1] /\ i + 1 # 1
    BY <1>1
  <2>2. queue[i + 1] \in Result
    BY <2>1, InQueue
  <2>3. queue[i + 1].of # queue[1].of
    BY <1>1, <2>1 DEF OwnInv, QueueIsOwn
  <2>4. queue[i + 1].of \in Requests /\ queue[i + 1].of # to
    BY <2>2, <2>3 DEF Result, to
  <2>. QED  BY <1>3, <1>4, <2>1, <2>4 DEF OwnInv, QueueIsOwn, ResultFindsRequest
<1>10. ASSUME NEW i \in 1 .. Len(queue'), NEW j \in 1 .. Len(queue'),
              queue'[i].of = queue'[j].of
       PROVE  i = j
  <2>1. i + 1 = j + 1
    BY <1>1, <1>10 DEF OwnInv, QueueIsOwn
  <2>. QED  BY <1>1, <2>1
<1>. QED  BY <1>5, <1>6, <1>7, <1>8, <1>9, <1>10 DEF OwnInv, QueueIsOwn, ResultFindsRequest

\* What is taken out of the table after a callback is no result's and no
\* running thread's.
LEMMA OwnReturn ==
    ASSUME WorkOK, OwnInv, CallbackReturns
    PROVE  OwnInv'
<1>. USE NoneAssumption DEF history
<1>1. /\ executions' = [executions EXCEPT ![handling.id] = None]
      /\ pc' = "polling"
      /\ UNCHANGED <<thread, tid, queue, delivered>>
      /\ handling.id \in Tids /\ handling.to \in Requests
      /\ handling.id = tid[handling.to] /\ delivered[handling.to] # <<>>
  BY DEF CallbackReturns, OwnInv, HandlingIsOwn
<1>2. \A r \in Requests : delivered[r] = <<>> => tid[r] # handling.id
  BY <1>1 DEF OwnInv, IdsAreOwn
<1>3. IdsAreOwn' /\ NoneTooEarly' /\ DeliversOwnResult' /\ HandlingIsOwn'
  BY <1>1 DEF OwnInv, IdsAreOwn, NoneTooEarly, DeliversOwnResult, HandlingIsOwn
<1>4. FiledUnderOwnId'
  BY <1>1, <1>2 DEF OwnInv, FiledUnderOwnId, NoneTooEarly, WorkOK
<1>5. QueueIsOwn'
  BY <1>1 DEF OwnInv, QueueIsOwn
<1>6. ASSUME NEW i \in 1 .. Len(queue)
      PROVE  executions'[queue[i].id] = queue[i].of
  <2>1. queue[i] \in Result
    BY InQueue
  <2>2. /\ queue[i].id = tid[queue[i].of] /\ delivered[queue[i].of] = <<>>
        /\ executions[queue[i].id] = queue[i].of
    BY DEF OwnInv, QueueIsOwn, ResultFindsRequest
  <2>3. queue[i].id \in Tids /\ queue[i].id # handling.id
    BY <1>2, <2>1, <2>2 DEF Result
  <2>. QED  BY <1>1, <2>2, <2>3 DEF WorkOK
<1>7. ResultFindsRequest'
  BY <1>1, <1>6 DEF ResultFindsRequest
<1>. QED  BY <1>3, <1>4, <1>5, <1>7 DEF OwnInv

LEMMA OwnStep ==
    ASSUME "id reused" \notin faulted', WorkOK, HasId, OwnInv, [Next]_vars
    PROVE  OwnInv'
<1>. USE DEF history
<1>1. ASSUME NEW r \in Requests, NEW t \in Tids, Execute(r, t) PROVE OwnInv'
  BY <1>1, OwnExecute
<1>2. ASSUME NEW r \in Requests, Post(r) PROVE OwnInv'
  BY <1>2, OwnPost
<1>3. ASSUME NEW r \in Requests, Exit(r) \/ Die(r) PROVE OwnInv'
  <2>1. /\ thread[r] \in {"running", "posted"}
        /\ thread' = [thread EXCEPT ![r] = "dead"]
        /\ UNCHANGED <<tid, executions, queue, pc, handling, delivered>>
    BY <1>3 DEF Exit, Die
  <2>2. \A s \in Requests :
          /\ thread'[s] \in {"new", "running"} => thread'[s] = thread[s]
          /\ thread[s] \in {"posted", "dead"} => thread'[s] \in {"posted", "dead"}
    BY <2>1 DEF WorkOK
  <2>3. IdsAreOwn' /\ FiledUnderOwnId' /\ NoneTooEarly'
    BY <2>1, <2>2 DEF OwnInv, IdsAreOwn, FiledUnderOwnId, NoneTooEarly
  <2>4. \A i \in 1 .. Len(queue) : queue[i].of \in Requests
    BY InQueue DEF Result
  <2>5. QueueIsOwn'
    BY <2>1, <2>2, <2>4 DEF OwnInv, QueueIsOwn
  <2>6. HandlingIsOwn' /\ ResultFindsRequest' /\ DeliversOwnResult'
    BY <2>1 DEF OwnInv, HandlingIsOwn, ResultFindsRequest, DeliversOwnResult
  <2>. QED  BY <2>3, <2>5, <2>6 DEF OwnInv
<1>4. ASSUME UNCHANGED <<thread, tid, executions, queue, delivered>>, pc' # "callback"
      PROVE  OwnInv'
  BY <1>4 DEF OwnInv, IdsAreOwn, FiledUnderOwnId, QueueIsOwn, NoneTooEarly,
              HandlingIsOwn, ResultFindsRequest, DeliversOwnResult
<1>5. ASSUME NEW p \in Pollers, Poll(p) PROVE OwnInv'
  BY <1>4, <1>5 DEF Poll
<1>6. CASE CallbackRaises \/ PollStops \/ PollReturns
  BY <1>4, <1>6 DEF CallbackRaises, PollStops, PollReturns
<1>7. ASSUME UNCHANGED <<thread, tid, executions, queue, delivered, pc, handling>>
      PROVE  OwnInv'
  BY <1>7 DEF OwnInv, IdsAreOwn, FiledUnderOwnId, QueueIsOwn, NoneTooEarly,
              HandlingIsOwn, ResultFindsRequest, DeliversOwnResult
<1>8. ASSUME NEW p \in Pollers, Forget(p) PROVE OwnInv'
  BY <1>7, <1>8 DEF Forget
<1>9. CASE DropResult
  <2>1. 1 \in 1 .. Len(queue) /\ Head(queue) = queue[1] /\ executions[queue[1].id] = None
    BY <1>9, OwnTail DEF DropResult
  <2>2. queue[1].of \in Requests /\ executions[queue[1].id] = queue[1].of
    BY <2>1, InQueue DEF Result, OwnInv, ResultFindsRequest
  <2>. QED  BY <2>1, <2>2, NoneAssumption
<1>10. CASE CallBack
  BY <1>10, OwnCallBack
<1>11. CASE CallbackReturns
  BY <1>11, OwnReturn
<1>12. CASE UNCHANGED vars
  BY <1>7, <1>12 DEF vars
<1>. QED  BY <1>1, <1>2, <1>3, <1>5, <1>6, <1>8, <1>9, <1>10, <1>11, <1>12 DEF Next

LEMMA InitOwn == Init => OwnInv
BY NoneAssumption
   DEF Init, OwnInv, IdsAreOwn, FiledUnderOwnId, QueueIsOwn, NoneTooEarly,
       HandlingIsOwn, ResultFindsRequest, DeliversOwnResult

\* What has gone wrong stays on record.
LEMMA FaultsStay == ASSUME [Next]_vars PROVE faulted \subseteq faulted'
<1>. USE DEF history
<1>1. ASSUME NEW r \in Requests, NEW t \in Tids, Execute(r, t) PROVE faulted \subseteq faulted'
  BY <1>1 DEF Execute
<1>2. ASSUME NEW r \in Requests, Post(r) \/ Exit(r) \/ Die(r) PROVE faulted \subseteq faulted'
  BY <1>2 DEF Post, Exit, Die
<1>3. ASSUME NEW p \in Pollers, Poll(p) \/ Forget(p) PROVE faulted \subseteq faulted'
  BY <1>3 DEF Poll, Forget
<1>4. CASE DropResult \/ CallBack \/ CallbackReturns \/ CallbackRaises
  BY <1>4 DEF DropResult, CallBack, CallbackReturns, CallbackRaises
<1>5. CASE PollStops \/ PollReturns
  BY <1>5 DEF PollStops, PollReturns
<1>6. CASE UNCHANGED vars
  BY <1>6 DEF vars
<1>. QED  BY <1>1, <1>2, <1>3, <1>4, <1>5, <1>6 DEF Next

\* As long as no id has been given out again, an id stands for one request.
OwnUntilReuse == "id reused" \notin faulted => OwnInv

\* OwnUntilReuse holds in every reachable state.
THEOREM OwnInvariance == Spec => []OwnUntilReuse
<1>1. PollInv /\ OwnUntilReuse /\ [Next]_vars => OwnUntilReuse'
  <2>1. PollInv => WorkOK /\ HasId
    BY DEF PollInv, TypeOK, WorkOK
  <2>. QED  BY <2>1, OwnStep, FaultsStay DEF OwnUntilReuse
<1>2. Init => OwnUntilReuse
  BY InitOwn DEF OwnUntilReuse
<1>. QED  BY <1>1, <1>2, PollInvariance, PTL DEF Spec

\* As long as no id has been given out again, DeliversOwnResult holds, whatever
\* else fails.
THEOREM OwnResultIsDelivered == Spec => []("id reused" \notin faulted => DeliversOwnResult)
<1>1. OwnUntilReuse => ("id reused" \notin faulted => DeliversOwnResult)
  BY DEF OwnUntilReuse, OwnInv
<1>. QED  BY <1>1, OwnInvariance, PTL

\* As long as no id has been given out again, every result in the queue finds
\* its request.
THEOREM ResultsFindRequests == Spec => []("id reused" \notin faulted => ResultFindsRequest)
<1>1. OwnUntilReuse => ("id reused" \notin faulted => ResultFindsRequest)
  BY DEF OwnUntilReuse, OwnInv
<1>. QED  BY <1>1, OwnInvariance, PTL

-----------------------------------------------------------------------------
(***************************************************************************)
(* ThreadExecution implements Delivery.                                    *)
(***************************************************************************)
Mapped == [r \in Requests |-> StateOf(r)]

\* A step that leaves every request in its state is a stutter of Delivery.
LEMMA Stutter ==
    ASSUME \A r \in Requests : StateOf(r)' = StateOf(r)
    PROVE  Mapped' = Mapped
BY DEF Mapped

\* A step that moves one request from one state to another is a Move.
LEMMA Moves ==
    ASSUME NEW r \in Requests, NEW a, NEW b,
           StateOf(r) = a, StateOf(r)' = b,
           \A s \in Requests : s # r => StateOf(s)' = StateOf(s)
    PROVE  Promise!Move(r, a, b)
BY DEF Promise!Move

LEMMA PromiseStep ==
    ASSUME WorkOK, OwnInv, OwnInv', [Next]_vars
    PROVE  [Promise!Next]_Mapped
<1>. USE DEF WorkOK, history
<1>1. ASSUME NEW r \in Requests, NEW t \in Tids, Execute(r, t)
      PROVE  Promise!Next
  <2>1. Promise!Move(r, "new", "started")
    BY <1>1, Moves DEF Execute, StateOf
  <2>. QED  BY <2>1 DEF Promise!Next, Promise!Begin
<1>2. ASSUME NEW r \in Requests, Post(r) \/ Die(r)
      PROVE  Promise!Next
  <2>1. /\ thread[r] = "running" /\ delivered' = delivered
        /\ thread' = [thread EXCEPT ![r] = thread'[r]]
        /\ thread'[r] \in {"posted", "dead"}
    BY <1>2 DEF Post, Die
  <2>2. delivered[r] # <<r>>
    <3>1. delivered[r] = <<>>
      BY <2>1 DEF OwnInv, NoneTooEarly
    <3>2. Len(<<>>) = 0 /\ Len(<<r>>) = 1
      OBVIOUS
    <3>. QED  BY <3>1, <3>2
  <2>3. StateOf(r) = "started" /\ StateOf(r)' = "done"
    BY <2>1, <2>2 DEF StateOf
  <2>4. \A s \in Requests : s # r => StateOf(s)' = StateOf(s)
    BY <2>1 DEF StateOf
  <2>5. Promise!Move(r, "started", "done")
    BY <2>3, <2>4, Moves
  <2>. QED  BY <2>5 DEF Promise!Next, Promise!Finish
<1>3. CASE CallBack
  <2>1. PICK r \in Requests :
          /\ thread' = thread /\ thread[r] \in {"posted", "dead"}
          /\ delivered[r] = <<>> /\ delivered'[r] = <<r>>
          /\ \A s \in Requests : s # r => delivered'[s] = delivered[s]
    <3>1. /\ 1 \in 1 .. Len(queue) /\ Head(queue) = queue[1]
          /\ thread' = thread
          /\ delivered' = [delivered EXCEPT ![executions[queue[1].id]] =
                             Append(@, queue[1].of)]
      BY <1>3, OwnTail DEF CallBack
    <3>2. /\ queue[1].of \in Requests
          /\ executions[queue[1].id] = queue[1].of
          /\ thread[queue[1].of] \in {"posted", "dead"}
          /\ delivered[queue[1].of] = <<>>
      BY <3>1, InQueue DEF Result, OwnInv, QueueIsOwn, ResultFindsRequest
    <3>. QED  BY <3>1, <3>2
  <2>2. StateOf(r) = "done" /\ StateOf(r)' = "delivered"
    BY <2>1 DEF StateOf
  <2>3. \A s \in Requests : s # r => StateOf(s)' = StateOf(s)
    BY <2>1 DEF StateOf
  <2>4. Promise!Move(r, "done", "delivered")
    BY <2>2, <2>3, Moves
  <2>. QED  BY <2>4 DEF Promise!Next, Promise!Deliver
<1>4. ASSUME NEW r \in Requests, Exit(r) PROVE Mapped' = Mapped
  BY <1>4, Stutter DEF Exit, StateOf
<1>5. ASSUME thread' = thread, delivered' = delivered PROVE Mapped' = Mapped
  BY <1>5, Stutter DEF StateOf
<1>6. ASSUME NEW p \in Pollers, Poll(p) \/ Forget(p) PROVE Mapped' = Mapped
  BY <1>5, <1>6 DEF Poll, Forget
<1>7. CASE DropResult \/ CallbackReturns \/ CallbackRaises
  BY <1>5, <1>7 DEF DropResult, CallbackReturns, CallbackRaises
<1>8. CASE PollStops \/ PollReturns
  BY <1>5, <1>8 DEF PollStops, PollReturns
<1>9. CASE UNCHANGED vars
  BY <1>5, <1>9 DEF vars
<1>. QED  BY <1>1, <1>2, <1>3, <1>4, <1>6, <1>7, <1>8, <1>9 DEF Next

\* ThreadExecution implements Delivery up to the moment an id is given out again:
\* the initial states are Delivery's and every step is a step of Delivery or none.
THEOREM ImplementsDelivery == Spec => DeliversOnce
<1>. DEFINE Allowed == Promise!Next \/ "id reused" \in faulted'
<1>1. Init => Promise!Init
  BY DEF Init, Promise!Init, StateOf
<1>2. PollInv /\ OwnUntilReuse /\ OwnUntilReuse' /\ [Next]_vars => [Allowed]_Mapped
  <2>1. PollInv => WorkOK
    BY DEF PollInv, TypeOK, WorkOK
  <2>2. ASSUME PollInv, OwnUntilReuse, OwnUntilReuse', [Next]_vars,
               "id reused" \notin faulted'
        PROVE  [Promise!Next]_Mapped
    BY <2>1, <2>2, PromiseStep, FaultsStay DEF OwnUntilReuse
  <2>. QED  BY <2>2
<1>. QED  BY <1>1, <1>2, PollInvariance, OwnInvariance, PTL
          DEF Spec, DeliversOnce, Mapped

=============================================================================
