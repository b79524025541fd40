--------------------------- MODULE TimerTaskProofs ---------------------------
(***************************************************************************)
(* Proofs about TimerTask.  Registrations are numbered, so that the        *)
(* argument is about ids: an id under a name was made for that name, a     *)
(* posted registration has an id no timer has yet, and no two posted       *)
(* registrations share one.                                                *)
(***************************************************************************)
EXTENDS TimerTask, SequenceTheorems, TLAPS

\* Posted calls carry an id that exists and was made for the name they carry.
CallsWellFormed ==
    \A i \in 1 .. Len(calls) :
        calls[i].id <= Len(task) /\ task[calls[i].id].name = calls[i].name

\* The timer of a posted registration has not been made, by anyone.
PostedIsNew ==
    /\ \A i \in 1 .. Len(calls) :
          calls[i].op = "register" => calls[i].id \notin timers
    /\ \A i, j \in 1 .. Len(calls) :
          /\ calls[i].op = "register"
          /\ calls[j].op = "register"
          /\ calls[i].id = calls[j].id
          => i = j

\* The id under a name was registered for that name.
NamesMatch ==
    \A n \in Names : current[n] # NoTask
        => current[n] <= Len(task) /\ task[current[n]].name = n

IInv == /\ TypeOK
        /\ CallsWellFormed
        /\ PostedIsNew
        /\ NamesMatch
        /\ RegisteredIsDriven

-----------------------------------------------------------------------------
\* What installing a registration keeps, whichever step does it.
LEMMA InstallKeeps ==
    ASSUME IInv, NEW c \in Call, Install(c), task' \in Seq(Task),
           c.id <= Len(task'), Len(task) <= Len(task'), Len(task') <= MaxTasks,
           task'[c.id].name = c.name, c.id \notin timers,
           \A g \in 1 .. Len(task) : task'[g].name = task[g].name
    PROVE  /\ current' \in [Names -> Ids \cup {NoTask}]
           /\ timers' \subseteq 1 .. Len(task')
           /\ stopping' \subseteq timers'
           /\ NamesMatch' /\ RegisteredIsDriven'
<1>. USE DEF Ids, NoTask, Call
<1>1. /\ current \in [Names -> Ids \cup {NoTask}] /\ c.id \in Ids /\ c.name \in Names
      /\ Len(task) \in Nat /\ Len(task') \in Nat
      /\ timers \subseteq 1 .. Len(task) /\ stopping \subseteq timers
  BY DEF IInv, TypeOK
<1>2. /\ current' = [current EXCEPT ![c.name] = c.id]
      /\ timers' = timers \cup {c.id} /\ stopping' = stopping
  BY DEF Install
<1>3. current' \in [Names -> Ids \cup {NoTask}]
  BY <1>1, <1>2
<1>4. timers' \subseteq 1 .. Len(task') /\ stopping' \subseteq timers'
  <2>1. c.id \in 1 .. Len(task')
    BY <1>1, BoundsAssumption
  <2>2. \A g \in 1 .. Len(task) : g \in 1 .. Len(task')
    BY <1>1
  <2>. QED  BY <1>1, <1>2, <2>1, <2>2
<1>5. NamesMatch'
  BY <1>1, <1>2 DEF IInv, NamesMatch
<1>6. RegisteredIsDriven'
  BY <1>1, <1>2 DEF IInv, RegisteredIsDriven
<1>. QED  BY <1>3, <1>4, <1>5, <1>6

\* What removing a name keeps.
LEMMA RemoveKeeps ==
    ASSUME IInv, NEW c \in Call, Remove(c), task' \in Seq(Task),
           Len(task) <= Len(task'), Len(task') <= MaxTasks,
           c.id <= Len(task), task[c.id].name = c.name,
           \A g \in 1 .. Len(task) : task'[g].name = task[g].name
    PROVE  /\ current' \in [Names -> Ids \cup {NoTask}]
           /\ timers' \subseteq 1 .. Len(task')
           /\ stopping' \subseteq timers'
           /\ NamesMatch' /\ RegisteredIsDriven'
<1>. USE DEF Ids, NoTask, Call
<1>1. /\ current \in [Names -> Ids \cup {NoTask}] /\ c.name \in Names
      /\ Len(task) \in Nat /\ Len(task') \in Nat
      /\ timers \subseteq 1 .. Len(task) /\ stopping \subseteq timers
  BY DEF IInv, TypeOK
<1>2. /\ current' = [current EXCEPT ![c.name] = NoTask]
      /\ timers' = timers /\ stopping' = stopping \cup ({c.id} \cap timers)
  BY DEF Remove
<1>3. current' \in [Names -> Ids \cup {NoTask}]
  BY <1>1, <1>2
<1>4. timers' \subseteq 1 .. Len(task') /\ stopping' \subseteq timers'
  <2>1. \A g \in 1 .. Len(task) : g \in 1 .. Len(task')
    BY <1>1
  <2>. QED  BY <1>1, <1>2, <2>1
<1>5. NamesMatch'
  BY <1>1, <1>2, BoundsAssumption DEF IInv, NamesMatch
<1>6. RegisteredIsDriven'
  BY <1>1, <1>2 DEF IInv, NamesMatch, RegisteredIsDriven
<1>. QED  BY <1>3, <1>4, <1>5, <1>6

\* Scheduling a bookkeeping call keeps the invariant's parts about names,
\* timers and posted calls, at once or posted.
Bookkeeping == /\ current \in [Names -> Ids \cup {NoTask}]
               /\ timers \subseteq 1 .. Len(task)
               /\ stopping \subseteq timers
               /\ calls \in Seq(Call) /\ Len(calls) <= MaxCalls
               /\ CallsWellFormed /\ PostedIsNew
               /\ NamesMatch /\ RegisteredIsDriven

\* The tasks made so far keep their names, and new ones are added at the end.
TaskGrows == /\ task' \in Seq(Task)
             /\ Len(task) <= Len(task') /\ Len(task') <= MaxTasks
             /\ \A g \in 1 .. Len(task) : task'[g].name = task[g].name

LEMMA CallsStillWellFormed ==
    ASSUME IInv, TaskGrows
    PROVE  \A i \in 1 .. Len(calls) :
              calls[i].id <= Len(task') /\ task'[calls[i].id].name = calls[i].name
  <1>1. Len(task) \in Nat /\ Len(task') \in Nat
    BY DEF IInv, TypeOK, TaskGrows
  <1>. SUFFICES ASSUME NEW i \in 1 .. Len(calls)
                PROVE  calls[i].id <= Len(task') /\ task'[calls[i].id].name = calls[i].name
    OBVIOUS
  <1>2. calls[i] \in Call
    BY DEF IInv, TypeOK
  <1>3. calls[i].id \in 1 .. Len(task)
    BY <1>1, <1>2, BoundsAssumption DEF IInv, CallsWellFormed, Call, Ids
  <1>. QED  BY <1>1, <1>3 DEF IInv, CallsWellFormed, TaskGrows

LEMMA HandKeeps ==
    ASSUME IInv, NEW c \in Call, Hand(c), TaskGrows,
           c.id <= Len(task'), task'[c.id].name = c.name,
           c.op = "deregister" => c.id <= Len(task),
           c.op = "register" => /\ c.id \notin timers
                                /\ \A i \in 1 .. Len(calls) : calls[i].id # c.id
    PROVE  Bookkeeping'
<1>0. /\ task \in Seq(Task) /\ task' \in Seq(Task)
      /\ calls \in Seq(Call) /\ Len(calls) \in Nat
      /\ Len(task) \in Nat /\ Len(task') \in Nat
  BY DEF IInv, TypeOK, TaskGrows
<1>a. \A i \in 1 .. Len(calls) :
        calls[i].id <= Len(task') /\ task'[calls[i].id].name = calls[i].name
  BY CallsStillWellFormed
<1>1. CASE ~Async
  <2>1. calls' = calls /\ Perform(c)
    BY <1>1 DEF Hand
  <2>2. calls' \in Seq(Call) /\ Len(calls') <= MaxCalls /\ CallsWellFormed'
    BY <2>1, <1>0, <1>a DEF CallsWellFormed, IInv, TypeOK
  <2>3. CASE c.op = "register"
    <3>1. Install(c)
      BY <2>1, <2>3 DEF Perform
    <3>2. PostedIsNew'
      <4>. timers' = timers \cup {c.id}
        BY <3>1 DEF Install
      <4>. QED  BY <2>1, <2>3 DEF PostedIsNew, IInv
    <3>3. /\ current' \in [Names -> Ids \cup {NoTask}]
          /\ timers' \subseteq 1 .. Len(task') /\ stopping' \subseteq timers'
          /\ NamesMatch' /\ RegisteredIsDriven'
      BY <3>1, <2>3, InstallKeeps DEF TaskGrows
    <3>. QED
      BY <2>2, <3>2, <3>3 DEF Bookkeeping
  <2>4. CASE c.op = "deregister"
    <3>1. Remove(c)
      BY <2>1, <2>4 DEF Perform
    <3>2. PostedIsNew'
      <4>. timers' = timers
        BY <3>1 DEF Remove
      <4>. QED  BY <2>1 DEF PostedIsNew, IInv
    <3>3. c.id \in 1 .. Len(task)
      BY <1>0, <2>4, BoundsAssumption DEF Call, Ids
    <3>4. task[c.id].name = c.name
      BY <3>3 DEF TaskGrows
    <3>5. /\ current' \in [Names -> Ids \cup {NoTask}]
          /\ timers' \subseteq 1 .. Len(task') /\ stopping' \subseteq timers'
          /\ NamesMatch' /\ RegisteredIsDriven'
      BY <3>1, <2>4, <3>4, RemoveKeeps DEF TaskGrows
    <3>. QED
      BY <2>2, <3>2, <3>5 DEF Bookkeeping
  <2>. QED  BY <2>3, <2>4 DEF Call
<1>2. CASE Async
  <2>1. /\ Len(calls) < MaxCalls /\ calls' = Append(calls, c)
        /\ UNCHANGED <<current, timers, stopping>>
    BY <1>2 DEF Hand
  <2>2. /\ calls' \in Seq(Call) /\ Len(calls') = Len(calls) + 1
        /\ \A i \in 1 .. Len(calls) : calls'[i] = calls[i]
        /\ calls'[Len(calls) + 1] = c
    BY <2>1, <1>0
  <2>3. Len(calls') <= MaxCalls
    BY <2>1, <2>2, <1>0, BoundsAssumption
  <2>4. CallsWellFormed'
    <3>1. ASSUME NEW i \in 1 .. Len(calls')
          PROVE  calls'[i].id <= Len(task') /\ task'[calls'[i].id].name = calls'[i].name
      <4>1. CASE i \in 1 .. Len(calls)
        BY <1>a, <2>2, <4>1
      <4>2. CASE i = Len(calls) + 1
        BY <2>2, <4>2
      <4>. QED  BY <1>0, <2>2, <4>1, <4>2
    <3>. QED  BY <3>1 DEF CallsWellFormed
  <2>5. PostedIsNew'
    <3>1. \A i \in 1 .. Len(calls') : i \in 1 .. Len(calls) \/ i = Len(calls) + 1
      BY <1>0, <2>2
    <3>2. /\ \A i \in 1 .. Len(calls) :
                calls[i].op = "register" => calls[i].id \notin timers
          /\ \A i, j \in 1 .. Len(calls) :
                calls[i].op = "register" /\ calls[j].op = "register" /\ calls[i].id = calls[j].id
                   => i = j
      BY ONLY IInv DEF IInv, PostedIsNew
    <3>3. ASSUME NEW i \in 1 .. Len(calls'), calls'[i].op = "register"
          PROVE  calls'[i].id \notin timers'
      BY <2>1, <2>2, <3>1, <3>2, <3>3
    <3>4. ASSUME NEW i \in 1 .. Len(calls'), NEW j \in 1 .. Len(calls'),
                 calls'[i].op = "register", calls'[j].op = "register",
                 calls'[i].id = calls'[j].id
          PROVE  i = j
      BY <2>2, <3>1, <3>2, <3>4
    <3>. QED  BY <3>3, <3>4 DEF PostedIsNew
  <2>6. NamesMatch' /\ RegisteredIsDriven' /\ timers' \subseteq 1 .. Len(task')
    <3>1. \A g \in 1 .. Len(task) : g \in 1 .. Len(task') /\ task'[g].name = task[g].name
      BY <1>0 DEF TaskGrows
    <3>2. \A n \in Names : current[n] # NoTask => current[n] \in 1 .. Len(task)
      BY <1>0, BoundsAssumption DEF IInv, TypeOK, NamesMatch, Ids, NoTask
    <3>3. timers \subseteq 1 .. Len(task)
      BY DEF IInv, TypeOK
    <3>4. NamesMatch'
      BY <2>1, <3>1, <3>2 DEF IInv, NamesMatch
    <3>. QED  BY <2>1, <3>1, <3>3, <3>4 DEF IInv, RegisteredIsDriven
  <2>. QED
    BY <2>1, <2>2, <2>3, <2>4, <2>5, <2>6 DEF Bookkeeping, IInv, TypeOK
<1>. QED  BY <1>1, <1>2

\* The editor reaches the oldest posted call.
LEMMA RunPostedKeeps ==
    ASSUME IInv, RunPosted
    PROVE  Bookkeeping'
<1>0. /\ calls \in Seq(Call) /\ calls # <<>> /\ task' = task
      /\ calls' = Tail(calls) /\ Perform(Head(calls))
      /\ task \in Seq(Task) /\ Len(task) <= MaxTasks /\ Len(task) \in Nat
  BY DEF IInv, TypeOK, RunPosted
<1>1. /\ Head(calls) = calls[1] /\ 1 \in 1 .. Len(calls) /\ calls[1] \in Call
      /\ calls' \in Seq(Call) /\ Len(calls') = Len(calls) - 1 /\ Len(calls) \in Nat
      /\ \A i \in 1 .. Len(calls') : i + 1 \in 1 .. Len(calls) /\ calls'[i] = calls[i + 1]
  BY <1>0
<1>2. Len(calls') <= MaxCalls /\ CallsWellFormed'
  BY <1>0, <1>1, BoundsAssumption DEF IInv, TypeOK, CallsWellFormed
<1>3. calls[1].id <= Len(task) /\ task[calls[1].id].name = calls[1].name
  BY <1>1 DEF IInv, CallsWellFormed
<1>4. CASE calls[1].op = "register"
  <2>1. Install(calls[1])
    BY <1>0, <1>1, <1>4 DEF Perform
  <2>2. timers' = timers \cup {calls[1].id}
    BY <2>1 DEF Install
  <2>3. PostedIsNew'
    <3>1. ASSUME NEW i \in 1 .. Len(calls'), calls'[i].op = "register"
          PROVE  calls'[i].id \notin timers'
      <4>1. i + 1 # 1 /\ i + 1 \in 1 .. Len(calls) /\ calls'[i] = calls[i + 1]
        BY <1>1, <3>1
      <4>2. calls[i + 1].id # calls[1].id /\ calls[i + 1].id \notin timers
        BY <1>1, <1>4, <3>1, <4>1 DEF IInv, PostedIsNew
      <4>. QED  BY <2>2, <4>1, <4>2
    <3>2. ASSUME NEW i \in 1 .. Len(calls'), NEW j \in 1 .. Len(calls'),
                 calls'[i].op = "register", calls'[j].op = "register",
                 calls'[i].id = calls'[j].id
          PROVE  i = j
      <4>1. /\ i + 1 \in 1 .. Len(calls) /\ calls'[i] = calls[i + 1]
            /\ j + 1 \in 1 .. Len(calls) /\ calls'[j] = calls[j + 1]
        BY <1>1
      <4>2. PICK k, l \in 1 .. Len(calls) : k = i + 1 /\ l = j + 1
        BY <4>1
      <4>3. calls[k].op = "register" /\ calls[l].op = "register" /\ calls[k].id = calls[l].id
        BY <3>2, <4>1, <4>2
      <4>4. k = l
        BY ONLY IInv, <4>3, k \in 1 .. Len(calls), l \in 1 .. Len(calls)
           DEF IInv, PostedIsNew
      <4>. QED  BY <4>2, <4>4
    <3>. QED  BY <3>1, <3>2 DEF PostedIsNew
  <2>4. calls[1].id \notin timers
    BY <1>1, <1>4 DEF IInv, PostedIsNew
  <2>. QED
    BY <1>0, <1>1, <1>2, <1>3, <2>1, <2>3, <2>4, InstallKeeps DEF Bookkeeping
<1>5. CASE calls[1].op = "deregister"
  <2>1. Remove(calls[1])
    BY <1>0, <1>1, <1>5 DEF Perform
  <2>2. timers' = timers
    BY <2>1 DEF Remove
  <2>3. PostedIsNew'
    <3>1. ASSUME NEW i \in 1 .. Len(calls'), calls'[i].op = "register"
          PROVE  calls'[i].id \notin timers'
      BY <1>1, <2>2, <3>1 DEF IInv, PostedIsNew
    <3>2. ASSUME NEW i \in 1 .. Len(calls'), NEW j \in 1 .. Len(calls'),
                 calls'[i].op = "register", calls'[j].op = "register",
                 calls'[i].id = calls'[j].id
          PROVE  i = j
      <4>1. /\ i + 1 \in 1 .. Len(calls) /\ calls'[i] = calls[i + 1]
            /\ j + 1 \in 1 .. Len(calls) /\ calls'[j] = calls[j + 1]
        BY <1>1
      <4>2. PICK k, l \in 1 .. Len(calls) : k = i + 1 /\ l = j + 1
        BY <4>1
      <4>3. calls[k].op = "register" /\ calls[l].op = "register" /\ calls[k].id = calls[l].id
        BY <3>2, <4>1, <4>2
      <4>4. k = l
        BY ONLY IInv, <4>3, k \in 1 .. Len(calls), l \in 1 .. Len(calls)
           DEF IInv, PostedIsNew
      <4>. QED  BY <4>2, <4>4
    <3>. QED  BY <3>1, <3>2 DEF PostedIsNew
  <2>. QED
    BY <1>0, <1>1, <1>2, <1>3, <2>1, <2>3, RemoveKeeps DEF Bookkeeping
<1>. QED  BY <1>1, <1>4, <1>5 DEF Call

\* A removal that is scheduled while task functions and callers run.
LEMMA ScheduleKeeps ==
    ASSUME IInv, TaskGrows, NEW n \in Names, ScheduleDeregister(n)
    PROVE  Bookkeeping'
<1>0. /\ task \in Seq(Task) /\ task' \in Seq(Task)
      /\ Len(task) \in Nat /\ Len(task') \in Nat
  BY DEF IInv, TypeOK, TaskGrows
<1>1. \A g \in 1 .. Len(task) : g \in 1 .. Len(task') /\ task'[g].name = task[g].name
  BY <1>0 DEF TaskGrows
<1>2. \A m \in Names : current[m] # NoTask => current[m] \in 1 .. Len(task)
  BY <1>0, BoundsAssumption DEF IInv, TypeOK, NamesMatch, Ids, NoTask
<1>3. CASE current[n] = NoTask
  <2>1. UNCHANGED <<current, timers, stopping, calls>>
    BY <1>3 DEF ScheduleDeregister
  <2>2. CallsWellFormed'
    BY <2>1, CallsStillWellFormed DEF CallsWellFormed
  <2>3. NamesMatch'
    BY <1>1, <1>2, <2>1 DEF IInv, NamesMatch
  <2>4. timers' \subseteq 1 .. Len(task')
    BY <1>1, <2>1 DEF IInv, TypeOK
  <2>. QED
    BY <2>1, <2>2, <2>3, <2>4
       DEF Bookkeeping, IInv, TypeOK, PostedIsNew, RegisteredIsDriven
<1>4. CASE current[n] # NoTask
  <2>. DEFINE c == [op |-> "deregister", name |-> n, id |-> current[n]]
  <2>1. Hand(c)
    BY <1>4 DEF ScheduleDeregister
  <2>2. c \in Call
    BY <1>4 DEF Call, IInv, TypeOK
  <2>3. current[n] \in 1 .. Len(task) /\ task[current[n]].name = n
    BY <1>2, <1>4 DEF IInv, NamesMatch
  <2>4. current[n] <= Len(task') /\ task'[current[n]].name = n
    BY <1>0, <1>1, <2>3
  <2>. HIDE DEF c
  <2>5. c.id = current[n] /\ c.name = n /\ c.op = "deregister"
    BY DEF c
  <2>. QED
    BY <1>0, <2>1, <2>2, <2>3, <2>4, <2>5, HandKeeps
<1>. QED  BY <1>3, <1>4

\* Counting a repeat down changes nothing else of the registered tasks.
LEMMA EditLeft ==
    ASSUME NEW s \in Seq(Task), NEW i \in 1 .. Len(s), NEW v \in Int
    PROVE  LET t == [s EXCEPT ![i].left = v]
           IN  /\ t \in Seq(Task) /\ Len(t) = Len(s)
               /\ \A g \in 1 .. Len(s) : t[g].name = s[g].name /\ t[g].repeat = s[g].repeat
<1>. DEFINE e == [s[i] EXCEPT !.left = v]
            t == [s EXCEPT ![i] = e]
<1>1. s[i] \in Task
  OBVIOUS
<1>2. e \in Task /\ e.name = s[i].name /\ e.repeat = s[i].repeat
  BY <1>1 DEF Task
<1>. HIDE DEF e
<1>3. t \in Seq(Task) /\ Len(t) = Len(s)
  BY <1>2
<1>4. \A g \in 1 .. Len(s) : t[g].name = s[g].name /\ t[g].repeat = s[g].repeat
  BY <1>2
<1>5. [s EXCEPT ![i].left = v] = t
  BY DEF e
<1>. QED  BY <1>3, <1>4, <1>5

\* A step that leaves the bookkeeping alone keeps it, tasks only changing in
\* what is left of their repeats.
LEMMA UntouchedKeeps ==
    ASSUME IInv, TaskGrows, UNCHANGED <<current, timers, stopping, calls>>
    PROVE  Bookkeeping'
<1>0. /\ Len(task) \in Nat /\ Len(task') \in Nat
      /\ \A g \in 1 .. Len(task) : g \in 1 .. Len(task') /\ task'[g].name = task[g].name
  BY DEF IInv, TypeOK, TaskGrows
<1>1. \A m \in Names : current[m] # NoTask => current[m] \in 1 .. Len(task)
  BY <1>0, BoundsAssumption DEF IInv, TypeOK, NamesMatch, Ids, NoTask
<1>2. CallsWellFormed'
  BY CallsStillWellFormed DEF CallsWellFormed
<1>3. NamesMatch'
  BY <1>0, <1>1 DEF IInv, NamesMatch
<1>. QED
  BY <1>0, <1>2, <1>3
     DEF Bookkeeping, IInv, TypeOK, PostedIsNew, RegisteredIsDriven

\* A call of register.
LEMMA RegisterKeeps ==
    ASSUME IInv, NEW n \in Names, NEW r \in Repeats, Register(n, r)
    PROVE  Bookkeeping' /\ TaskGrows
<1>. DEFINE t == [name |-> n, repeat |-> r, left |-> r]
            c == [op |-> "register", name |-> n, id |-> Len(task) + 1]
<1>0. /\ task \in Seq(Task) /\ Len(task) \in Nat /\ Len(task) < MaxTasks
      /\ calls \in Seq(Call) /\ t \in Task /\ c \in Call
      /\ task' = Append(task, t) /\ Hand(c)
  BY RepeatsAssumption, BoundsAssumption DEF Register, IInv, TypeOK, Task, Call, Ids
<1>. HIDE DEF t
<1>1. /\ task' \in Seq(Task) /\ Len(task') = Len(task) + 1
      /\ \A g \in 1 .. Len(task) : task'[g] = task[g]
      /\ task'[Len(task) + 1] = t
  BY <1>0
<1>2. TaskGrows
  BY <1>0, <1>1, BoundsAssumption DEF TaskGrows
<1>3. t.name = n
  BY DEF t
<1>4. c.id \notin timers
  BY <1>0 DEF IInv, TypeOK
<1>5. ASSUME NEW i \in 1 .. Len(calls) PROVE calls[i].id # c.id
  <2>1. calls[i] \in Call
    BY <1>0
  <2>2. calls[i].id <= Len(task) /\ calls[i].id \in Ids
    BY <2>1 DEF IInv, CallsWellFormed, Call
  <2>. QED  BY <1>0, <2>2, BoundsAssumption DEF Ids
<1>6. c.id <= Len(task') /\ task'[c.id].name = c.name /\ c.op = "register"
  BY <1>0, <1>1, <1>3
<1>. HIDE DEF c
<1>. QED  BY <1>0, <1>2, <1>4, <1>5, <1>6, HandKeeps

\* Tasks are only added, one at a time, by a call of register.
LEMMA StepGrows ==
    ASSUME IInv, [Next]_vars
    PROVE  /\ TaskGrows
           /\ \/ \E n \in Names, r \in Repeats : Register(n, r)
              \/ Len(task') = Len(task)
<1>0. task \in Seq(Task) /\ Len(task) \in Nat /\ Len(task) <= MaxTasks /\ running \in 0 .. Len(task)
  BY DEF IInv, TypeOK
<1>1. ASSUME UNCHANGED task PROVE TaskGrows /\ Len(task') = Len(task)
  BY <1>0, <1>1 DEF TaskGrows
<1>2. ASSUME NEW v \in Int, running # NoTask, task' = [task EXCEPT ![running].left = v]
      PROVE  TaskGrows /\ Len(task') = Len(task)
  <2>1. running \in 1 .. Len(task)
    BY <1>0, <1>2 DEF NoTask
  <2>. QED  BY <1>0, <1>2, <2>1, EditLeft DEF TaskGrows
<1>3. ASSUME FuncReturns PROVE TaskGrows /\ Len(task') = Len(task)
  <2>. DEFINE v == IF task[running].left > 0 THEN task[running].left - 1
                                            ELSE task[running].left
  <2>1. task[running] \in Task
    BY <1>0, <1>3 DEF FuncReturns, NoTask
  <2>2. v \in Int /\ running # NoTask /\ task' = [task EXCEPT ![running].left = v]
    BY <1>3, <2>1 DEF FuncReturns, Task
  <2>. HIDE DEF v
  <2>. QED  BY <1>2, <2>2
<1>4. ASSUME FuncFinishes PROVE TaskGrows /\ Len(task') = Len(task)
  <2>. DEFINE v == 0
  <2>1. v \in Int /\ running # NoTask /\ task' = [task EXCEPT ![running].left = v]
    BY <1>4 DEF FuncFinishes
  <2>. HIDE DEF v
  <2>. QED  BY <1>2, <2>1
<1>5. ASSUME NEW n \in Names, NEW r \in Repeats, Register(n, r) PROVE TaskGrows
  BY <1>5, RegisterKeeps
<1>6. ASSUME \/ \E n \in Names : Deregister(n)
             \/ \E g \in Ids : Tick(g) \/ StopTimer(g)
             \/ FuncRaises \/ RunPosted \/ UNCHANGED vars
      PROVE  UNCHANGED task
  BY <1>6 DEF Deregister, Tick, StopTimer, FuncRaises, RunPosted, vars
<1>. QED  BY <1>1, <1>3, <1>4, <1>5, <1>6 DEF Next

\* What was asked for under a name is a registration or a removal.
LEMMA AskedKeeps ==
    ASSUME IInv, [Next]_vars
    PROVE  asked' \in [Names -> Ids \cup {NoTask}]
<1>1. /\ asked \in [Names -> Ids \cup {NoTask}] /\ task \in Seq(Task)
      /\ Len(task) \in Nat /\ MaxTasks \in Nat
  BY BoundsAssumption DEF IInv, TypeOK
<1>2. ASSUME NEW n \in Names, NEW r \in Repeats, Register(n, r) PROVE asked' \in [Names -> Ids \cup {NoTask}]
  <2>1. Len(task) + 1 \in Ids /\ asked' = [asked EXCEPT ![n] = Len(task) + 1]
    BY <1>1, <1>2 DEF Register, Ids
  <2>. QED  BY <1>1, <2>1
<1>3. ASSUME NEW n, ScheduleDeregister(n) PROVE asked' \in [Names -> Ids \cup {NoTask}]
  BY <1>1, <1>3 DEF ScheduleDeregister
<1>4. ASSUME UNCHANGED asked PROVE asked' \in [Names -> Ids \cup {NoTask}]
  BY <1>1, <1>4
<1>. QED
  BY <1>2, <1>3, <1>4
     DEF Next, Deregister, Tick, FuncFinishes, FuncRaises, FuncReturns, Conclude, StopTimer, RunPosted, vars

\* Every step of the implementation keeps the inductive invariant.
LEMMA StepKeeps == ASSUME IInv, [Next]_vars PROVE IInv'
<1>0. /\ task \in Seq(Task) /\ Len(task) \in Nat /\ Len(task) <= MaxTasks
      /\ running \in 0 .. Len(task) /\ runs \in [Ids -> Nat] /\ ended \in [Ids -> 0 .. 2]
      /\ \A g \in 1 .. Len(task) : g \in Ids
  BY BoundsAssumption DEF IInv, TypeOK, Ids
<1>1. SUFFICES /\ TaskGrows /\ Bookkeeping'
               /\ running' \in 0 .. Len(task')
               /\ runs' \in [Ids -> Nat] /\ ended' \in [Ids -> 0 .. 2]
  BY AskedKeeps DEF TaskGrows, Bookkeeping, IInv, TypeOK
<1>2. ASSUME UNCHANGED task PROVE TaskGrows
  BY <1>0, <1>2 DEF TaskGrows
<1>3. ASSUME NEW n \in Names, NEW r \in Repeats, Register(n, r)
      PROVE  /\ TaskGrows /\ Bookkeeping' /\ running' \in 0 .. Len(task')
             /\ runs' \in [Ids -> Nat] /\ ended' \in [Ids -> 0 .. 2]
  <2>1. TaskGrows /\ Bookkeeping'
    BY <1>3, RegisterKeeps
  <2>2. UNCHANGED <<running, runs, ended>> /\ Len(task') \in Nat /\ Len(task) <= Len(task')
    BY <1>3, <2>1 DEF Register, TaskGrows
  <2>. QED  BY <1>0, <2>1, <2>2
<1>4. ASSUME NEW n \in Names, Deregister(n)
      PROVE  /\ TaskGrows /\ Bookkeeping' /\ running' \in 0 .. Len(task')
             /\ runs' \in [Ids -> Nat] /\ ended' \in [Ids -> 0 .. 2]
  <2>1. ScheduleDeregister(n) /\ UNCHANGED <<task, running, runs, ended>>
    BY <1>4 DEF Deregister
  <2>. QED  BY <1>0, <1>2, <2>1, ScheduleKeeps
<1>5. ASSUME NEW g \in Ids, Tick(g)
      PROVE  /\ TaskGrows /\ Bookkeeping' /\ running' \in 0 .. Len(task')
             /\ runs' \in [Ids -> Nat] /\ ended' \in [Ids -> 0 .. 2]
  <2>. DEFINE f == current[task[g].name]
  <2>1. /\ g \in timers /\ f # NoTask /\ running' = f /\ CountRun(f)
        /\ UNCHANGED <<task, current, timers, stopping, calls, ended>>
    BY <1>5 DEF Tick
  <2>2. g \in 1 .. Len(task)
    BY <2>1 DEF IInv, TypeOK
  <2>3. task[g].name \in Names
    <3>1. task[g] \in Task
      BY <1>0, <2>2
    <3>. QED  BY <3>1 DEF Task
  <2>4. f \in 1 .. Len(task)
    BY <1>0, <2>1, <2>3, BoundsAssumption DEF IInv, TypeOK, NamesMatch, Ids, NoTask
  <2>5. TaskGrows /\ Bookkeeping'
    BY <1>2, <2>1, UntouchedKeeps
  <2>. HIDE DEF f
  <2>6. runs' \in [Ids -> Nat]
    BY <1>0, <2>1, <2>4 DEF CountRun
  <2>. QED  BY <1>0, <2>1, <2>4, <2>5, <2>6
<1>6. ASSUME FuncReturns
      PROVE  /\ TaskGrows /\ Bookkeeping' /\ running' \in 0 .. Len(task')
             /\ runs' \in [Ids -> Nat] /\ ended' \in [Ids -> 0 .. 2]
  <2>1. /\ running \in 1 .. Len(task) /\ running' = NoTask
        /\ task' = [task EXCEPT ![running].left = IF @ > 0 THEN @ - 1 ELSE @]
        /\ UNCHANGED <<current, timers, stopping, calls, runs, ended>>
    BY <1>0, <1>6 DEF FuncReturns, NoTask
  <2>2. TaskGrows
    BY StepGrows
  <2>3. Bookkeeping'
    BY <2>1, <2>2, UntouchedKeeps
  <2>4. Len(task') \in Nat
    BY <2>2 DEF TaskGrows
  <2>. QED  BY <1>0, <2>1, <2>2, <2>3, <2>4 DEF NoTask
<1>7. ASSUME FuncFinishes \/ FuncRaises
      PROVE  /\ TaskGrows /\ Bookkeeping' /\ running' \in 0 .. Len(task')
             /\ runs' \in [Ids -> Nat] /\ ended' \in [Ids -> 0 .. 2]
  <2>1. running \in 1 .. Len(task) /\ Conclude
    BY <1>0, <1>7 DEF FuncFinishes, FuncRaises, NoTask
  <2>2. TaskGrows
    BY StepGrows
  <2>3. task[running].name \in Names
    <3>1. task[running] \in Task
      BY <1>0, <2>1
    <3>. QED  BY <3>1 DEF Task
  <2>4. /\ ScheduleDeregister(task[running].name) /\ running' = NoTask
        /\ CountEnd(running) /\ UNCHANGED runs
    BY <2>1 DEF Conclude
  <2>5. Bookkeeping'
    BY <2>2, <2>3, <2>4, ScheduleKeeps
  <2>6. ended' \in [Ids -> 0 .. 2]
    BY <1>0, <2>1, <2>4 DEF CountEnd
  <2>7. Len(task') \in Nat
    BY <2>2 DEF TaskGrows
  <2>. QED  BY <1>0, <2>2, <2>4, <2>5, <2>6, <2>7 DEF NoTask
<1>8. ASSUME NEW g \in Ids, StopTimer(g)
      PROVE  /\ TaskGrows /\ Bookkeeping' /\ running' \in 0 .. Len(task')
             /\ runs' \in [Ids -> Nat] /\ ended' \in [Ids -> 0 .. 2]
  <2>1. /\ g \in stopping /\ timers' = timers \ {g} /\ stopping' = stopping \ {g}
        /\ UNCHANGED <<task, current, calls, running, runs, ended>>
    BY <1>8 DEF StopTimer
  <2>. QED
    BY <1>0, <1>2, <2>1
       DEF Bookkeeping, IInv, TypeOK, CallsWellFormed, PostedIsNew, NamesMatch,
           RegisteredIsDriven
<1>9. ASSUME RunPosted
      PROVE  /\ TaskGrows /\ Bookkeeping' /\ running' \in 0 .. Len(task')
             /\ runs' \in [Ids -> Nat] /\ ended' \in [Ids -> 0 .. 2]
  <2>1. UNCHANGED <<task, running, runs, ended>>
    BY <1>9 DEF RunPosted
  <2>. QED  BY <1>0, <1>2, <1>9, <2>1, RunPostedKeeps
<1>10. ASSUME UNCHANGED vars
       PROVE  /\ TaskGrows /\ Bookkeeping' /\ running' \in 0 .. Len(task')
              /\ runs' \in [Ids -> Nat] /\ ended' \in [Ids -> 0 .. 2]
  BY <1>0, <1>2, <1>10, UntouchedKeeps DEF vars
<1>. QED
  BY <1>3, <1>4, <1>5, <1>6, <1>7, <1>8, <1>9, <1>10 DEF Next

\* The invariant holds in every state: names, timers and posted calls agree.
THEOREM Invariance == Spec => []IInv
<1>1. Init => IInv
  BY BoundsAssumption
     DEF Init, IInv, TypeOK, CallsWellFormed, PostedIsNew, NamesMatch,
         RegisteredIsDriven, Ids, NoTask, Call, Task
<1>2. IInv /\ [Next]_vars => IInv'
  BY StepKeeps
<1>. QED  BY <1>1, <1>2, PTL DEF Spec

\* Type correctness of TimerTask, for any names, repeat counts and bounds.
THEOREM TypeCorrect == Spec => []TypeOK
<1>1. IInv => TypeOK
  BY DEF IInv
<1>. QED  BY <1>1, Invariance, PTL

\* On every editor and under every naming habit of the callers, a registered
\* task has its own running timer and nothing is about to stop that timer.
THEOREM RegisteredTasksAreDriven == Spec => []RegisteredIsDriven
<1>1. IInv => RegisteredIsDriven
  BY DEF IInv
<1>. QED  BY <1>1, Invariance, PTL

-----------------------------------------------------------------------------
(***************************************************************************)
(* On Vim, where the bookkeeping is done at once.                          *)
(***************************************************************************)
Busy(g) == IF running = g THEN 1 ELSE 0

\* A registration that has ended is neither executing nor under any name.
EndedIsGone ==
    \A g \in Ids : ended[g] > 0
        => g # running /\ \A n \in Names : current[n] # g

\* As long as it has not ended, what is left of a repeat count and the number
\* of runs add up to the count asked for.
CountsAddUp ==
    \A g \in 1 .. Len(task) : Counted(g) /\ ended[g] = 0
        => /\ task[g].left \in 1 .. task[g].repeat
           /\ runs[g] + task[g].left = task[g].repeat + Busy(g)

Unused == \A g \in Ids : g > Len(task) => runs[g] = 0 /\ ended[g] = 0

VimInv == /\ calls = <<>>
          /\ EndedIsGone
          /\ EndsOnce
          /\ CountsAddUp
          /\ RunsWithinRepeat
          /\ Unused
\* Removing on Vim takes effect at once and touches one name only.
LEMMA VimSchedule ==
    ASSUME IInv, calls = <<>>, ~Async, NEW n \in Names, ScheduleDeregister(n)
    PROVE  calls' = <<>> /\ current' = [current EXCEPT ![n] = NoTask]
<1>1. CASE current[n] = NoTask
  BY <1>1 DEF ScheduleDeregister, IInv, TypeOK
<1>2. CASE current[n] # NoTask
  <2>. DEFINE c == [op |-> "deregister", name |-> n, id |-> current[n]]
  <2>1. Perform(c) /\ calls' = calls
    BY <1>2 DEF ScheduleDeregister, Hand
  <2>2. Remove(c)
    BY <2>1 DEF Perform
  <2>. QED  BY <2>1, <2>2 DEF Remove
<1>. QED  BY <1>1, <1>2

\* Every step on Vim keeps VimInv.
LEMMA VimStep == ASSUME IInv, VimInv, ~Async, [Next]_vars PROVE VimInv'
<1>0. /\ task \in Seq(Task) /\ Len(task) \in Nat /\ Len(task) <= MaxTasks
      /\ running \in 0 .. Len(task) /\ runs \in [Ids -> Nat] /\ ended \in [Ids -> 0 .. 2]
      /\ current \in [Names -> Ids \cup {NoTask}]
      /\ \A g \in 1 .. Len(task) : g \in Ids /\ task[g] \in Task
      /\ Ids \subseteq Nat \ {0} /\ NoTask = 0 /\ MaxTasks \in Nat
  BY BoundsAssumption DEF IInv, TypeOK, Ids, NoTask
<1>1. \A n \in Names : current[n] # NoTask
         => current[n] \in 1 .. Len(task) /\ task[current[n]].name = n
  BY <1>0 DEF IInv, NamesMatch, Ids
<1>2. \A g \in 1 .. Len(task) : /\ task[g].name \in Names
                                /\ task[g].repeat \in Int /\ task[g].left \in Int
  BY <1>0, RepeatsAssumption DEF Task
<1>3. ASSUME NEW n \in Names, NEW r \in Repeats, Register(n, r) PROVE VimInv'
  <2>. DEFINE t == [name |-> n, repeat |-> r, left |-> r]
              c == [op |-> "register", name |-> n, id |-> Len(task) + 1]
  <2>1. /\ Len(task) < MaxTasks /\ task' = Append(task, t) /\ Hand(c)
        /\ UNCHANGED <<running, runs, ended>>
    BY <1>3 DEF Register
  <2>2. Perform(c) /\ calls' = <<>>
    BY <2>1 DEF Hand, VimInv
  <2>3. current' = [current EXCEPT ![n] = Len(task) + 1]
    BY <2>2 DEF Perform, Install
  <2>4. t \in Task
    BY RepeatsAssumption DEF Task
  <2>. HIDE DEF t
  <2>5. /\ Len(task') = Len(task) + 1 /\ task'[Len(task) + 1] = t
        /\ \A g \in 1 .. Len(task) : task'[g] = task[g]
    BY <1>0, <2>1, <2>4
  <2>6. t.left = r /\ t.repeat = r /\ r \in Int
    BY RepeatsAssumption DEF t
  <2>7. Len(task) + 1 \in Ids /\ Len(task) + 1 # running
    BY <1>0, <2>1 DEF Ids
  <2>8. runs[Len(task) + 1] = 0 /\ ended[Len(task) + 1] = 0
    BY <1>0, <2>7 DEF VimInv, Unused
  <2>9. EndedIsGone'
    BY <1>0, <2>1, <2>3, <2>8 DEF VimInv, EndedIsGone
  <2>10. CountsAddUp' /\ RunsWithinRepeat'
    <3>1. ASSUME NEW g \in 1 .. Len(task'), Counted(g)'
          PROVE  /\ runs'[g] <= task'[g].repeat
                 /\ ended'[g] = 0 => /\ task'[g].left \in 1 .. task'[g].repeat
                                     /\ runs'[g] + task'[g].left = task'[g].repeat + Busy(g)'
      <4>1. CASE g = Len(task) + 1
        BY <1>0, <2>1, <2>5, <2>6, <2>7, <2>8, <3>1, <4>1 DEF Counted, Busy
      <4>2. CASE g \in 1 .. Len(task)
        BY <1>0, <2>1, <2>5, <3>1, <4>2
           DEF VimInv, CountsAddUp, RunsWithinRepeat, Counted, Busy
      <4>. QED  BY <1>0, <2>5, <4>1, <4>2
    <3>. QED  BY <3>1 DEF CountsAddUp, RunsWithinRepeat
  <2>11. EndsOnce' /\ Unused'
    BY <1>0, <2>1, <2>5 DEF VimInv, EndsOnce, Unused, Ids
  <2>. QED  BY <2>2, <2>9, <2>10, <2>11 DEF VimInv
<1>4. ASSUME NEW n \in Names, Deregister(n) PROVE VimInv'
  <2>1. /\ calls' = <<>> /\ current' = [current EXCEPT ![n] = NoTask]
        /\ UNCHANGED <<task, running, runs, ended>>
    BY <1>4, VimSchedule DEF Deregister, VimInv
  <2>2. EndedIsGone'
    BY <1>0, <2>1 DEF VimInv, EndedIsGone
  <2>. QED
    BY <2>1, <2>2
       DEF VimInv, EndsOnce, CountsAddUp, RunsWithinRepeat, Counted, Unused, Busy
<1>5. ASSUME NEW g \in Ids, Tick(g) PROVE VimInv'
  <2>. DEFINE f == current[task[g].name]
  <2>1. /\ g \in timers /\ f # NoTask /\ running = NoTask /\ running' = f /\ CountRun(f)
        /\ UNCHANGED <<task, current, timers, stopping, calls, ended>>
    BY <1>5 DEF Tick
  <2>2. task[g].name \in Names
    BY <1>2, <2>1 DEF IInv, TypeOK
  <2>3. f \in 1 .. Len(task) /\ f \in Ids /\ ended[f] = 0
    <3>1. f \in 1 .. Len(task) /\ f \in Ids
      BY <1>0, <1>1, <2>1, <2>2
    <3>2. ended[f] \in 0 .. 2 /\ ~(ended[f] > 0)
      BY <1>0, <2>2, <3>1 DEF VimInv, EndedIsGone
    <3>. QED  BY <3>1, <3>2
  <2>. HIDE DEF f
  <2>4. EndedIsGone' /\ EndsOnce'
    BY <2>1, <2>3 DEF VimInv, EndedIsGone, EndsOnce
  <2>5. Counted(f) => runs[f] < task[f].repeat
    BY <1>0, <1>2, <2>1, <2>3 DEF VimInv, CountsAddUp, Counted, Busy
  <2>6. runs' = IF Counted(f) THEN [runs EXCEPT ![f] = @ + 1] ELSE runs
    BY <1>0, <1>2, <2>1, <2>3, <2>5 DEF CountRun
  <2>7. CountsAddUp' /\ RunsWithinRepeat'
    <3>1. ASSUME NEW h \in 1 .. Len(task'), Counted(h)'
          PROVE  /\ runs'[h] <= task'[h].repeat
                 /\ ended'[h] = 0 => /\ task'[h].left \in 1 .. task'[h].repeat
                                     /\ runs'[h] + task'[h].left = task'[h].repeat + Busy(h)'
      <4>1. CASE h = f
        <5>1. h \in Ids /\ h # 0 /\ runs[h] \in Nat /\ Counted(h)
          BY <1>0, <2>1, <2>3, <3>1, <4>1 DEF Counted
        <5>2. runs'[h] = runs[h] + 1
          BY <1>0, <2>6, <4>1, <5>1
        <5>3. Busy(h)' = 1 /\ Busy(h) = 0
          BY <1>0, <2>1, <4>1, <5>1 DEF Busy
        <5>4. /\ task[h].left \in 1 .. task[h].repeat
              /\ runs[h] + task[h].left = task[h].repeat
          BY <1>2, <2>3, <4>1, <5>1, <5>3 DEF VimInv, CountsAddUp
        <5>5. task' = task /\ task[h].repeat \in Int /\ task[h].left \in Int
          BY <1>2, <2>1, <2>3, <4>1
        <5>6. /\ runs'[h] <= task'[h].repeat
              /\ runs'[h] + task'[h].left = task'[h].repeat + 1
          BY <5>1, <5>2, <5>4, <5>5
        <5>. QED  BY <5>3, <5>4, <5>5, <5>6
      <4>2. CASE h # f
        <5>1. h \in 1 .. Len(task) /\ h \in Ids /\ Counted(h)
          BY <1>0, <2>1, <3>1 DEF Counted
        <5>2. runs'[h] = runs[h] /\ Busy(h)' = 0 /\ Busy(h) = 0
          BY <1>0, <2>1, <2>6, <4>2, <5>1 DEF Busy
        <5>. QED
          BY <2>1, <5>1, <5>2 DEF VimInv, CountsAddUp, RunsWithinRepeat
      <4>. QED  BY <4>1, <4>2
    <3>. QED  BY <3>1 DEF CountsAddUp, RunsWithinRepeat
  <2>8. Unused'
    BY <1>0, <2>1, <2>3, <2>6 DEF VimInv, Unused
  <2>. QED  BY <2>1, <2>4, <2>7, <2>8 DEF VimInv
<1>6. ASSUME FuncReturns PROVE VimInv'
  <2>. DEFINE l == task[running].left
              v == IF l > 0 THEN l - 1 ELSE l
              e == [task[running] EXCEPT !.left = v]
  <2>1. /\ running \in 1 .. Len(task) /\ l # 1 /\ running' = NoTask
        /\ task' = [task EXCEPT ![running] = e]
        /\ UNCHANGED <<current, timers, stopping, calls, runs, ended>>
    BY <1>0, <1>6 DEF FuncReturns
  <2>2. task[running] \in Task /\ e \in Task /\ l \in Int /\ v \in Int
    <3>1. task[running] \in Task
      BY <1>0, <2>1
    <3>2. l \in Int /\ v \in Int
      BY <3>1 DEF Task
    <3>. QED  BY <3>1, <3>2 DEF Task
  <2>3. e.name = task[running].name /\ e.repeat = task[running].repeat /\ e.left = v
    BY <2>2 DEF Task
  <2>4. l > 0 => v = l - 1
    OBVIOUS
  <2>. HIDE DEF e, v
  <2>5. /\ Len(task') = Len(task) /\ task'[running] = e
        /\ \A g \in 1 .. Len(task) : g # running => task'[g] = task[g]
    BY <1>0, <2>1, <2>2
  <2>6. CountsAddUp' /\ RunsWithinRepeat'
    <3>1. ASSUME NEW h \in 1 .. Len(task'), Counted(h)'
          PROVE  /\ runs'[h] <= task'[h].repeat
                 /\ ended'[h] = 0 => /\ task'[h].left \in 1 .. task'[h].repeat
                                     /\ runs'[h] + task'[h].left = task'[h].repeat + Busy(h)'
      <4>1. CASE h = running
        <5>1. Counted(h) /\ h \in 1 .. Len(task) /\ task'[h].repeat = task[h].repeat
          BY <2>3, <2>5, <3>1, <4>1 DEF Counted
        <5>2. ended[h] = 0
          BY <1>0, <2>1, <4>1 DEF VimInv, EndedIsGone
        <5>3. l \in 1 .. task[h].repeat /\ runs[h] + l = task[h].repeat + 1
          BY <4>1, <5>1, <5>2 DEF VimInv, CountsAddUp, Busy
        <5>4. task'[h].left = l - 1
          BY <2>2, <2>3, <2>4, <2>5, <4>1, <5>3
        <5>5. l # 1 /\ runs' = runs /\ Busy(h)' = 0 /\ runs[h] \in Nat /\ l \in Int
          BY <1>0, <2>1, <2>2, <4>1 DEF Busy
        <5>6. runs[h] <= task[h].repeat /\ task[h].repeat \in Int
          BY <1>2, <5>1 DEF VimInv, RunsWithinRepeat
        <5>. HIDE DEF l
        <5>7. l - 1 \in 1 .. task[h].repeat /\ runs[h] + (l - 1) = task[h].repeat + 0
          <6>. DEFINE p == task[h].repeat  u == runs[h]
          <6>1. l \in 1 .. p /\ u + l = p + 1 /\ l # 1 /\ l \in Int /\ u \in Nat /\ p \in Int
            BY <5>3, <5>5, <5>6
          <6>. HIDE DEF p, u
          <6>2. l - 1 \in 1 .. p /\ u + (l - 1) = p + 0
            BY ONLY <6>1
          <6>. QED  BY <6>2 DEF p, u
        <5>. QED  BY <5>1, <5>4, <5>5, <5>6, <5>7
      <4>2. CASE h # running
        BY <1>0, <1>2, <2>1, <2>5, <3>1, <4>2
           DEF VimInv, CountsAddUp, RunsWithinRepeat, Counted, Busy
      <4>. QED  BY <4>1, <4>2
    <3>. QED  BY <3>1 DEF CountsAddUp, RunsWithinRepeat
  <2>7. EndedIsGone' /\ EndsOnce' /\ Unused'
    BY <1>0, <2>1, <2>5 DEF VimInv, EndedIsGone, EndsOnce, Unused
  <2>. QED  BY <2>1, <2>6, <2>7 DEF VimInv
<1>7. ASSUME FuncFinishes \/ FuncRaises PROVE VimInv'
  <2>1. running \in 1 .. Len(task) /\ Conclude
    BY <1>0, <1>7 DEF FuncFinishes, FuncRaises
  <2>2. /\ Len(task') = Len(task) /\ task'[running].repeat = task[running].repeat
        /\ \A g \in 1 .. Len(task) : g # running => task'[g] = task[g]
    <3>1. CASE FuncRaises
      BY <3>1 DEF FuncRaises
    <3>2. CASE FuncFinishes
      <4>. DEFINE e == [task[running] EXCEPT !.left = 0]
      <4>1. task' = [task EXCEPT ![running] = e]
        BY <3>2 DEF FuncFinishes
      <4>2. task[running] \in Task
        BY <1>0, <2>1
      <4>3. e.repeat = task[running].repeat
        BY <4>2 DEF Task
      <4>. HIDE DEF e
      <4>. QED  BY <1>0, <2>1, <4>1, <4>3
    <3>. QED  BY <1>7, <3>1, <3>2
  <2>3. /\ ScheduleDeregister(task[running].name) /\ CountEnd(running)
        /\ running' = NoTask /\ UNCHANGED runs
    BY <2>1 DEF Conclude
  <2>4. calls' = <<>> /\ current' = [current EXCEPT ![task[running].name] = NoTask]
    BY <1>2, <2>1, <2>3, VimSchedule DEF VimInv
  <2>5. ended[running] = 0 /\ ended' = [ended EXCEPT ![running] = 1]
    <3>1. running \in Ids /\ ended[running] \in 0 .. 2
      BY <1>0, <2>1
    <3>2. ~(ended[running] > 0)
      BY <3>1 DEF VimInv, EndedIsGone
    <3>3. ended[running] = 0
      BY <3>1, <3>2
    <3>. QED  BY <1>0, <2>3, <3>1, <3>3 DEF CountEnd
  <2>6. EndedIsGone'
    <3>1. \A n \in Names : current'[n] # running
      BY <1>0, <1>1, <1>2, <2>1, <2>4
    <3>. QED  BY <1>0, <2>1, <2>3, <2>4, <2>5, <3>1 DEF VimInv, EndedIsGone
  <2>7. EndsOnce' /\ Unused'
    BY <1>0, <2>1, <2>2, <2>3, <2>5 DEF VimInv, EndsOnce, Unused
  <2>8. CountsAddUp' /\ RunsWithinRepeat'
    <3>1. ASSUME NEW h \in 1 .. Len(task'), Counted(h)'
          PROVE  /\ runs'[h] <= task'[h].repeat
                 /\ ended'[h] = 0 => /\ task'[h].left \in 1 .. task'[h].repeat
                                     /\ runs'[h] + task'[h].left = task'[h].repeat + Busy(h)'
      <4>1. CASE h = running
        BY <1>0, <2>1, <2>2, <2>3, <2>5, <3>1, <4>1
           DEF VimInv, RunsWithinRepeat, Counted
      <4>2. CASE h # running
        BY <1>0, <1>2, <2>1, <2>2, <2>3, <2>5, <3>1, <4>2
           DEF VimInv, CountsAddUp, RunsWithinRepeat, Counted, Busy
      <4>. QED  BY <4>1, <4>2
    <3>. QED  BY <3>1 DEF CountsAddUp, RunsWithinRepeat
  <2>. QED  BY <2>4, <2>6, <2>7, <2>8 DEF VimInv
<1>8. ASSUME \/ \E g \in Ids : StopTimer(g)
             \/ UNCHANGED vars
      PROVE  VimInv'
  BY <1>8 DEF StopTimer, vars, VimInv, EndedIsGone, EndsOnce, CountsAddUp,
              RunsWithinRepeat, Counted, Unused, Busy
<1>9. ~RunPosted
  BY DEF RunPosted, VimInv
<1>. QED
  BY <1>3, <1>4, <1>5, <1>6, <1>7, <1>8, <1>9 DEF Next

\* On Vim a task with a repeat count is never started more often than asked:
\* execute_oneshot runs its function once, however ticks, callers and the
\* function itself interleave, and even when names are reused.
THEOREM VimRunsWithinRepeat == ASSUME ~Async PROVE Spec => []RunsWithinRepeat
<1>1. Init => VimInv
  BY BoundsAssumption DEF Init, VimInv, EndedIsGone, EndsOnce, CountsAddUp,
     RunsWithinRepeat, Unused
<1>2. IInv /\ VimInv /\ [Next]_vars => VimInv'
  BY VimStep
<1>3. VimInv => RunsWithinRepeat
  BY DEF VimInv
<1>. QED  BY <1>1, <1>2, <1>3, Invariance, PTL DEF Spec

\* On Vim the end of a registration is reported once.
THEOREM VimEndsOnce == ASSUME ~Async PROVE Spec => []EndsOnce
<1>1. Init => VimInv
  BY BoundsAssumption DEF Init, VimInv, EndedIsGone, EndsOnce, CountsAddUp,
     RunsWithinRepeat, Unused
<1>2. IInv /\ VimInv /\ [Next]_vars => VimInv'
  BY VimStep
<1>3. VimInv => EndsOnce
  BY DEF VimInv
<1>. QED  BY <1>1, <1>2, <1>3, Invariance, PTL DEF Spec
-----------------------------------------------------------------------------
(***************************************************************************)
(* Callers that never use a name twice, and callers that ask first.        *)
(***************************************************************************)
\* No two registrations were made under one name.
Sole == \A g, h \in 1 .. Len(task) : task[g].name = task[h].name => g = h

\* A caller with a counter for its names (AUTONAME) keeps them apart.
LEMMA SoleStep ==
    ASSUME Naming = "fresh", IInv, Sole, [Next]_vars
    PROVE  Sole'
<1>1. task \in Seq(Task) /\ Len(task) \in Nat
  BY DEF IInv, TypeOK
<1>2. /\ TaskGrows
      /\ \/ \E n \in Names, r \in Repeats : Register(n, r)
         \/ Len(task') = Len(task)
  BY StepGrows
<1>3. CASE Len(task') = Len(task)
  BY <1>1, <1>2, <1>3 DEF TaskGrows, Sole
<1>4. ASSUME NEW n \in Names, NEW r \in Repeats, Register(n, r)
      PROVE  Sole'
  <2>. DEFINE t == [name |-> n, repeat |-> r, left |-> r]
  <2>1. task' = Append(task, t) /\ \A g \in 1 .. Len(task) : task[g].name # n
    BY <1>4 DEF Register, MayRegister
  <2>2. t.name = n
    OBVIOUS
  <2>. HIDE DEF t
  <2>3. /\ Len(task') = Len(task) + 1 /\ task'[Len(task) + 1] = t
        /\ \A g \in 1 .. Len(task) : task'[g] = task[g]
    BY <1>1, <2>1
  <2>. QED  BY <1>1, <2>1, <2>2, <2>3 DEF Sole
<1>. QED  BY <1>2, <1>3, <1>4

\* What keeps the timers and the names together, whichever step does it.
LEMMA ClaimedNames ==
    ASSUME IInv, NoStrayTimer, TaskGrows, UNCHANGED <<current, timers, stopping>>
    PROVE  NoStrayTimer'
BY DEF IInv, TypeOK, TaskGrows, NoStrayTimer

LEMMA InstallStraysNot ==
    ASSUME IInv, NoStrayTimer, TaskGrows, NEW c \in Call, Install(c),
           task'[c.id].name = c.name,
           \A g \in timers \ stopping : task[g].name # c.name
    PROVE  NoStrayTimer'
<1>1. /\ current \in [Names -> Ids \cup {NoTask}] /\ c.name \in Names
      /\ timers \subseteq 1 .. Len(task)
      /\ \A g \in timers : task'[g].name = task[g].name
  BY DEF IInv, TypeOK, TaskGrows, Call
<1>2. /\ current' = [current EXCEPT ![c.name] = c.id]
      /\ timers' = timers \cup {c.id} /\ stopping' = stopping
  BY DEF Install
<1>. QED  BY <1>1, <1>2 DEF NoStrayTimer

LEMMA RemoveStraysNot ==
    ASSUME IInv, NoStrayTimer, TaskGrows, NEW c \in Call, Remove(c),
           \A g \in timers \ stopping : task[g].name = c.name => g = c.id
    PROVE  NoStrayTimer'
<1>1. /\ current \in [Names -> Ids \cup {NoTask}] /\ c.name \in Names
      /\ timers \subseteq 1 .. Len(task)
      /\ \A g \in timers : task'[g].name = task[g].name
  BY DEF IInv, TypeOK, TaskGrows, Call
<1>2. /\ current' = [current EXCEPT ![c.name] = NoTask]
      /\ timers' = timers /\ stopping' = stopping \cup ({c.id} \cap timers)
  BY DEF Remove
<1>. QED  BY <1>1, <1>2 DEF NoStrayTimer

LEMMA ScheduleStraysNot ==
    ASSUME IInv, NoStrayTimer, TaskGrows, NEW n \in Names, ScheduleDeregister(n)
    PROVE  NoStrayTimer'
<1>. DEFINE c == [op |-> "deregister", name |-> n, id |-> current[n]]
<1>1. CASE UNCHANGED <<current, timers, stopping>>
  BY <1>1, ClaimedNames
<1>2. CASE current[n] # NoTask /\ Perform(c)
  <2>1. c \in Call /\ Remove(c)
    BY <1>2 DEF Perform, IInv, TypeOK, Call
  <2>2. \A g \in timers \ stopping : task[g].name = c.name => g = c.id
    BY DEF NoStrayTimer
  <2>. HIDE DEF c
  <2>. QED  BY <2>1, <2>2, RemoveStraysNot
<1>. QED  BY <1>1, <1>2 DEF ScheduleDeregister, Hand

\* A posted call finds no other timer under its name when names are fresh.
LEMMA PostedStraysNot ==
    ASSUME IInv, Sole, NoStrayTimer, TaskGrows, RunPosted
    PROVE  NoStrayTimer'
<1>1. /\ calls \in Seq(Call) /\ Len(calls) \in Nat /\ Len(task) \in Nat /\ task' = task
      /\ timers \subseteq 1 .. Len(task) /\ calls # <<>> /\ Perform(Head(calls))
  BY DEF IInv, TypeOK, RunPosted
<1>2. Head(calls) = calls[1] /\ 1 \in 1 .. Len(calls) /\ calls[1] \in Call
  BY <1>1
<1>3. calls[1].id \in 1 .. Len(task) /\ task[calls[1].id].name = calls[1].name
  BY <1>1, <1>2, BoundsAssumption DEF IInv, CallsWellFormed, Call, Ids
<1>4. \A g \in timers \ stopping : task[g].name = calls[1].name => g = calls[1].id
  BY <1>1, <1>3 DEF Sole
<1>5. CASE calls[1].op = "register" /\ Install(calls[1])
  <2>1. calls[1].id \notin timers
    BY <1>2, <1>5 DEF IInv, PostedIsNew
  <2>2. \A g \in timers \ stopping : task[g].name # calls[1].name
    BY <1>4, <2>1
  <2>. QED  BY <1>1, <1>2, <1>3, <1>5, <2>2, InstallStraysNot
<1>6. CASE Remove(calls[1])
  BY <1>2, <1>4, <1>6, RemoveStraysNot
<1>. QED  BY <1>1, <1>2, <1>5, <1>6 DEF Perform

LEMMA RegisterStraysNot ==
    ASSUME Naming # "any", IInv, NoStrayTimer, TaskGrows,
           NEW n \in Names, NEW r \in Repeats, Register(n, r)
    PROVE  NoStrayTimer'
<1>. DEFINE t == [name |-> n, repeat |-> r, left |-> r]
            c == [op |-> "register", name |-> n, id |-> Len(task) + 1]
<1>1. /\ task \in Seq(Task) /\ Len(task) \in Nat /\ Len(task) < MaxTasks
      /\ timers \subseteq 1 .. Len(task)
      /\ task' = Append(task, t) /\ Hand(c) /\ MayRegister(n)
  BY DEF Register, IInv, TypeOK
<1>2. CASE UNCHANGED <<current, timers, stopping>>
  BY <1>2, ClaimedNames
<1>3. CASE Perform(c)
  <2>1. c \in Call /\ Install(c)
    BY <1>1, <1>3, BoundsAssumption DEF Perform, Call, Ids
  <2>2. task'[c.id].name = c.name
    BY <1>1
  <2>3. \A g \in timers \ stopping : task[g].name # n
    <3>1. CASE Naming = "fresh"
      BY <1>1, <3>1 DEF MayRegister
    <3>2. CASE Naming = "checked"
      BY <1>1, <3>2 DEF MayRegister, IsRegistered, NoStrayTimer, NoTask
    <3>. QED  BY <3>1, <3>2, FlagsAssumption
  <2>4. c.name = n
    OBVIOUS
  <2>. HIDE DEF c
  <2>. QED  BY <2>1, <2>2, <2>3, <2>4, InstallStraysNot
<1>. QED  BY <1>1, <1>2, <1>3 DEF Hand

LEMMA StrayStep ==
    ASSUME IInv, NoStrayTimer, [Next]_vars,
           Naming # "any", calls = <<>> \/ Sole
    PROVE  NoStrayTimer'
<1>1. TaskGrows
  BY StepGrows
<1>2. /\ task \in Seq(Task) /\ running \in 0 .. Len(task) /\ timers \subseteq 1 .. Len(task)
      /\ running # NoTask => task[running].name \in Names
  <2>1. task \in Seq(Task) /\ running \in 0 .. Len(task) /\ timers \subseteq 1 .. Len(task)
    BY DEF IInv, TypeOK
  <2>2. running # NoTask => task[running] \in Task
    BY <2>1 DEF NoTask
  <2>. QED  BY <2>1, <2>2 DEF Task
<1>3. ASSUME NEW n \in Names, NEW r \in Repeats, Register(n, r) PROVE NoStrayTimer'
  BY <1>1, <1>3, RegisterStraysNot
<1>4. ASSUME NEW n \in Names, Deregister(n) PROVE NoStrayTimer'
  BY <1>1, <1>4, ScheduleStraysNot DEF Deregister
<1>5. ASSUME FuncFinishes \/ FuncRaises PROVE NoStrayTimer'
  BY <1>1, <1>2, <1>5, ScheduleStraysNot DEF FuncFinishes, FuncRaises, Conclude
<1>6. ASSUME NEW g \in Ids, StopTimer(g) PROVE NoStrayTimer'
  BY <1>2, <1>6 DEF StopTimer, NoStrayTimer
<1>7. ASSUME RunPosted PROVE NoStrayTimer'
  BY <1>1, <1>7, PostedStraysNot DEF RunPosted
<1>8. ASSUME \/ \E g \in Ids : Tick(g)
             \/ FuncReturns \/ UNCHANGED vars
      PROVE  NoStrayTimer'
  <2>1. UNCHANGED <<current, timers, stopping>>
    BY <1>8 DEF Tick, FuncReturns, vars
  <2>. QED  BY <1>1, <2>1, ClaimedNames
<1>. QED  BY <1>3, <1>4, <1>5, <1>6, <1>7, <1>8 DEF Next

\* No timer is left behind to drive a later task a second time: on every editor
\* when names are fresh, on Vim also when callers only ask is_registered first.
THEOREM NoTimerStrays ==
    ASSUME Naming = "fresh" \/ (~Async /\ Naming = "checked")
    PROVE  Spec => []NoStrayTimer
<1>1. Init => NoStrayTimer
  BY DEF Init, NoStrayTimer
<1>2. CASE Naming = "fresh"
  <2>1. Init => Sole
    BY DEF Init, Sole
  <2>2. IInv /\ Sole /\ [Next]_vars => Sole'
    BY <1>2, SoleStep
  <2>3. IInv /\ Sole /\ NoStrayTimer /\ [Next]_vars => NoStrayTimer'
    BY <1>2, StrayStep
  <2>. QED  BY <1>1, <2>1, <2>2, <2>3, Invariance, PTL DEF Spec
<1>3. CASE ~Async /\ Naming = "checked"
  <2>1. Init => VimInv
    BY BoundsAssumption DEF Init, VimInv, EndedIsGone, EndsOnce, CountsAddUp,
       RunsWithinRepeat, Unused
  <2>2. IInv /\ VimInv /\ [Next]_vars => VimInv'
    BY <1>3, VimStep
  <2>3. IInv /\ VimInv /\ NoStrayTimer /\ [Next]_vars => NoStrayTimer'
    BY <1>3, StrayStep DEF VimInv
  <2>. QED  BY <1>1, <2>1, <2>2, <2>3, Invariance, PTL DEF Spec
<1>. QED  BY <1>2, <1>3
-----------------------------------------------------------------------------
(***************************************************************************)
(* Registrations and removals come out as they were asked for.             *)
(***************************************************************************)
\* What a call makes of its name.
Effect(c) == IF c.op = "register" THEN c.id ELSE NoTask

\* The i-th posted call is the last one about n.
IsLastOn(n, i) ==
    calls[i].name = n /\ \A j \in 1 .. Len(calls) : i < j => calls[j].name # n

\* What was asked for last under a name is what its last posted call makes of it, or
\* what the name has when none is posted.
LastWord ==
    /\ ~Async => calls = <<>>
    /\ \A n \in Names :
           /\ (\A i \in 1 .. Len(calls) : calls[i].name # n) => current[n] = asked[n]
           /\ \A i \in 1 .. Len(calls) : IsLastOn(n, i) => asked[n] = Effect(calls[i])

\* A call that is performed gives its name what it is to have, and no other name.
LEMMA PerformGives ==
    ASSUME IInv, NEW c \in Call, Perform(c)
    PROVE  current' = [current EXCEPT ![c.name] = Effect(c)]
BY DEF Perform, Install, Remove, Effect, Call

\* A call that is handed over has the last word on its name.
LEMMA HandSays ==
    ASSUME IInv, LastWord, NEW c \in Call, Hand(c),
           asked' = [asked EXCEPT ![c.name] = Effect(c)]
    PROVE  LastWord'
<1>1. /\ calls \in Seq(Call) /\ Len(calls) \in Nat /\ c.name \in Names
      /\ current \in [Names -> Ids \cup {NoTask}] /\ asked \in [Names -> Ids \cup {NoTask}]
  BY DEF IInv, TypeOK, Call
<1>2. CASE ~Async
  <2>1. Perform(c) /\ calls' = calls /\ calls = <<>>
    BY <1>2 DEF Hand, LastWord
  <2>2. current' = [current EXCEPT ![c.name] = Effect(c)]
    BY <2>1, PerformGives
  <2>3. \A n \in Names : current[n] = asked[n]
    BY <2>1 DEF LastWord
  <2>. QED  BY <1>1, <2>1, <2>2, <2>3 DEF LastWord
<1>3. CASE Async
  <2>1. calls' = Append(calls, c) /\ current' = current
    BY <1>3 DEF Hand
  <2>2. /\ Len(calls') = Len(calls) + 1 /\ calls'[Len(calls) + 1] = c
        /\ \A i \in 1 .. Len(calls) : calls'[i] = calls[i]
    BY <1>1, <2>1
  <2>3. ASSUME NEW n \in Names, \A i \in 1 .. Len(calls') : calls'[i].name # n
        PROVE  current'[n] = asked'[n]
    <3>1. n # c.name /\ \A i \in 1 .. Len(calls) : calls[i].name # n
      BY <1>1, <2>2, <2>3
    <3>. QED  BY <1>1, <2>1, <3>1 DEF LastWord
  <2>4. ASSUME NEW n \in Names, NEW i \in 1 .. Len(calls'), IsLastOn(n, i)'
        PROVE  asked'[n] = Effect(calls'[i])
    <3>1. CASE i = Len(calls) + 1
      BY <1>1, <2>2, <2>4, <3>1 DEF IsLastOn
    <3>2. CASE i # Len(calls) + 1
      <4>1. i \in 1 .. Len(calls) /\ i < Len(calls) + 1 /\ n # c.name
        BY <1>1, <2>2, <2>4, <3>2 DEF IsLastOn
      <4>2. IsLastOn(n, i)
        BY <1>1, <2>2, <2>4, <4>1 DEF IsLastOn
      <4>. QED  BY <1>1, <2>2, <4>1, <4>2 DEF LastWord
    <3>. QED  BY <3>1, <3>2
  <2>. QED  BY <1>3, <2>3, <2>4 DEF LastWord
<1>. QED  BY <1>2, <1>3

\* The editor's loop takes the oldest call: the later ones keep the last word.
LEMMA RunPostedSays == ASSUME IInv, LastWord, RunPosted PROVE LastWord'
<1>. DEFINE c == Head(calls)
<1>1. /\ calls \in Seq(Call) /\ Len(calls) \in Nat /\ calls # <<>> /\ calls' = Tail(calls)
      /\ current \in [Names -> Ids \cup {NoTask}] /\ asked' = asked /\ Perform(c)
  BY DEF IInv, TypeOK, RunPosted
<1>2. /\ Len(calls') = Len(calls) - 1 /\ Len(calls) >= 1 /\ c = calls[1] /\ c \in Call
      /\ \A i \in 1 .. Len(calls') : calls'[i] = calls[i + 1]
  BY <1>1
<1>. HIDE DEF c
<1>3. c.name \in Names /\ current' = [current EXCEPT ![c.name] = Effect(c)]
  BY <1>1, <1>2, PerformGives DEF Call
<1>4. Async
  BY <1>1 DEF LastWord
<1>5. ASSUME NEW n \in Names, \A i \in 1 .. Len(calls') : calls'[i].name # n
      PROVE  current'[n] = asked'[n]
  <2>1. \A j \in 1 .. Len(calls) : 1 < j => calls[j].name # n
    <3>. SUFFICES ASSUME NEW j \in 1 .. Len(calls), 1 < j PROVE calls[j].name # n
      OBVIOUS
    <3>1. j - 1 \in 1 .. Len(calls') /\ (j - 1) + 1 = j
      BY <1>1, <1>2
    <3>. QED  BY <1>2, <1>5, <3>1
  <2>2. CASE c.name = n
    <3>1. IsLastOn(n, 1) /\ 1 \in 1 .. Len(calls)
      BY <1>1, <1>2, <2>1, <2>2 DEF IsLastOn
    <3>. QED  BY <1>1, <1>2, <1>3, <2>2, <3>1 DEF LastWord
  <2>3. CASE c.name # n
    <3>1. \A i \in 1 .. Len(calls) : calls[i].name # n
      BY <1>1, <1>2, <2>1, <2>3
    <3>. QED  BY <1>1, <1>3, <2>3, <3>1 DEF LastWord
  <2>. QED  BY <2>2, <2>3
<1>6. ASSUME NEW n \in Names, NEW i \in 1 .. Len(calls'), IsLastOn(n, i)'
      PROVE  asked'[n] = Effect(calls'[i])
  <2>1. i + 1 \in 1 .. Len(calls) /\ calls'[i] = calls[i + 1]
    BY <1>1, <1>2
  <2>2. ASSUME NEW j \in 1 .. Len(calls), i + 1 < j PROVE calls[j].name # n
    <3>1. j - 1 \in 1 .. Len(calls') /\ (j - 1) + 1 = j /\ i < j - 1
      BY <1>1, <1>2, <2>2
    <3>. QED  BY <1>2, <1>6, <3>1 DEF IsLastOn
  <2>3. IsLastOn(n, i + 1)
    BY <1>6, <2>1, <2>2 DEF IsLastOn
  <2>. QED  BY <1>1, <2>1, <2>3 DEF LastWord
<1>. QED  BY <1>4, <1>5, <1>6 DEF LastWord

\* Every step keeps it.
LEMMA LastWordStep == ASSUME IInv, LastWord, [Next]_vars PROVE LastWord'
<1>1. task \in Seq(Task) /\ Len(task) \in Nat /\ current \in [Names -> Ids \cup {NoTask}]
  BY DEF IInv, TypeOK
<1>2. ASSUME NEW n \in Names, NEW r \in Repeats, Register(n, r) PROVE LastWord'
  <2>. DEFINE c == [op |-> "register", name |-> n, id |-> Len(task) + 1]
  <2>1. c \in Call /\ Effect(c) = Len(task) + 1 /\ c.name = n
    BY <1>1, <1>2, BoundsAssumption DEF Register, Call, Ids, Effect
  <2>2. Hand(c) /\ asked' = [asked EXCEPT ![n] = Len(task) + 1]
    BY <1>2 DEF Register
  <2>. HIDE DEF c
  <2>3. asked' = [asked EXCEPT ![c.name] = Effect(c)]
    BY <2>1, <2>2
  <2>. QED  BY <2>1, <2>2, <2>3, HandSays
<1>3. ASSUME NEW n \in Names, ScheduleDeregister(n) PROVE LastWord'
  <2>1. CASE current[n] = NoTask
    <3>1. UNCHANGED <<current, calls, asked>>
      BY <1>3, <2>1 DEF ScheduleDeregister
    <3>. QED  BY <3>1 DEF LastWord, IsLastOn
  <2>2. CASE current[n] # NoTask
    <3>. DEFINE c == [op |-> "deregister", name |-> n, id |-> current[n]]
    <3>1. c \in Call /\ Effect(c) = NoTask /\ c.name = n
      BY <1>1, <2>2 DEF Call, Effect
    <3>2. Hand(c) /\ asked' = [asked EXCEPT ![n] = NoTask]
      BY <1>3, <2>2 DEF ScheduleDeregister
    <3>. HIDE DEF c
    <3>3. asked' = [asked EXCEPT ![c.name] = Effect(c)]
      BY <3>1, <3>2
    <3>. QED  BY <3>1, <3>2, <3>3, HandSays
  <2>. QED  BY <2>1, <2>2
<1>4. ASSUME UNCHANGED <<current, calls, asked>> PROVE LastWord'
  BY <1>4 DEF LastWord, IsLastOn
<1>5. ASSUME FuncFinishes \/ FuncRaises PROVE LastWord'
  <2>1. running \in 1 .. Len(task) /\ ScheduleDeregister(task[running].name)
    BY <1>1, <1>5 DEF FuncFinishes, FuncRaises, Conclude, IInv, TypeOK, NoTask
  <2>2. task[running].name \in Names
    <3>1. task[running] \in Task
      BY <1>1, <2>1
    <3>. QED  BY <3>1 DEF Task
  <2>. QED  BY <1>3, <2>1, <2>2
<1>6. CASE RunPosted
  BY <1>6, RunPostedSays
<1>. QED
  BY <1>2, <1>3, <1>4, <1>5, <1>6 DEF Next, Deregister, Tick, FuncReturns, StopTimer, vars

\* Whatever is registered and removed under a name, and by whom: when nothing is
\* posted, the name has what was asked for last, on every editor.
THEOREM LastWordIsKept == Spec => []LastWordHolds
<1>1. Init => LastWord
  BY DEF Init, LastWord
<1>2. IInv /\ LastWord /\ [Next]_vars => LastWord'
  BY LastWordStep
<1>3. IInv /\ LastWord => LastWordHolds
  BY DEF LastWord, LastWordHolds, IInv, TypeOK
<1>. QED  BY <1>1, <1>2, <1>3, Invariance, PTL DEF Spec

-----------------------------------------------------------------------------
(***************************************************************************)
(* On Vim the timer tasks implement TimerPromise.                          *)
(***************************************************************************)
Phase  == [g \in Ids |-> PhaseOf(g)]
Wanted == [g \in Ids |-> IF g <= Len(task) THEN task[g].repeat ELSE 0]

\* Whoever holds a name: one registration or none.
Holder(n) == {current[n]} \ {NoTask}

\* The cases of PhaseOf, as facts.
Phases ==
    \A g \in Ids :
        /\ g > Len(task) => PhaseOf(g) = "new"
        /\ g <= Len(task) /\ ended[g] > 0 => PhaseOf(g) = "ended"
        /\ g <= Len(task) /\ ended[g] = 0 /\ current[task[g].name] = g
              => PhaseOf(g) = "armed"
        /\ g <= Len(task) /\ ended[g] = 0 /\ current[task[g].name] # g
              => PhaseOf(g) = "dropped"

LEMMA PhasesHold == IInv => Phases
<1>. SUFFICES ASSUME IInv PROVE Phases
  OBVIOUS
<1>1. /\ Len(task) \in Nat /\ ended \in [Ids -> 0 .. 2]
      /\ \A g \in Ids : g \in Nat
  BY BoundsAssumption DEF IInv, TypeOK, Ids
<1>. SUFFICES ASSUME NEW g \in Ids
              PROVE  /\ g > Len(task) => PhaseOf(g) = "new"
                     /\ g <= Len(task) /\ ended[g] > 0 => PhaseOf(g) = "ended"
                     /\ g <= Len(task) /\ ended[g] = 0 /\ current[task[g].name] = g
                           => PhaseOf(g) = "armed"
                     /\ g <= Len(task) /\ ended[g] = 0 /\ current[task[g].name] # g
                           => PhaseOf(g) = "dropped"
  BY DEF Phases
<1>. QED  BY <1>1 DEF PhaseOf

\* The holder of a name can be dropped.
LEMMA HolderIsArmed ==
    ASSUME IInv, VimInv, NEW n \in Names
    PROVE  Holder(n) \in Promise!Victims
<1>1. ASSUME NEW g \in Holder(n) PROVE g \in Ids /\ PhaseOf(g) = "armed"
  <2>1. /\ g = current[n] /\ g # NoTask /\ g \in Ids /\ ended \in [Ids -> 0 .. 2]
        /\ g <= Len(task) /\ task[g].name = n
    BY DEF IInv, TypeOK, NamesMatch, Holder
  <2>2. ended[g] = 0
    BY <2>1 DEF VimInv, EndedIsGone
  <2>. QED  BY <2>1, <2>2, PhasesHold DEF Phases
<1>2. Holder(n) \subseteq Promise!Armed
  BY <1>1 DEF Promise!Armed, Promise!Ids, Ids
<1>. QED  BY <1>2 DEF Promise!Victims, Holder

\* What giving a name away does to the phase of a registration that neither
\* gets it nor ends in the same step.
LEMMA PhaseAfter ==
    ASSUME IInv, VimInv, IInv', NEW n \in Names,
           NEW h \in Ids, NEW v, v # h, current' = [current EXCEPT ![n] = v],
           TaskGrows, h <= Len(task') => h <= Len(task), ended'[h] = ended[h]
    PROVE  PhaseOf(h)' = IF h \in Holder(n) THEN "dropped" ELSE PhaseOf(h)
<1>1. /\ Len(task) \in Nat /\ Len(task') \in Nat /\ Len(task) <= Len(task')
      /\ h \in Nat /\ h # NoTask /\ ended[h] \in 0 .. 2
      /\ task \in Seq(Task) /\ current \in [Names -> Ids \cup {NoTask}]
  <2>1. task' \in Seq(Task) /\ Len(task) <= Len(task')
    BY DEF TaskGrows
  <2>2. /\ task \in Seq(Task) /\ current \in [Names -> Ids \cup {NoTask}]
        /\ ended[h] \in 0 .. 2
    BY ONLY IInv, h \in Ids DEF IInv, TypeOK
  <2>3. h \in Nat /\ h # NoTask
    BY BoundsAssumption DEF Ids, NoTask
  <2>. QED  BY <2>1, <2>2, <2>3
<1>2. Phases /\ Phases'
  <2>1. IInv' => Phases'
    BY PhasesHold, PTL
  <2>. QED  BY <2>1, PhasesHold
<1>3. CASE h > Len(task)
  <2>1. h \notin Holder(n)
    BY <1>1, <1>3 DEF IInv, NamesMatch, Holder
  <2>. QED  BY <1>1, <1>2, <1>3, <2>1 DEF Phases
<1>4. CASE h <= Len(task) /\ ended[h] > 0
  <2>1. h \notin Holder(n)
    BY <1>4 DEF VimInv, EndedIsGone, Holder
  <2>. QED  BY <1>1, <1>2, <1>4, <2>1 DEF Phases
<1>5. CASE h <= Len(task) /\ ended[h] = 0
  <2>1. task[h] \in Task /\ h \in 1 .. Len(task)
    BY <1>1, <1>5 DEF Ids, NoTask
  <2>2. task'[h].name = task[h].name /\ task[h].name \in Names
    BY <2>1 DEF TaskGrows, Task
  <2>3. h \in Holder(n) => task[h].name = n
    BY DEF Holder, IInv, NamesMatch
  <2>4. CASE task[h].name = n
    BY <1>1, <1>2, <1>5, <2>2, <2>4 DEF Phases, Holder
  <2>5. CASE task[h].name # n
    BY <1>1, <1>2, <1>5, <2>2, <2>3, <2>5 DEF Phases
  <2>. QED  BY <2>4, <2>5
<1>. QED  BY <1>1, <1>3, <1>4, <1>5

LEMMA ArmIsNext ==
    ASSUME NEW g \in Promise!Ids, NEW r \in Repeats, NEW D \in Promise!Victims,
           Promise!Arm(g, r, D)
    PROVE  Promise!Next
BY DEF Promise!Next, Promise!Arm

\* A new registration is armed; the earlier holder of its name is dropped.
LEMMA RegisterArms ==
    ASSUME ~Async, IInv, VimInv, IInv', NEW n \in Names, NEW r \in Repeats, Register(n, r)
    PROVE  Promise!Next
<1>. DEFINE t == [name |-> n, repeat |-> r, left |-> r]
            c == [op |-> "register", name |-> n, id |-> Len(task) + 1]
<1>0. PICK g : g = Len(task) + 1
  OBVIOUS
<1>1. /\ task \in Seq(Task) /\ Len(task) \in Nat /\ Len(task) < MaxTasks
      /\ current \in [Names -> Ids \cup {NoTask}] /\ ended \in [Ids -> 0 .. 2]
      /\ task' = Append(task, t) /\ Perform(c) /\ UNCHANGED <<running, runs, ended>>
  BY DEF Register, IInv, TypeOK, Hand
<1>2. current' = [current EXCEPT ![n] = g]
  BY <1>0, <1>1 DEF Perform, Install
<1>3. t.repeat = r /\ t.name = n
  OBVIOUS
<1>. HIDE DEF t
<1>4. /\ Len(task') = g /\ task'[g] = t
      /\ \A h \in 1 .. Len(task) : task'[h] = task[h]
  BY <1>0, <1>1
<1>5. /\ g \in Ids /\ ended[g] = 0 /\ TaskGrows
      /\ \A h \in Ids : h # g /\ h <= Len(task') => h <= Len(task)
      /\ \A h \in Ids : h <= Len(task) => h \in 1 .. Len(task)
  BY <1>0, <1>1, <1>4, RegisterKeeps, BoundsAssumption DEF Ids, VimInv, Unused
<1>6. Phase[g] = "new" /\ Phase'[g] = "armed"
  <2>1. PhaseOf(g) = "new"
    BY <1>0, <1>1, <1>5, PhasesHold DEF Phases
  <2>2. current'[task'[g].name] = g /\ ended'[g] = 0 /\ g <= Len(task')
    BY <1>1, <1>2, <1>3, <1>4, <1>5
  <2>3. IInv' => Phases'
    BY PhasesHold, PTL
  <2>4. PhaseOf(g)' = "armed"
    BY <1>5, <2>2, <2>3 DEF Phases
  <2>. QED  BY <1>5, <2>1, <2>4 DEF Phase
<1>7. \A h \in Ids : h # g
        => Phase'[h] = IF h \in Holder(n) THEN "dropped" ELSE Phase[h]
  BY <1>1, <1>2, <1>5, PhaseAfter DEF Phase
<1>8. \A h \in Ids : Wanted'[h] = IF h = g THEN r ELSE Wanted[h]
  BY <1>1, <1>3, <1>4, <1>5 DEF Wanted
<1>9. Phase' = [[h \in Ids |-> IF h \in Holder(n) THEN "dropped" ELSE Phase[h]]
                   EXCEPT ![g] = "armed"]
  BY <1>5, <1>6, <1>7 DEF Phase
<1>10. Wanted' = [Wanted EXCEPT ![g] = r]
  BY <1>5, <1>8 DEF Wanted
<1>11. PICK D : D = Holder(n)
  OBVIOUS
<1>12. Promise!Arm(g, r, D)
  BY <1>1, <1>6, <1>9, <1>10, <1>11
     DEF Promise!Arm, Promise!Dropping, Promise!Ids, Ids, Phase, Wanted
<1>13. D \in Promise!Victims /\ g \in Promise!Ids
  BY <1>5, <1>11, HolderIsArmed DEF Promise!Ids, Ids
<1>. QED  BY <1>12, <1>13, ArmIsNext

\* Deregistering drops the holder of the name, if there is one.
LEMMA DeregisterDrops ==
    ASSUME ~Async, IInv, VimInv, IInv', NEW n \in Names, Deregister(n)
    PROVE  Promise!Next
<1>1. /\ current' = [current EXCEPT ![n] = NoTask]
      /\ UNCHANGED <<task, running, runs, ended>>
  BY VimSchedule DEF Deregister, VimInv
<1>2. TaskGrows /\ \A h \in Ids : h # NoTask
  BY <1>1, BoundsAssumption DEF TaskGrows, IInv, TypeOK, Ids, NoTask
<1>3. \A h \in Ids : Phase'[h] = IF h \in Holder(n) THEN "dropped" ELSE Phase[h]
  BY <1>1, <1>2, PhaseAfter DEF Phase
<1>4. Phase' = [h \in Ids |-> IF h \in Holder(n) THEN "dropped" ELSE Phase[h]]
  BY <1>3 DEF Phase
<1>5. Promise!Drop(Holder(n))
  BY <1>1, <1>4 DEF Promise!Drop, Promise!Dropping, Promise!Ids, Ids, Phase
<1>. QED  BY <1>5, HolderIsArmed DEF Promise!Next

\* A tick begins a call of an armed registration with repeats left.
LEMMA TickBegins ==
    ASSUME IInv, VimInv, NEW g \in Ids, Tick(g)
    PROVE  Promise!Next
<1>. DEFINE f == current[task[g].name]
<1>1. /\ g \in 1 .. Len(task) /\ f # NoTask /\ running = NoTask /\ running' = f /\ CountRun(f)
      /\ UNCHANGED <<task, current, ended>>
  BY DEF Tick, IInv, TypeOK
<1>2. /\ task \in Seq(Task) /\ Len(task) \in Nat /\ ended \in [Ids -> 0 .. 2]
      /\ runs \in [Ids -> Nat] /\ current \in [Names -> Ids \cup {NoTask}]
  BY DEF IInv, TypeOK
<1>3. task[g].name \in Names
  <2>1. task[g] \in Task
    BY <1>1, <1>2
  <2>. QED  BY <2>1 DEF Task
<1>4. f \in Ids /\ f \in 1 .. Len(task) /\ task[f].name = task[g].name /\ ended[f] = 0
  <2>1. f \in Ids /\ f <= Len(task) /\ task[f].name = task[g].name
    BY <1>1, <1>2, <1>3 DEF IInv, NamesMatch
  <2>2. ended[f] \in 0 .. 2 /\ ~(ended[f] > 0)
    BY <1>2, <1>3, <2>1 DEF VimInv, EndedIsGone
  <2>. QED  BY <1>2, <2>1, <2>2, BoundsAssumption DEF Ids
<1>. HIDE DEF f
<1>5. current[task[f].name] = f
  BY <1>4 DEF f
<1>6. PhaseOf(f) = "armed"
  BY <1>2, <1>4, <1>5, PhasesHold DEF Phases
<1>7. task[f].repeat \in Int /\ task[f].left \in Int
  <2>1. task[f] \in Task
    BY <1>2, <1>4
  <2>. QED  BY <2>1, RepeatsAssumption DEF Task
<1>8. Counted(f) => runs[f] < task[f].repeat
  BY <1>1, <1>2, <1>4, <1>7 DEF VimInv, CountsAddUp, Counted, Busy, NoTask
<1>9. runs' = IF Counted(f) THEN [runs EXCEPT ![f] = @ + 1] ELSE runs
  <2>1. runs[f] \in Nat
    BY <1>2, <1>4
  <2>2. Counted(f) => runs[f] <= task[f].repeat
    BY <1>7, <1>8, <2>1
  <2>. QED  BY <1>1, <2>2 DEF CountRun
<1>10. Wanted[f] = task[f].repeat /\ Wanted' = Wanted /\ Phase' = Phase /\ Phase[f] = "armed"
  BY <1>1, <1>4, <1>6 DEF Wanted, Phase, PhaseOf
<1>11. Promise!Begin(f)
  BY <1>1, <1>8, <1>9, <1>10 DEF Promise!Begin, Phase, Wanted, Counted, NoTask
<1>. QED  BY <1>4, <1>11 DEF Promise!Next, Promise!Ids, Ids


\* A call that comes to its end leaves what was asked for.
LEMMA WantedStays ==
    ASSUME IInv, FuncFinishes \/ FuncReturns \/ FuncRaises
    PROVE  /\ running \in 1 .. Len(task) /\ TaskGrows /\ Len(task') = Len(task)
           /\ \A g \in 1 .. Len(task) : task'[g].repeat = task[g].repeat
           /\ Wanted' = Wanted
<1>1. /\ task \in Seq(Task) /\ Len(task) \in Nat /\ running \in 1 .. Len(task)
      /\ task[running] \in Task
  BY DEF IInv, TypeOK, FuncFinishes, FuncReturns, FuncRaises, NoTask
<1>2. PICK v \in Int : task' = [task EXCEPT ![running].left = v] \/ task' = task
  <2>1. CASE FuncFinishes
    <3>. DEFINE w == 0
    <3>1. w \in Int /\ task' = [task EXCEPT ![running].left = w]
      BY <2>1 DEF FuncFinishes
    <3>. HIDE DEF w
    <3>. QED  BY <3>1
  <2>2. CASE FuncReturns
    <3>. DEFINE l == task[running].left
                w == IF l > 0 THEN l - 1 ELSE l
    <3>1. w \in Int
      BY <1>1 DEF Task
    <3>2. task' = [task EXCEPT ![running].left = w]
      BY <2>2 DEF FuncReturns
    <3>. HIDE DEF w
    <3>. QED  BY <3>1, <3>2
  <2>3. CASE FuncRaises
    BY <2>3 DEF FuncRaises
  <2>. QED  BY <2>1, <2>2, <2>3
<1>3. /\ Len(task') = Len(task)
      /\ \A g \in 1 .. Len(task) : task'[g].repeat = task[g].repeat
  <2>1. CASE task' = task
    BY <2>1
  <2>2. CASE task' = [task EXCEPT ![running].left = v]
    BY <1>1, <2>2, EditLeft
  <2>. QED  BY <1>2, <2>1, <2>2
<1>4. TaskGrows
  BY StepGrows DEF Next
<1>5. \A g \in Ids : g <= Len(task) => g \in 1 .. Len(task)
  BY <1>1, BoundsAssumption DEF Ids
<1>6. Wanted' = Wanted
  BY <1>3, <1>5 DEF Wanted
<1>. QED  BY <1>1, <1>3, <1>4, <1>6

\* A call that returns has left its registration something to do.
LEMMA ReturnReturns ==
    ASSUME IInv, VimInv, IInv', FuncReturns
    PROVE  Promise!Return
<1>1. /\ running \in 1 .. Len(task) /\ TaskGrows /\ Len(task') = Len(task)
      /\ Wanted' = Wanted /\ task \in Seq(Task) /\ Len(task) \in Nat
  BY WantedStays DEF IInv, TypeOK
<1>2. /\ task[running].left # 1 /\ running' = NoTask
      /\ UNCHANGED <<current, runs, ended>>
  BY DEF FuncReturns
<1>3. /\ \A g \in Ids : g <= Len(task) => g \in 1 .. Len(task) /\ task'[g].name = task[g].name
      /\ running \in Ids /\ running # NoTask /\ ended[running] \in 0 .. 2
      /\ runs[running] \in Nat
  <2>1. Len(task) <= MaxTasks /\ ended \in [Ids -> 0 .. 2] /\ runs \in [Ids -> Nat]
    BY DEF IInv, TypeOK
  <2>2. \A g \in Ids : g <= Len(task) => g \in 1 .. Len(task)
    BY <1>1, BoundsAssumption DEF Ids
  <2>. QED  BY <1>1, <2>1, <2>2, BoundsAssumption DEF TaskGrows, Ids, NoTask
<1>4. Phase' = Phase
  BY <1>1, <1>2, <1>3 DEF Phase, PhaseOf
<1>5. task[running].repeat \in Int /\ task[running].left \in Int
  <2>1. task[running] \in Task
    BY <1>1
  <2>. QED  BY <2>1, RepeatsAssumption DEF Task
<1>6. ended[running] = 0
  BY <1>3 DEF VimInv, EndedIsGone
<1>7. Wanted[running] = task[running].repeat
  BY <1>1, <1>3 DEF Wanted
<1>8. Counted(running) => runs[running] < task[running].repeat
  <2>. SUFFICES ASSUME Counted(running) PROVE runs[running] < task[running].repeat
    OBVIOUS
  <2>1. /\ task[running].left \in 1 .. task[running].repeat
        /\ runs[running] + task[running].left = task[running].repeat + 1
    BY <1>1, <1>6 DEF VimInv, CountsAddUp, Busy
  <2>. QED  BY <1>2, <1>3, <1>5, <2>1
<1>. QED
  BY <1>2, <1>1, <1>3, <1>4, <1>7, <1>8
     DEF Promise!Return, Phase, Wanted, Counted, NoTask

\* The last call, or one that raises, ends its registration, and drops the
\* registration that holds its name if that is another.
LEMMA ConcludeEnds ==
    ASSUME ~Async, IInv, VimInv, IInv', FuncFinishes \/ FuncRaises
    PROVE  Promise!Next
<1>1. /\ running \in 1 .. Len(task) /\ TaskGrows /\ Len(task') = Len(task)
      /\ Wanted' = Wanted
  BY WantedStays
<1>2. /\ task \in Seq(Task) /\ Len(task) \in Nat /\ ended \in [Ids -> 0 .. 2]
      /\ running \in Ids /\ task[running] \in Task
  <2>1. /\ task \in Seq(Task) /\ Len(task) <= MaxTasks /\ ended \in [Ids -> 0 .. 2]
        /\ Len(task) \in Nat
    BY DEF IInv, TypeOK
  <2>. QED  BY <1>1, <2>1, BoundsAssumption DEF Ids
<1>3. PICK n \in Names : n = task[running].name
  BY <1>2 DEF Task
<1>4. /\ ScheduleDeregister(n) /\ CountEnd(running)
      /\ running' = NoTask /\ UNCHANGED runs
  BY <1>3 DEF FuncFinishes, FuncRaises, Conclude
<1>5. current' = [current EXCEPT ![n] = NoTask]
  BY <1>4, VimSchedule DEF VimInv
<1>6. PICK g \in Ids : g = running
  BY <1>2
<1>7. g # NoTask /\ g <= Len(task) /\ \A h \in Ids : h # NoTask
  BY <1>1, <1>2, <1>6, BoundsAssumption DEF Ids, NoTask
<1>8. ended[g] = 0 /\ ended' = [ended EXCEPT ![g] = 1]
  <2>1. ended[g] \in 0 .. 2 /\ ~(ended[g] > 0)
    BY <1>2, <1>6 DEF VimInv, EndedIsGone
  <2>2. ended[g] = 0
    BY <2>1
  <2>. QED  BY <1>2, <1>4, <1>6, <2>2 DEF CountEnd
<1>9. Phase[g] # "ended" /\ Phase'[g] = "ended"
  <2>1. Phases /\ Phases'
    <3>1. IInv' => Phases'
      BY PhasesHold, PTL
    <3>. QED  BY <3>1, PhasesHold
  <2>2. PhaseOf(g) \in {"armed", "dropped"}
    BY <1>7, <1>8, <2>1 DEF Phases
  <2>3. PhaseOf(g)' = "ended"
    BY <1>1, <1>2, <1>7, <1>8, <2>1 DEF Phases
  <2>. QED  BY <2>2, <2>3 DEF Phase
<1>10. \A h \in Ids : h # g
         => Phase'[h] = IF h \in Holder(n) THEN "dropped" ELSE Phase[h]
  BY <1>1, <1>2, <1>5, <1>7, <1>8, PhaseAfter DEF Phase
<1>11. PICK D : D = Holder(n)
  OBVIOUS
<1>12. Phase' = [[h \in Ids |-> IF h \in D THEN "dropped" ELSE Phase[h]] EXCEPT ![g] = "ended"]
  BY <1>9, <1>10, <1>11 DEF Phase
<1>13. Promise!End(D)
  BY <1>1, <1>4, <1>6, <1>7, <1>9, <1>12
     DEF Promise!End, Promise!Dropping, Promise!Ids, Ids, Phase, Wanted, NoTask
<1>14. D \in Promise!Victims
  BY <1>11, HolderIsArmed
<1>. QED  BY <1>13, <1>14 DEF Promise!Next

\* On Vim every registration behaves as TimerPromise says, whatever names are
\* used and reused, and also when functions register their own name again: it
\* is run no more often than asked, not after it was dropped or has ended, one
\* call at a time, and ends once.
THEOREM VimKeepsPromise == ASSUME ~Async PROVE Spec => KeepsPromise
<1>1. Init => Promise!Init
  <2>. SUFFICES ASSUME Init PROVE Promise!Init
    OBVIOUS
  <2>1. Len(task) = 0 /\ \A g \in Ids : g \in Nat /\ g > 0 /\ ~(g <= 0)
    BY BoundsAssumption DEF Init, Ids
  <2>2. Phase = [g \in Ids |-> "new"]
    BY <2>1 DEF Phase, PhaseOf
  <2>3. Wanted = [g \in Ids |-> 0]
    BY <2>1 DEF Wanted
  <2>. QED  BY <2>2, <2>3 DEF Init, Promise!Init, Promise!Ids, Ids, Phase, Wanted, NoTask
<1>2. Init => VimInv
  BY BoundsAssumption DEF Init, VimInv, EndedIsGone, EndsOnce, CountsAddUp,
     RunsWithinRepeat, Unused
<1>3. IInv /\ VimInv /\ [Next]_vars => VimInv'
  BY VimStep
<1>4. IInv /\ VimInv /\ IInv' /\ [Next]_vars => [Promise!Next]_(Promise!vars)
  <2>. SUFFICES ASSUME IInv, VimInv, IInv', [Next]_vars
                PROVE  [Promise!Next]_(Promise!vars)
    OBVIOUS
  <2>1. ASSUME NEW n \in Names, NEW r \in Repeats, Register(n, r) PROVE Promise!Next
    BY <2>1, RegisterArms
  <2>2. ASSUME NEW n \in Names, Deregister(n) PROVE Promise!Next
    BY <2>2, DeregisterDrops
  <2>3. ASSUME NEW g \in Ids, Tick(g) PROVE Promise!Next
    BY <2>3, TickBegins
  <2>4. ASSUME FuncReturns PROVE Promise!Next
    BY <2>4, ReturnReturns DEF Promise!Next
  <2>5. ASSUME FuncFinishes \/ FuncRaises PROVE Promise!Next
    BY <2>5, ConcludeEnds
  <2>6. ASSUME (\E g \in Ids : StopTimer(g)) \/ UNCHANGED vars
        PROVE  UNCHANGED Promise!vars
    <3>1. UNCHANGED <<task, current, running, runs, ended>>
      BY <2>6 DEF StopTimer, vars
    <3>2. Phase' = Phase /\ Wanted' = Wanted
      BY <3>1 DEF Phase, Wanted, PhaseOf
    <3>. QED  BY <3>1, <3>2 DEF Promise!vars, Phase, Wanted
  <2>7. ~RunPosted
    BY DEF RunPosted, VimInv
  <2>. QED  BY <2>1, <2>2, <2>3, <2>4, <2>5, <2>6, <2>7 DEF Next
<1>. QED  BY <1>1, <1>2, <1>3, <1>4, Invariance, PTL DEF Spec, KeepsPromise, Promise!Spec

=============================================================================

